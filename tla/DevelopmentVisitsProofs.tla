------------------------ MODULE DevelopmentVisitsProofs ------------------------
(***************************************************************************)
(* The page that is open keeps its editor locked, runs the callback that   *)
(* waits, and polls for its own submission, whatever the calls and timers  *)
(* of the page that was left do, for all bounds, as long as the user       *)
(* presses no button before the text is loaded.                            *)
(*                                                                         *)
(* A page shows what is stored, no change is applied to a text it was not  *)
(* made in, and what is tested is stored already, on both visits.  The     *)
(* changes that are not stored yet lead, one after the other, from the     *)
(* stored text to the text of the editor: what the server makes of them    *)
(* rests on what a fold over any number of them computes.                  *)
(***************************************************************************)
EXTENDS DevelopmentVisits, SequenceTheorems, WellFoundedInduction, TLAPS

\* The parts of the types that the invariants rest on.
PageType ==
    /\ mode \in {"LOADING", "EDITING", "PENDING", "IN_PROGRESS"}
    /\ onClean \in {"none", "submit", "reset"}
    /\ DOMAIN list = {"state", "unsent", "inTransmission"}
    /\ {readOnly, flushing, checking} \subseteq BOOLEAN
    /\ pollTimer \in {"absent", "stopped", "running"}
    /\ call \in [Calls -> CallStates]

\* The page loads once: the text arrives while the mode is LOADING.
LoadInv ==
    /\ call["setProblem"] = "idle" \/ call["load"] = "idle"
    /\ call["setProblem"] # "idle" => mode = "LOADING"
    /\ call["load"] # "idle" => mode = "LOADING" /\ pollTimer = "stopped"

\* The mode determines the lock and the callback.
ModeInv ==
    /\ readOnly <=> mode # "EDITING"
    /\ onClean # "none" <=> mode \in {"PENDING", "IN_PROGRESS"}
    /\ mode = "PENDING" => list.state # "CLEAN"
    /\ mode = "IN_PROGRESS" => onClean = "submit" /\ text = submitted

\* The two calls of a submission follow each other while it is in progress.
PollInv ==
    /\ mode # "LOADING" => pollTimer # "absent"
    /\ call["submit"] # "idle" =>
           mode = "IN_PROGRESS" /\ pollTimer # "running" /\ call["check"] = "idle"
    /\ call["check"] # "idle" => mode = "IN_PROGRESS"
    /\ pollTimer = "running" => mode = "IN_PROGRESS"
    /\ checking <=> call["check"] # "idle"

PageInv == PageType /\ LoadInv /\ ModeInv /\ PollInv

\* Between the visits there is no page.
AwayInv ==
    visit = "away" =>
        /\ mode = "LOADING" /\ ~flushing
        /\ call = NoCalls

-----------------------------------------------------------------------------
\* A list to which a change was added is not clean.
LEMMA AddedNotClean ==
    ASSUME NEW l, NEW c, DOMAIN l = {"state", "unsent", "inTransmission"}
    PROVE  /\ DOMAIN AddChange(l, c) = DOMAIN l
           /\ AddChange(l, c).state # "CLEAN"
PROOF
  BY DEF AddChange

\* What the editor reports makes no list clean.
LEMMA ReportedNotClean ==
    ASSUME NEW l, NEW s, NEW t, DOMAIN l = {"state", "unsent", "inTransmission"}
    PROVE  /\ DOMAIN Reported(l, s, t) = DOMAIN l
           /\ l.state # "CLEAN" => Reported(l, s, t).state # "CLEAN"
PROOF
  BY AddedNotClean DEF Reported

\* Ending a transmission keeps the shape of the list.
LEMMA EndTransmitShape ==
    ASSUME NEW l, DOMAIN l = {"state", "unsent", "inTransmission"}
    PROVE  DOMAIN EndTransmitSuccess(l) = DOMAIN l
PROOF
  BY DEF EndTransmitSuccess

-----------------------------------------------------------------------------
\* A call that goes on, in the server or on its way, does nothing to the page.
LEMMA CallGoesOn ==
    ASSUME PageInv, NEW c \in Calls, NEW r \in CallStates \ {"idle"},
           call[c] # "idle", Answer(c, r),
           UNCHANGED <<pageVars, timerVars, submitted>>
    PROVE  PageInv'
PROOF
  <1>1. \A d \in Calls : call'[d] = "idle" <=> call[d] = "idle"
    BY DEF PageInv, PageType, Answer
  <1>2. call' \in [Calls -> CallStates]
    BY DEF PageInv, PageType, Answer, CallStates
  <1>3. PageType'
    BY <1>2 DEF PageInv, PageType, pageVars, timerVars
  <1>4. LoadInv' /\ ModeInv' /\ PollInv'
    BY <1>1 DEF PageInv, LoadInv, ModeInv, PollInv, Calls, pageVars, timerVars
  <1> QED BY <1>3, <1>4 DEF PageInv

\* What the handlers of the server and the network do is of this kind.
LEMMA ServerStep ==
    ASSUME PageInv, Handlers \/ (\E c \in Calls : Lost(c) \/ Recover(c))
    PROVE  PageInv'
PROOF
  <1>1. CASE SetProblem
    BY <1>1, CallGoesOn DEF SetProblem, Calls, CallStates
  <1>2. CASE LoadCurrentText
    BY <1>2, CallGoesOn DEF LoadCurrentText, Calls, CallStates
  <1>3. CASE LogChange
    BY <1>3, CallGoesOn DEF LogChange, Calls, CallStates
  <1>4. CASE Submit
    BY <1>4, CallGoesOn DEF Submit, Calls, CallStates
  <1>5. CASE CheckSubmission
    BY <1>5, CallGoesOn DEF CheckSubmission, Calls, CallStates
  <1>6. ASSUME NEW c \in Calls, Unauthenticated(c)
        PROVE  PageInv'
    BY <1>6, CallGoesOn DEF Unauthenticated, CallStates
  <1>7. ASSUME NEW c \in Calls, Lost(c) \/ Recover(c)
        PROVE  PageInv'
    BY <1>7, CallGoesOn DEF Lost, Recover, CallStates
  <1> QED BY <1>1, <1>2, <1>3, <1>4, <1>5, <1>6, <1>7 DEF Handlers

\* The user can edit what is loaded and not locked.
LEMMA EditStep ==
    ASSUME PageInv, Edit
    PROVE  PageInv'
PROOF
  <1>1. DOMAIN list' = DOMAIN list /\ mode = "EDITING" /\ mode' = mode
    BY ReportedNotClean DEF PageInv, PageType, ModeInv, Edit
  <1>2. PageType'
    BY <1>1 DEF PageInv, PageType, Edit, timerVars, callVars
  <1>3. LoadInv' /\ ModeInv' /\ PollInv'
    BY <1>1 DEF PageInv, LoadInv, ModeInv, PollInv, Edit, timerVars, callVars
  <1> QED BY <1>2, <1>3 DEF PageInv

\* A callback runs when no call of a submission is under way.
LEMMA CallbackStep ==
    ASSUME PageInv, NEW b \in {"submit", "reset"}, NEW c, NEW l,
           c \in [Calls -> CallStates],
           \A d \in Calls \ {"log"} : c[d] = call[d],
           DOMAIN l = {"state", "unsent", "inTransmission"},
           mode \in {"EDITING", "PENDING"},
           RunCallback(b, c, l), UNCHANGED timerVars
    PROVE  PageInv'
PROOF
  <1>1. CASE b = "submit" /\ DoSubmit(c) /\ list' = l
    <2>1. /\ call' \in [Calls -> CallStates]
          /\ call'["submit"] = "sent"
          /\ \A d \in Calls \ {"log", "submit"} : call'[d] = call[d]
      BY <1>1 DEF DoSubmit, Calls, CallStates
    <2>2. PageType'
      BY <1>1, <2>1 DEF DoSubmit, PageInv, PageType, timerVars
    <2>3. LoadInv' /\ ModeInv' /\ PollInv'
      BY <1>1, <2>1 DEF DoSubmit, PageInv, LoadInv, ModeInv, PollInv, timerVars, Calls
    <2> QED BY <2>2, <2>3 DEF PageInv
  <1>2. CASE b = "reset" /\ DoReset(c, l)
    <2>1. DOMAIN list' = DOMAIN l
      BY <1>2, AddedNotClean DEF DoReset
    <2>2. PageType'
      BY <1>2, <2>1 DEF DoReset, PageInv, PageType, timerVars
    <2>3. LoadInv' /\ ModeInv' /\ PollInv'
      BY <1>2 DEF DoReset, PageInv, LoadInv, ModeInv, PollInv, timerVars, Calls
    <2> QED BY <2>2, <2>3 DEF PageInv
  <1> QED BY <1>1, <1>2 DEF RunCallback

\* A press starts a callback or installs it.
LEMMA PressStep ==
    ASSUME PageInv, UserWaits, NEW b \in {"submit", "reset"}, Press(b)
    PROVE  PageInv'
PROOF
  <1>1. mode = "EDITING"
    BY DEF Press, PageInv, PageType, ModeInv
  <1>2. CASE RunCallback(b, call, list)
    BY <1>1, <1>2, CallbackStep DEF Press, PageInv, PageType
  <1>3. CASE ~RunCallback(b, call, list)
    <2>1. PageType'
      BY <1>3 DEF Press, PageInv, PageType, timerVars
    <2>2. LoadInv' /\ ModeInv' /\ PollInv'
      BY <1>1, <1>3 DEF Press, PageInv, LoadInv, ModeInv, PollInv, timerVars
    <2> QED BY <2>1, <2>2 DEF PageInv
  <1> QED BY <1>2, <1>3

\* Transmitting leaves no list clean; a check starts for a submission in progress.
LEMMA TimerStep ==
    ASSUME PageInv, Timers
    PROVE  PageInv'
PROOF
  <1>1. CASE FlushTimer
    <2>1. /\ DOMAIN list' = {"state", "unsent", "inTransmission"}
          /\ list'.state = "TRANSMISSION"
      BY <1>1 DEF FlushTimer, BeginTransmit
    <2>2. call' \in [Calls -> CallStates] /\ \A d \in Calls \ {"log"} : call'[d] = call[d]
      BY <1>1 DEF FlushTimer, PageInv, PageType, Calls, CallStates
    <2>3. PageType'
      BY <1>1, <2>1, <2>2 DEF FlushTimer, PageInv, PageType, timerVars
    <2>4. LoadInv' /\ ModeInv' /\ PollInv'
      BY <1>1, <2>1, <2>2
         DEF FlushTimer, PageInv, LoadInv, ModeInv, PollInv, timerVars, Calls
    <2> QED BY <2>3, <2>4 DEF PageInv
  <1>2. CASE PollTimer
    <2>1. /\ call' \in [Calls -> CallStates]
          /\ call'["check"] = "sent"
          /\ \A d \in Calls \ {"check"} : call'[d] = call[d]
      BY <1>2 DEF PollTimer, PageInv, PageType, Calls, CallStates
    <2>2. PageType'
      BY <1>2, <2>1 DEF PollTimer, PageInv, PageType, pageVars
    <2>3. LoadInv' /\ ModeInv' /\ PollInv'
      BY <1>2, <2>1
         DEF PollTimer, PageInv, LoadInv, ModeInv, PollInv, pageVars, Calls
    <2> QED BY <2>2, <2>3 DEF PageInv
  <1> QED BY <1>1, <1>2 DEF Timers

\* The replies to setProblem and to loadCurrentText: the page loads once.
LEMMA LoadReplyStep ==
    ASSUME PageInv, ProblemApproved \/ TextLoaded
    PROVE  PageInv'
PROOF
  <1>1. CASE ProblemApproved
    <2>1. /\ call' \in [Calls -> CallStates]
          /\ call'["setProblem"] = "idle" /\ call'["load"] = "sent"
          /\ \A d \in Calls \ {"setProblem", "load"} : call'[d] = call[d]
      BY <1>1 DEF ProblemApproved, PageInv, PageType, Calls, CallStates
    <2>2. PageType'
      BY <1>1, <2>1 DEF ProblemApproved, PageInv, PageType, pageVars
    <2>3. LoadInv' /\ ModeInv' /\ PollInv'
      BY <1>1, <2>1
         DEF ProblemApproved, PageInv, LoadInv, ModeInv, PollInv, pageVars, Calls
    <2> QED BY <2>2, <2>3 DEF PageInv
  <1>2. CASE TextLoaded
    <2>1. /\ call' \in [Calls -> CallStates]
          /\ call'["load"] = "idle"
          /\ \A d \in Calls \ {"load"} : call'[d] = call[d]
      BY <1>2 DEF TextLoaded, Answer, PageInv, PageType, Calls, CallStates
    <2>2. mode = "LOADING" /\ pollTimer = "stopped" /\ onClean = "none"
      BY <1>2 DEF TextLoaded, PageInv, PageType, LoadInv, ModeInv
    <2>3. DOMAIN list' = {"state", "unsent", "inTransmission"}
      BY <1>2, AddedNotClean, ReportedNotClean DEF TextLoaded, PageInv, PageType
    <2>4. PageType'
      BY <1>2, <2>1, <2>3 DEF TextLoaded, PageInv, PageType, timerVars
    <2>5. LoadInv' /\ ModeInv' /\ PollInv'
      BY <1>2, <2>1, <2>2
         DEF TextLoaded, PageInv, LoadInv, ModeInv, PollInv, timerVars, Calls
    <2> QED BY <2>4, <2>5 DEF PageInv
  <1> QED BY <1>1, <1>2

\* The replies to logChange: a waiting callback runs when the list is clean.
LEMMA LogReplyStep ==
    ASSUME PageInv, ChangesLogged \/ ChangesNotLogged
    PROVE  PageInv'
PROOF
  <1> DEFINE c == [call EXCEPT !["log"] = "idle"]
  <1>1. /\ c \in [Calls -> CallStates]
        /\ \A d \in Calls \ {"log"} : c[d] = call[d]
    BY DEF PageInv, PageType, Calls, CallStates
  <1>2. DOMAIN EndTransmitSuccess(list) = {"state", "unsent", "inTransmission"}
    BY EndTransmitShape DEF PageInv, PageType
  <1>3. CASE ChangesLogged
    <2>1. CASE mode = "PENDING" /\ RunCallback(onClean, c, EndTransmitSuccess(list))
      <3>1. onClean \in {"submit", "reset"}
        BY <2>1 DEF PageInv, PageType, ModeInv
      <3>2. UNCHANGED timerVars
        BY <1>3 DEF ChangesLogged
      <3> QED BY <1>1, <1>2, <2>1, <3>1, <3>2, CallbackStep
    <2>2. CASE /\ ~(EndTransmitSuccess(list).state = "CLEAN" /\ mode = "PENDING")
               /\ list' = EndTransmitSuccess(list) /\ call' = c
               /\ UNCHANGED <<mode, readOnly, onClean, text, submitted, timerVars>>
      <3>1. PageType'
        BY <1>1, <1>2, <2>2 DEF PageInv, PageType, timerVars
      <3>2. LoadInv' /\ ModeInv' /\ PollInv'
        BY <1>1, <2>2 DEF PageInv, LoadInv, ModeInv, PollInv, timerVars, Calls
      <3> QED BY <3>1, <3>2 DEF PageInv
    <2> QED BY <1>3, <2>1, <2>2 DEF ChangesLogged
  <1>4. CASE ChangesNotLogged
    <2>1. /\ DOMAIN list' = {"state", "unsent", "inTransmission"}
          /\ list'.state = "UNSENT"
      BY <1>4 DEF ChangesNotLogged, EndTransmitFailure
    <2>2. call' = c
      BY <1>4 DEF ChangesNotLogged, Answer
    <2>3. PageType'
      BY <1>1, <1>4, <2>1, <2>2 DEF ChangesNotLogged, PageInv, PageType, timerVars
    <2>4. LoadInv' /\ ModeInv' /\ PollInv'
      BY <1>1, <1>4, <2>1, <2>2
         DEF ChangesNotLogged, PageInv, LoadInv, ModeInv, PollInv, timerVars, Calls
    <2> QED BY <2>3, <2>4 DEF PageInv
  <1> QED BY <1>3, <1>4

\* The replies to submit and checkSubmission.
LEMMA SubmitReplyStep ==
    ASSUME PageInv,
           SubmissionAccepted \/ ResultReceived \/ NoResultYet \/ CheckFailed
    PROVE  PageInv'
PROOF
  <1>1. \A c \in Calls : Answer(c, "idle") =>
            /\ call' \in [Calls -> CallStates]
            /\ call'[c] = "idle"
            /\ \A d \in Calls \ {c} : call'[d] = call[d]
    BY DEF Answer, PageInv, PageType, Calls, CallStates
  <1>2. PageType'
    BY <1>1 DEF SubmissionAccepted, ResultReceived, NoResultYet, CheckFailed,
                PageInv, PageType, pageVars, Calls
  <1>3. CASE SubmissionAccepted
    BY <1>1, <1>2, <1>3 DEF SubmissionAccepted, PageInv, PageType, LoadInv, ModeInv,
                            PollInv, pageVars, Calls
  <1>4. CASE ResultReceived
    BY <1>1, <1>2, <1>4 DEF ResultReceived, PageInv, PageType, LoadInv, ModeInv,
                            PollInv, Calls
  <1>5. CASE NoResultYet
    BY <1>1, <1>2, <1>5 DEF NoResultYet, PageInv, PageType, LoadInv, ModeInv,
                            PollInv, pageVars, Calls
  <1>6. CASE CheckFailed
    BY <1>1, <1>2, <1>6 DEF CheckFailed, PageInv, PageType, LoadInv, ModeInv,
                            PollInv, pageVars, Calls
  <1> QED BY <1>3, <1>4, <1>5, <1>6

\* A failure that is only reported, and the calls that are sent again.
LEMMA FailureStep ==
    ASSUME PageInv, Resume \/ \E c \in Calls : OnlyReported(c)
    PROVE  PageInv'
PROOF
  <1>1. CASE Resume
    <2>1. /\ call' \in [Calls -> CallStates]
          /\ \A d \in Calls : call'[d] = "idle" <=> call[d] = "idle"
      BY <1>1 DEF Resume, PageInv, PageType, CallStates
    <2>2. PageType'
      BY <1>1, <2>1 DEF Resume, PageInv, PageType, pageVars, timerVars
    <2>3. LoadInv' /\ ModeInv' /\ PollInv'
      BY <1>1, <2>1 DEF Resume, PageInv, LoadInv, ModeInv, PollInv,
                        pageVars, timerVars, Calls
    <2> QED BY <2>2, <2>3 DEF PageInv
  <1>2. ASSUME NEW c \in Calls, OnlyReported(c)
        PROVE  PageInv'
    <2>1. /\ c # "check"
          /\ call' \in [Calls -> CallStates]
          /\ call'[c] = "idle"
          /\ \A d \in Calls \ {c} : call'[d] = call[d]
      BY <1>2 DEF OnlyReported, Answer, PageInv, PageType, CallStates
    <2>2. PageType'
      BY <1>2, <2>1 DEF OnlyReported, PageInv, PageType, pageVars, timerVars
    <2>3. LoadInv' /\ ModeInv' /\ PollInv'
      BY <1>2, <2>1 DEF OnlyReported, PageInv, LoadInv, ModeInv, PollInv,
                        pageVars, timerVars, Calls
    <2> QED BY <2>2, <2>3 DEF PageInv
  <1> QED BY <1>1, <1>2

\* Nothing else touches the page.
LEMMA ElsewhereStep ==
    ASSUME PageInv, UNCHANGED <<pageVars, timerVars, call, submitted>>
    PROVE  PageInv'
PROOF
  BY DEF PageInv, PageType, LoadInv, ModeInv, PollInv, pageVars, timerVars

LEMMA PageStep ==
    ASSUME PageInv, UserWaits, Next
    PROVE  PageInv'
PROOF
  <1>1. CASE User
    BY <1>1, EditStep, PressStep DEF User
  <1>2. CASE Timers
    BY <1>2, TimerStep
  <1>3. CASE Handlers
    BY <1>3, ServerStep
  <1>4. CASE Replies
    BY <1>4, LoadReplyStep, LogReplyStep, SubmitReplyStep, FailureStep, ServerStep
       DEF Replies
  <1>5. CASE Resume
    BY <1>5, FailureStep
  <1>6. CASE Tested \/ Login \/ SessionExpires
    BY <1>6, ElsewhereStep DEF Tested, Login, SessionExpires, callVars
  <1>7. CASE \E c \in Calls : Lost(c)
    BY <1>7, ServerStep
  <1> QED BY <1>1, <1>2, <1>3, <1>4, <1>5, <1>6, <1>7 DEF Next, Faults

-----------------------------------------------------------------------------
(* The two visits.                                                         *)

VisitsInv == PageInv /\ AwayInv

\* A page begins as at its first visit, but for the call of setProblem.
LEMMA VisitsInvInit == VisitsInit => VisitsInv
PROOF
  <1> SUFFICES ASSUME VisitsInit PROVE VisitsInv
    OBVIOUS
  <1>1. PageType
    BY DEF VisitsInit, Init, PageType, Calls, CallStates
  <1>2. LoadInv /\ ModeInv /\ PollInv
    BY DEF VisitsInit, Init, LoadInv, ModeInv, PollInv, Calls
  <1>3. AwayInv
    BY DEF VisitsInit, AwayInv
  <1> QED BY <1>1, <1>2, <1>3 DEF VisitsInv, PageInv

\* Between the visits nothing happens to the page that is not there.
LEMMA AwayStep ==
    ASSUME VisitsInv, UserWaits, visit = "away", Page
    PROVE  AwayInv'
PROOF
  <1> USE DEF VisitsInv, AwayInv, NoCalls
  <1>1. /\ \A c \in Calls : call[c] = "idle"
        /\ mode = "LOADING" /\ readOnly /\ ~flushing /\ pollTimer # "running"
    BY DEF PageInv, PageType, ModeInv, PollInv
  <1>2. ~User
    BY <1>1 DEF User, Edit, Press
  <1>3. ~Timers
    BY <1>1 DEF Timers, FlushTimer, PollTimer
  <1>4. ~Handlers
    BY <1>1 DEF Handlers, SetProblem, LoadCurrentText, LogChange, Submit,
                CheckSubmission, Unauthenticated, Calls
  <1>5. ~Replies
    BY <1>1 DEF Replies, ProblemApproved, TextLoaded, ChangesLogged, ChangesNotLogged,
                SubmissionAccepted, ResultReceived, NoResultYet, CheckFailed,
                OnlyReported, Recover, Calls
  <1>6. Tested
    BY <1>2, <1>3, <1>4, <1>5 DEF Page
  <1> QED BY <1>6 DEF Tested, Page, visitVars, pageVars, timerVars, callVars

LEMMA VisitsStep ==
    ASSUME VisitsInv, UserWaits, [VisitsNext]_allVars
    PROVE  VisitsInv'
PROOF
  <1>1. CASE Page
    <2>1. PageInv'
      BY <1>1, PageStep DEF VisitsInv, Page, Next
    <2>2. AwayInv'
      BY <1>1, AwayStep DEF Page, visitVars, AwayInv
    <2> QED BY <2>1, <2>2 DEF VisitsInv
  <1>2. CASE Leave
    <2>1. PageType' /\ AwayInv'
      BY <1>2 DEF Leave, CleanList, NoCalls, PageType, AwayInv, CallStates
    <2>2. LoadInv' /\ ModeInv' /\ PollInv'
      BY <1>2 DEF Leave, NoCalls, LoadInv, ModeInv, PollInv, Calls
    <2> QED BY <2>1, <2>2 DEF VisitsInv, PageInv
  <1>3. CASE Return
    <2>1. /\ mode = "LOADING" /\ \A c \in Calls : call[c] = "idle"
          /\ visit' = "second" /\ UNCHANGED <<pageVars, timerVars, submitted>>
      BY <1>3 DEF Return, VisitsInv, AwayInv, NoCalls
    <2>2. /\ call' \in [Calls -> CallStates]
          /\ \A c \in Calls \ {"setProblem"} : call'[c] = "idle"
      BY <1>3, <2>1 DEF Return, VisitsInv, PageInv, PageType, Calls, CallStates
    <2>3. PageType' /\ AwayInv'
      BY <2>1, <2>2 DEF VisitsInv, PageInv, PageType, AwayInv, pageVars, timerVars
    <2>4. LoadInv' /\ ModeInv' /\ PollInv'
      BY <2>1, <2>2 DEF VisitsInv, PageInv, LoadInv, ModeInv, PollInv,
                        pageVars, timerVars, Calls
    <2> QED BY <2>3, <2>4 DEF VisitsInv, PageInv
  <1>4. CASE LeftFlushTimer
    <2>1. AwayInv'
      BY <1>4 DEF LeftFlushTimer, AwayInv, visitVars
    <2>2. /\ DOMAIN list' = {"state", "unsent", "inTransmission"}
          /\ list'.state = "TRANSMISSION"
      BY <1>4 DEF LeftFlushTimer, BeginTransmit
    <2>3. call' \in [Calls -> CallStates] /\ \A d \in Calls \ {"log"} : call'[d] = call[d]
      BY <1>4 DEF LeftFlushTimer, VisitsInv, PageInv, PageType, Calls, CallStates
    <2>4. PageType'
      BY <1>4, <2>2, <2>3 DEF LeftFlushTimer, VisitsInv, PageInv, PageType, timerVars
    <2>5. LoadInv' /\ ModeInv' /\ PollInv'
      BY <1>4, <2>2, <2>3 DEF LeftFlushTimer, VisitsInv, PageInv, LoadInv, ModeInv,
                              PollInv, timerVars, Calls
    <2> QED BY <2>1, <2>4, <2>5 DEF VisitsInv, PageInv
  <1>5. CASE LeftTextLoaded
    <2>1. AwayInv'
      BY <1>5 DEF LeftTextLoaded, VisitsInv, AwayInv, callVars, timerVars
    <2>2. /\ DOMAIN list' = {"state", "unsent", "inTransmission"}
          /\ list.state # "CLEAN" => list'.state # "CLEAN"
      BY <1>5, AddedNotClean DEF LeftTextLoaded, VisitsInv, PageInv, PageType
    <2>3. PageType'
      BY <1>5, <2>2 DEF LeftTextLoaded, VisitsInv, PageInv, PageType, timerVars, callVars
    <2>4. LoadInv' /\ ModeInv' /\ PollInv'
      BY <1>5, <2>2 DEF LeftTextLoaded, VisitsInv, PageInv, LoadInv, ModeInv, PollInv,
                        timerVars, callVars
    <2> QED BY <2>1, <2>3, <2>4 DEF VisitsInv, PageInv
  <1>6. CASE LeftStores \/ LeftChecks \/ LeftGoesOn \/ UNCHANGED allVars
    <2>1. UNCHANGED <<visit, pageVars, timerVars, call, submitted>>
      BY <1>6 DEF LeftStores, LeftChecks, LeftGoesOn, allVars, vars, visitVars, callVars
    <2>2. PageInv'
      BY <2>1, ElsewhereStep DEF VisitsInv
    <2> QED BY <2>1, <2>2 DEF VisitsInv, AwayInv, pageVars, timerVars
  <1> QED BY <1>1, <1>2, <1>3, <1>4, <1>5, <1>6 DEF VisitsNext

\* The invariant that carries the others, of the page that is open.
THEOREM VisitsInvariant == ASSUME UserWaits PROVE VisitsSpec => []VisitsInv
PROOF
  <1>1. VisitsInit => VisitsInv
    BY VisitsInvInit
  <1>2. VisitsInv /\ [VisitsNext]_allVars => VisitsInv'
    BY VisitsStep
  <1> QED BY <1>1, <1>2, PTL DEF VisitsSpec

\* For any number of edits, presses, failures and expiries, on both visits: while
\* a button's callback is not done the editor is locked and shows what is tested.
THEOREM LockedThroughout == ASSUME UserWaits PROVE VisitsSpec => []LockedWhileBusy
PROOF
  <1>1. VisitsInv => LockedWhileBusy
    BY DEF VisitsInv, PageInv, PageType, ModeInv, LockedWhileBusy
  <1> QED BY <1>1, VisitsInvariant, PTL

\* A callback that waits is installed, and the event it waits for is to come.
THEOREM PendingIsHeard == ASSUME UserWaits PROVE VisitsSpec => []PendingWillRun
PROOF
  <1>1. VisitsInv => PendingWillRun
    BY DEF VisitsInv, PageInv, ModeInv, PendingWillRun
  <1> QED BY <1>1, VisitsInvariant, PTL

\* The poll timer is there when a submission has been accepted, and runs for it only.
THEOREM PollsOnlyForSubmission ==
    ASSUME UserWaits PROVE VisitsSpec => []PollsForSubmission
PROOF
  <1>1. VisitsInv => PollsForSubmission
    BY DEF VisitsInv, PageInv, PageType, ModeInv, PollInv, PollsForSubmission, Calls
  <1> QED BY <1>1, VisitsInvariant, PTL

-----------------------------------------------------------------------------
(* What the server makes of a sequence of changes.                         *)

\* Each change was made in the text that the one before it led to.
Chain(t, cs) ==
    \A i \in 1..Len(cs) : cs[i].full \/ cs[i].from = IF i = 1 THEN t ELSE cs[i - 1].to

\* The text the changes lead to.
EndOf(t, cs) == IF cs = <<>> THEN t ELSE cs[Len(cs)].to

\* A set of numbers has a least one: the form of induction used below.
LEMMA LeastNumber ==
    ASSUME NEW T \in SUBSET Nat, T # {}
    PROVE  \E n \in T : \A m \in T : n <= m
PROOF
  <1>1. IsWellFoundedOn(OpToRel(<, Nat), Nat)
    BY NatLessThanWellFounded
  <1>2. PICK n \in T : \A m \in T : ~(<<m, n>> \in OpToRel(<, Nat))
    BY <1>1, WFMin
  <1>3. \A m \in T : ~(m < n)
    BY <1>2, Zenon DEF OpToRel
  <1>4. \A m \in T : m \in Nat
    OBVIOUS
  <1>5. \A m \in T : n <= m
    BY <1>3, <1>4, SMT
  <1> QED BY <1>5

\* What LogChange stores.
Replayed(t, cs) == FoldLeft(Apply, t, cs)

\* What LogChange's fold computes from the changes at the places of a set.
Replays(f, t, cs, D) ==
    f = [s \in SUBSET D |->
            IF s = {} THEN t ELSE Apply(f[s \ {Max(s)}], cs[Max(s)])]

LEMMA MaxOfInterval ==
    ASSUME NEW n \in Nat \ {0}, NEW s \in SUBSET (1..n), n \in s
    PROVE  Max(s) = n
PROOF
  <1>1. \A y \in s : n >= y /\ y \in Nat
    OBVIOUS
  <1>2. \E x \in s : \A y \in s : x >= y
    BY <1>1
  <1>3. Max(s) \in s /\ \A y \in s : Max(s) >= y
    <2> DEFINE Top(x) == x \in s /\ \A y \in s : x >= y
    <2>1. Max(s) = CHOOSE x : Top(x)
      BY DEF Max
    <2>2. \E x : Top(x)
      BY <1>2
    <2> HIDE DEF Top
    <2>3. Top(CHOOSE x : Top(x))
      BY <2>2
    <2> QED BY <2>1, <2>3 DEF Top
  <1>4. PICK m : m = Max(s)
    OBVIOUS
  <1>5. m \in Nat /\ n >= m /\ m >= n
    BY <1>1, <1>3, <1>4
  <1> QED BY <1>4, <1>5

LEMMA ReplayExists ==
    ASSUME NEW t, NEW cs, NEW n \in Nat
    PROVE  \E f : Replays(f, t, cs, 1..n)
PROOF
  <1> DEFINE Missing == {k \in Nat : ~ \E f : Replays(f, t, cs, 1..k)}
  <1> SUFFICES ASSUME Missing # {} PROVE FALSE
    OBVIOUS
  <1>1. PICK k \in Missing : \A m \in Missing : k <= m
    BY LeastNumber
  <1>2. CASE k = 0
    <2> DEFINE f == [s \in SUBSET (1..k) |-> t]
    <2>1. 1..k = {}
      BY <1>2
    <2>2. Replays(f, t, cs, 1..k)
      BY <2>1 DEF Replays
    <2> QED BY <1>1, <2>2
  <1>3. CASE k # 0
    <2>1. k \in Nat \ {0} /\ k - 1 \in Nat /\ ~(k <= k - 1)
      BY <1>1, <1>3
    <2>2. PICK g : Replays(g, t, cs, 1..(k - 1))
      BY <1>1, <2>1
    <2> DEFINE f == [s \in SUBSET (1..k) |->
                        IF k \in s THEN Apply(g[s \ {k}], cs[k]) ELSE g[s]]
    <2>3. ASSUME NEW s \in SUBSET (1..k)
          PROVE  f[s] = IF s = {} THEN t ELSE Apply(f[s \ {Max(s)}], cs[Max(s)])
      <3>1. \A r \in SUBSET (1..k) : k \notin r => r \in SUBSET (1..(k - 1))
        BY <2>1
      <3>2. CASE k \in s
        <4>1. Max(s) = k
          BY <2>1, <3>2, MaxOfInterval
        <4>2. s \ {k} \in SUBSET (1..k) /\ k \notin s \ {k}
          OBVIOUS
        <4> QED BY <3>2, <4>1, <4>2
      <3>3. CASE k \notin s
        <4>1. s \in SUBSET (1..(k - 1))
          BY <3>1, <3>3
        <4>2. g[s] = IF s = {} THEN t ELSE Apply(g[s \ {Max(s)}], cs[Max(s)])
          BY <2>2, <4>1 DEF Replays
        <4>3. s \ {Max(s)} \in SUBSET (1..k) /\ k \notin s \ {Max(s)}
          BY <3>3
        <4> QED BY <3>3, <4>2, <4>3
      <3> QED BY <3>2, <3>3
    <2>4. Replays(f, t, cs, 1..k)
      BY <2>3 DEF Replays
    <2> QED BY <1>1, <2>4
  <1> QED BY <1>2, <1>3

\* The fold applies one change after the other.
LEMMA ReplaySteps ==
    ASSUME NEW t, NEW S, NEW cs \in Seq(S)
    PROVE  \E f : /\ Replayed(t, cs) = f[Len(cs)]
                  /\ f[0] = t
                  /\ \A k \in 1..Len(cs) : f[k] = Apply(f[k - 1], cs[k])
PROOF
  <1>1. DOMAIN cs = 1..Len(cs) /\ Len(cs) \in Nat
    BY LenProperties
  <1>2. Replayed(t, cs) = (CHOOSE f : Replays(f, t, cs, DOMAIN cs))[DOMAIN cs]
    BY DEF Replayed, FoldLeft, MapThenFoldSet, Max, Replays
  <1>3. PICK f : Replays(f, t, cs, 1..Len(cs)) /\ Replayed(t, cs) = f[1..Len(cs)]
    BY <1>1, <1>2, ReplayExists
  <1> DEFINE g == [k \in 0..Len(cs) |-> f[1..k]]
  <1>4. g[Len(cs)] = f[1..Len(cs)]
    BY <1>1
  <1>5. g[0] = t
    <2>1. 1..0 = {} /\ {} \in SUBSET (1..Len(cs)) /\ 0 \in 0..Len(cs)
      BY <1>1
    <2>2. f[{}] = t
      BY <1>3, <2>1 DEF Replays
    <2> QED BY <2>1, <2>2
  <1>6. ASSUME NEW k \in 1..Len(cs)
        PROVE  g[k] = Apply(g[k - 1], cs[k])
    <2>1. /\ k \in Nat \ {0} /\ k \in 1..k /\ 1..k \in SUBSET (1..Len(cs)) /\ 1..k # {}
          /\ k \in 0..Len(cs) /\ k - 1 \in 0..Len(cs)
          /\ (1..k) \ {k} = 1..(k - 1)
      <3>1. /\ k \in Nat \ {0} /\ k <= Len(cs) /\ k \in 1..k
            /\ k \in 0..Len(cs) /\ k - 1 \in 0..Len(cs)
        BY <1>1
      <3>2. \A i \in 1..k : i \in 1..Len(cs)
        BY <1>1, <3>1
      <3>3. \A i : i \in (1..k) \ {k} <=> i \in 1..(k - 1)
        BY <3>1
      <3> QED BY <3>1, <3>2, <3>3
    <2>2. Max(1..k) = k
      BY <2>1, MaxOfInterval
    <2>3. f[1..k] = Apply(f[(1..k) \ {Max(1..k)}], cs[Max(1..k)])
      BY <1>3, <2>1 DEF Replays
    <2> QED BY <2>1, <2>2, <2>3
  <1> QED BY <1>3, <1>4, <1>5, <1>6

\* Whatever the changes, the server stores a text.
LEMMA ReplayTypes ==
    ASSUME NEW t \in Texts, NEW cs \in Seq(Changes)
    PROVE  Replayed(t, cs) \in Texts
PROOF
  <1>1. PICK f : /\ Replayed(t, cs) = f[Len(cs)]
                 /\ f[0] = t
                 /\ \A k \in 1..Len(cs) : f[k] = Apply(f[k - 1], cs[k])
    BY ReplaySteps
  <1>2. Len(cs) \in Nat /\ \A k \in 1..Len(cs) : cs[k] \in Changes
    BY LenProperties, ElementOfSeq
  <1> DEFINE Bad == {k \in Nat : k <= Len(cs) /\ f[k] \notin Texts}
  <1> SUFFICES ASSUME Bad # {} PROVE FALSE
    BY <1>1, <1>2
  <1>3. PICK k \in Bad : \A m \in Bad : k <= m
    BY LeastNumber
  <1>4. k \in 1..Len(cs) /\ k - 1 \in Nat /\ k - 1 <= Len(cs) /\ ~(k <= k - 1)
    BY <1>1, <1>2, <1>3
  <1>5. f[k] = Apply(f[k - 1], cs[k]) /\ cs[k] \in Changes
    BY <1>1, <1>2, <1>4
  <1>6. Garbled \in Texts
    BY PageAssumption DEF Garbled, Texts
  <1> QED BY <1>3, <1>5, <1>6 DEF Apply, Changes

\* Changes that follow each other lead to the text of the last of them.
LEMMA ReplayOfChain ==
    ASSUME NEW t, NEW cs \in Seq(Changes), Chain(t, cs)
    PROVE  Replayed(t, cs) = EndOf(t, cs)
PROOF
  <1>1. PICK f : /\ Replayed(t, cs) = f[Len(cs)]
                 /\ f[0] = t
                 /\ \A k \in 1..Len(cs) : f[k] = Apply(f[k - 1], cs[k])
    BY ReplaySteps
  <1>2. Len(cs) \in Nat /\ (cs = <<>> <=> Len(cs) = 0)
        /\ \A k \in 1..Len(cs) : cs[k] \in Changes
    BY LenProperties, ElementOfSeq, EmptySeq
  <1> DEFINE Text(k) == IF k = 0 THEN t ELSE cs[k].to
  <1> DEFINE Bad == {k \in Nat : k <= Len(cs) /\ f[k] # Text(k)}
  <1>3. Bad = {}
    <2> SUFFICES ASSUME Bad # {} PROVE FALSE
      OBVIOUS
    <2>1. PICK k \in Bad : \A m \in Bad : k <= m
      BY LeastNumber
    <2>2. k \in 1..Len(cs) /\ k - 1 \in Nat /\ k - 1 <= Len(cs) /\ ~(k <= k - 1)
      BY <1>1, <1>2, <2>1
    <2>3. f[k - 1] = Text(k - 1)
      BY <2>1, <2>2
    <2>4. cs[k].full \/ cs[k].from = Text(k - 1)
      BY <2>2 DEF Chain
    <2>5. Apply(f[k - 1], cs[k]) = cs[k].to
      BY <1>2, <2>2, <2>3, <2>4 DEF Apply, Changes
    <2>6. f[k] = Text(k)
      BY <1>1, <2>2, <2>5
    <2> QED BY <2>1, <2>6
  <1>4. f[Len(cs)] = Text(Len(cs))
    BY <1>2, <1>3
  <1> QED BY <1>1, <1>2, <1>4 DEF EndOf

-----------------------------------------------------------------------------
(* The invariant.                                                          *)

\* No change leads to the text of a change that did not fit.
Sound(cs) == \A i \in 1..Len(cs) : cs[i].to # Garbled

\* What is stored when the changes that are under way have been carried out.
UnderWay == call["log"] \notin {"idle", "ok"}
Stored == IF UnderWay THEN EndOf(doc, list.inTransmission) ELSE doc

\* The change list agrees with its call, and is clean while the page loads and
\* while its text is tested.
ListInv ==
    /\ list.state = "TRANSMISSION" <=> call["log"] # "idle"
    /\ call["log"] # "failed"
    /\ list.state # "TRANSMISSION" => list.inTransmission = <<>>
    /\ list.state = "CLEAN" => list.unsent = <<>>
    /\ mode \in {"LOADING", "IN_PROGRESS"} => list.state = "CLEAN"

\* The changes lead from what is stored to what the editor shows.
ChainInv ==
    /\ Sound(list.inTransmission) /\ Sound(list.unsent)
    /\ UnderWay => Chain(doc, list.inTransmission)
    /\ mode # "LOADING" =>
        Chain(Stored, list.unsent) /\ EndOf(Stored, list.unsent) = text

\* The text that is stored, and the one the page is about to show.
StoredInv ==
    /\ doc # Garbled
    /\ ~changed => doc = Empty
    /\ call["load"] = "ok" =>
        loaded.isNew = ~changed /\ loaded.doc = IF changed THEN doc ELSE skeleton

\* What the page that was left may still store, before the next visit begins.
LeftInv ==
    visit = "away" =>
        /\ leftCall["log"] = "sent" =>
            Chain(doc, leftList.inTransmission) /\ Sound(leftList.inTransmission)
        /\ leftCall["submit"] = "sent" =>
            leftSubmitted # Garbled /\ leftCall["log"] # "sent"

TextInv ==
    failures = 0 /\ ~overtaken => ListInv /\ ChainInv /\ StoredInv /\ LeftInv

\* Before a page is left none goes on.
FirstInv == visit = "first" => leftCall = NoCalls /\ leftPollTimer = "absent"

-----------------------------------------------------------------------------
(* The types.                                                              *)

\* What the operations on the list make of its fields.
SetState(l, st) == [l EXCEPT !.state = st]
LEMMA SetStateFields ==
    ASSUME NEW a, NEW b, NEW d, NEW st
    PROVE  SetState([state |-> a, unsent |-> b, inTransmission |-> d], st)
           = [state |-> st, unsent |-> b, inTransmission |-> d]
PROOF
  BY DEF SetState

LEMMA FieldsChanged ==
    ASSUME NEW l \in Lists, NEW u
    PROVE  /\ [l EXCEPT !.unsent = u]
              = [state |-> l.state, unsent |-> u, inTransmission |-> l.inTransmission]
           /\ [l EXCEPT !.inTransmission = u]
              = [state |-> l.state, unsent |-> l.unsent, inTransmission |-> u]
PROOF
  BY DEF Lists

LEMMA ListFields ==
    ASSUME NEW l \in Lists
    PROVE  /\ \A c : AddChange(l, c) =
                 [state |-> IF l.state = "CLEAN" THEN "UNSENT" ELSE l.state,
                  unsent |-> Append(l.unsent, c), inTransmission |-> l.inTransmission]
           /\ EndTransmitSuccess(l) =
                 [state |-> IF l.unsent = <<>> THEN "CLEAN" ELSE "UNSENT",
                  unsent |-> l.unsent, inTransmission |-> <<>>]
PROOF
  <1>1. ASSUME NEW c
        PROVE  AddChange(l, c) =
                 [state |-> IF l.state = "CLEAN" THEN "UNSENT" ELSE l.state,
                  unsent |-> Append(l.unsent, c), inTransmission |-> l.inTransmission]
    <2>1. AddChange(l, c) = SetState([l EXCEPT !.unsent = Append(l.unsent, c)],
                                     IF l.state = "CLEAN" THEN "UNSENT" ELSE l.state)
      BY DEF AddChange, SetState
    <2>2. [l EXCEPT !.unsent = Append(l.unsent, c)]
          = [state |-> l.state, unsent |-> Append(l.unsent, c),
             inTransmission |-> l.inTransmission]
      BY FieldsChanged
    <2> QED BY <2>1, <2>2, SetStateFields
  <1>2. EndTransmitSuccess(l) =
            [state |-> IF l.unsent = <<>> THEN "CLEAN" ELSE "UNSENT",
             unsent |-> l.unsent, inTransmission |-> <<>>]
    <2>1. EndTransmitSuccess(l) = SetState([l EXCEPT !.inTransmission = <<>>],
                                           IF l.unsent = <<>> THEN "CLEAN" ELSE "UNSENT")
      BY DEF EndTransmitSuccess, SetState
    <2>2. [l EXCEPT !.inTransmission = <<>>]
          = [state |-> l.state, unsent |-> l.unsent, inTransmission |-> <<>>]
      BY FieldsChanged
    <2> QED BY <2>1, <2>2, SetStateFields
  <1> QED BY <1>1, <1>2

LEMMA ListTypes ==
    ASSUME NEW l \in Lists
    PROVE  /\ \A c \in Changes : AddChange(l, c) \in Lists
           /\ BeginTransmit(l) \in Lists
           /\ EndTransmitSuccess(l) \in Lists
           /\ EndTransmitFailure(l) \in Lists
PROOF
  <1>1. l.unsent \in Seq(Changes) /\ l.inTransmission \in Seq(Changes)
        /\ l.state \in {"CLEAN", "UNSENT", "TRANSMISSION"}
    BY DEF Lists
  <1>2. l.inTransmission \o l.unsent \in Seq(Changes)
    BY <1>1, ConcatProperties
  <1>3. \A c \in Changes : Append(l.unsent, c) \in Seq(Changes)
    BY <1>1, AppendProperties
  <1>4. <<>> \in Seq(Changes)
    OBVIOUS
  <1>5. ASSUME NEW c \in Changes
        PROVE  AddChange(l, c) \in Lists
    <2>1. AddChange(l, c) =
             [state |-> IF l.state = "CLEAN" THEN "UNSENT" ELSE l.state,
              unsent |-> Append(l.unsent, c), inTransmission |-> l.inTransmission]
      BY ListFields
    <2> QED BY <1>1, <1>3, <2>1 DEF Lists
  <1>6. BeginTransmit(l) \in Lists /\ EndTransmitFailure(l) \in Lists
    BY <1>1, <1>2, <1>4 DEF BeginTransmit, EndTransmitFailure, Lists
  <1>7. EndTransmitSuccess(l) \in Lists
    <2>1. EndTransmitSuccess(l) =
             [state |-> IF l.unsent = <<>> THEN "CLEAN" ELSE "UNSENT",
              unsent |-> l.unsent, inTransmission |-> <<>>]
      BY ListFields
    <2> QED BY <1>1, <1>4, <2>1 DEF Lists
  <1> QED BY <1>5, <1>6, <1>7

\* The texts that there are from the beginning, and those of the edits.
LEMMA TextTypes ==
    /\ {Empty, Skeleton, Earlier, Garbled} \subseteq Texts
    /\ \A n \in 0..MaxEdits : n < MaxEdits => 3 + (n + 1) \in Texts /\ n + 1 \in 0..MaxEdits
    /\ \A s, t \in Texts : FullText(t) \in Changes /\ Edited(s, t) \in Changes
PROOF
  <1>1. MaxEdits \in Nat
    BY PageAssumption
  <1>2. {Empty, Skeleton, Earlier, Garbled} \subseteq Texts
    BY <1>1 DEF Empty, Skeleton, Earlier, Garbled, Texts
  <1>3. \A n \in 0..MaxEdits :
            n < MaxEdits => 3 + (n + 1) \in Texts /\ n + 1 \in 0..MaxEdits
    BY <1>1 DEF Texts
  <1>4. \A s, t \in Texts : FullText(t) \in Changes /\ Edited(s, t) \in Changes
    BY <1>2 DEF FullText, Edited, Changes
  <1> QED BY <1>2, <1>3, <1>4

LEMMA ReportedTypes ==
    ASSUME NEW l \in Lists, NEW s \in Texts, NEW t \in Texts
    PROVE  Reported(l, s, t) \in Lists
PROOF
  BY ListTypes, TextTypes DEF Reported

\* What is counted stays within its bound.
LEMMA CountTypes ==
    ASSUME NEW m \in Nat, NEW n \in 0..m, n < m
    PROVE  n + 1 \in 0..m
PROOF
  OBVIOUS

LEMMA CallTypes ==
    ASSUME TypeOK, NEW c \in Calls, NEW r \in CallStates
    PROVE  [call EXCEPT ![c] = r] \in [Calls -> CallStates]
PROOF
  BY DEF TypeOK

LEMMA UserTypes ==
    ASSUME TypeOK, User
    PROVE  TypeOK'
PROOF
  <1> USE DEF TypeOK
  <1>1. CASE Edit
    <2>1. edits' \in 0..MaxEdits /\ text' \in Texts
      BY <1>1, TextTypes DEF Edit
    <2>2. list' \in Lists
      BY <1>1, <2>1, ReportedTypes DEF Edit
    <2> QED BY <1>1, <2>1, <2>2
            DEF Edit, timerVars, callVars, serverVars, sessionVars, docVars
  <1>2. ASSUME NEW b \in {"submit", "reset"}, Press(b)
        PROVE  TypeOK'
    <2>1. presses' \in 0..MaxPresses
      BY <1>2, CountTypes, PageAssumption DEF Press
    <2>2. /\ mode' \in {"LOADING", "EDITING", "PENDING", "IN_PROGRESS"}
          /\ onClean' \in {"none", "submit", "reset"}
          /\ readOnly' \in BOOLEAN
      BY <1>2 DEF Press, RunCallback, DoSubmit, DoReset
    <2>3. text' \in Texts /\ list' \in Lists /\ submitted' \in Texts
      BY <1>2, ListTypes, TextTypes
         DEF Press, RunCallback, DoSubmit, DoReset, Empty, Skeleton
    <2>4. call' \in [Calls -> CallStates]
      BY <1>2 DEF Press, RunCallback, DoSubmit, DoReset, Calls, CallStates
    <2> QED BY <1>2, <2>1, <2>2, <2>3, <2>4
            DEF Press, timerVars, serverVars, sessionVars, docVars
  <1> QED BY <1>1, <1>2 DEF User

LEMMA TimersTypes ==
    ASSUME TypeOK, Timers
    PROVE  TypeOK'
PROOF
  <1> USE DEF TypeOK
  <1>1. CASE FlushTimer
    BY <1>1, ListTypes DEF FlushTimer, Calls, CallStates, timerVars, serverVars,
                           sessionVars, docVars, countVars
  <1>2. CASE PollTimer
    BY <1>2 DEF PollTimer, Calls, CallStates, pageVars, serverVars, sessionVars,
                docVars, countVars
  <1> QED BY <1>1, <1>2 DEF Timers

LEMMA ServerTypes ==
    ASSUME TypeOK, Handlers \/ Tested
    PROVE  TypeOK'
PROOF
  <1> USE DEF TypeOK
  <1>1. \A c \in Calls, r \in CallStates : Answer(c, r) => call' \in [Calls -> CallStates]
    BY CallTypes DEF Answer
  <1>2. {"setProblem", "load", "log", "submit", "check"} \subseteq Calls
        /\ {"ok", "failed", "auth", "pending"} \subseteq CallStates
    BY DEF Calls, CallStates
  <1>3. CASE SetProblem
    BY <1>1, <1>2, <1>3 DEF SetProblem, pageVars, timerVars, docVars, countVars
  <1>4. CASE LoadCurrentText
    <2>1. loaded' \in [doc : Texts, isNew : BOOLEAN]
      BY <1>4, TextTypes DEF LoadCurrentText, Empty, Skeleton
    <2> QED BY <1>1, <1>2, <1>4, <2>1
            DEF LoadCurrentText, pageVars, timerVars, serverVars, sessionVars, docVars,
                countVars
  <1>5. CASE LogChange
    <2>1. doc' = Replayed(doc, list.inTransmission)
      BY <1>5 DEF LogChange, Replayed
    <2>2. doc' \in Texts
      BY <2>1, ReplayTypes DEF Lists
    <2> QED BY <1>1, <1>2, <1>5, <2>2
            DEF LogChange, pageVars, timerVars, sessionVars, countVars
  <1>6. CASE Submit
    <2>1. failures' \in 0..MaxFailures /\ future' \in {"none", "pending", "ready"}
      BY <1>6, CountTypes, PageAssumption DEF Submit
    <2> QED BY <1>1, <1>2, <1>6, <2>1 DEF Submit, pageVars, timerVars
  <1>7. CASE CheckSubmission
    <2>1. failures' \in 0..MaxFailures /\ future' \in {"none", "pending", "ready"}
      BY <1>7, CountTypes, PageAssumption DEF CheckSubmission
    <2> QED BY <1>1, <1>2, <1>7, <2>1 DEF CheckSubmission, pageVars, timerVars, docVars
  <1>8. ASSUME NEW c \in Calls, Unauthenticated(c)
        PROVE  TypeOK'
    BY <1>1, <1>2, <1>8 DEF Unauthenticated, pageVars, timerVars, serverVars, sessionVars,
                            docVars, countVars
  <1>9. CASE Tested
    BY <1>9 DEF Tested, pageVars, timerVars, callVars, docVars, countVars
  <1> QED BY <1>3, <1>4, <1>5, <1>6, <1>7, <1>8, <1>9 DEF Handlers

LEMMA FaultTypes ==
    ASSUME TypeOK, Faults \/ Login \/ Resume
    PROVE  TypeOK'
PROOF
  <1> USE DEF TypeOK
  <1>1. ASSUME NEW c \in Calls, Lost(c)
        PROVE  TypeOK'
    <2>1. failures' \in 0..MaxFailures
      BY <1>1, CountTypes, PageAssumption DEF Lost
    <2>2. call' \in [Calls -> CallStates]
      BY <1>1, CallTypes DEF Lost, Answer, CallStates
    <2> QED BY <1>1, <2>1, <2>2
            DEF Lost, pageVars, timerVars, serverVars, sessionVars, docVars
  <1>2. CASE SessionExpires
    <2>1. expiries' \in 0..MaxExpiries
      BY <1>2, CountTypes, PageAssumption DEF SessionExpires
    <2> QED BY <1>2, <2>1 DEF SessionExpires, pageVars, timerVars, callVars, docVars
  <1>3. CASE Login
    BY <1>3 DEF Login, pageVars, timerVars, callVars, docVars, countVars
  <1>4. CASE Resume
    <2>1. call' \in [Calls -> CallStates]
      BY <1>4 DEF Resume, CallStates
    <2> QED BY <1>4, <2>1 DEF Resume, pageVars, timerVars, serverVars, sessionVars,
                              docVars, countVars
  <1> QED BY <1>1, <1>2, <1>3, <1>4 DEF Faults

LEMMA ReplyTypes ==
    ASSUME TypeOK, Replies
    PROVE  TypeOK'
PROOF
  <1> USE DEF TypeOK
  <1>1. \A c \in Calls, r \in CallStates : Answer(c, r) => call' \in [Calls -> CallStates]
    BY CallTypes DEF Answer
  <1>2. {"setProblem", "load", "log", "submit", "check"} \subseteq Calls
        /\ {"idle", "sent", "expired"} \subseteq CallStates
    BY DEF Calls, CallStates
  <1>3. CASE ProblemApproved
    <2>1. call' \in [Calls -> CallStates]
      BY <1>2, <1>3 DEF ProblemApproved
    <2> QED BY <1>3, <2>1
            DEF ProblemApproved, pageVars, serverVars, sessionVars, docVars, countVars
  <1>4. CASE TextLoaded
    <2>1. loaded.doc \in Texts
      OBVIOUS
    <2>2. (IF loaded.isNew /\ loaded.doc # Empty
           THEN AddChange(list, FullText(loaded.doc)) ELSE list) \in Lists
      BY <2>1, ListTypes, TextTypes
    <2>3. list' \in Lists
      BY <1>4, <2>1, <2>2, ReportedTypes DEF TextLoaded
    <2> QED BY <1>1, <1>2, <1>4, <2>1, <2>3
            DEF TextLoaded, timerVars, serverVars, sessionVars, docVars, countVars
  <1>5. CASE ChangesLogged
    <2> DEFINE c == [call EXCEPT !["log"] = "idle"]
    <2>1. c \in [Calls -> CallStates]
      BY <1>2
    <2>2. EndTransmitSuccess(list) \in Lists
      BY ListTypes
    <2>3. /\ mode' \in {"LOADING", "EDITING", "PENDING", "IN_PROGRESS"}
          /\ onClean' \in {"none", "submit", "reset"}
          /\ readOnly' \in BOOLEAN
      BY <1>5 DEF ChangesLogged, RunCallback, DoSubmit, DoReset
    <2>4. text' \in Texts /\ list' \in Lists /\ submitted' \in Texts
      BY <1>5, <2>2, ListTypes, TextTypes
         DEF ChangesLogged, RunCallback, DoSubmit, DoReset, Empty, Skeleton
    <2>5. call' \in [Calls -> CallStates]
      BY <1>2, <1>5, <2>1 DEF ChangesLogged, RunCallback, DoSubmit, DoReset
    <2> QED BY <1>5, <2>3, <2>4, <2>5
            DEF ChangesLogged, timerVars, serverVars, sessionVars, docVars, countVars
  <1>6. CASE ChangesNotLogged
    BY <1>1, <1>2, <1>6, ListTypes
       DEF ChangesNotLogged, timerVars, serverVars, sessionVars, docVars, countVars
  <1>7. CASE SubmissionAccepted \/ NoResultYet \/ CheckFailed
    <2>1. CASE SubmissionAccepted
      BY <1>1, <1>2, <2>1 DEF SubmissionAccepted, pageVars, serverVars, sessionVars,
                              docVars, countVars
    <2>2. CASE NoResultYet
      BY <1>1, <1>2, <2>2 DEF NoResultYet, pageVars, serverVars, sessionVars, docVars,
                              countVars
    <2>3. CASE CheckFailed
      BY <1>1, <1>2, <2>3 DEF CheckFailed, pageVars, serverVars, sessionVars, docVars,
                              countVars
    <2> QED BY <1>7, <2>1, <2>2, <2>3
  <1>8. CASE ResultReceived
    BY <1>1, <1>2, <1>8 DEF ResultReceived, serverVars, sessionVars, docVars, countVars
  <1>9. ASSUME NEW c \in Calls, OnlyReported(c) \/ Recover(c)
        PROVE  TypeOK'
    BY <1>1, <1>2, <1>9 DEF OnlyReported, Recover, pageVars, timerVars, serverVars,
                            sessionVars, docVars, countVars
  <1> QED BY <1>3, <1>4, <1>5, <1>6, <1>7, <1>8, <1>9 DEF Replies

LEMMA PageTypes ==
    ASSUME TypeOK, Next
    PROVE  TypeOK'
PROOF
  BY UserTypes, TimersTypes, ServerTypes, FaultTypes, ReplyTypes DEF Next

\* The page that was left has the types of a page; what it shares with the page
\* that is open has them already.
LeftTypes ==
    /\ leftMode \in {"LOADING", "EDITING", "PENDING", "IN_PROGRESS"}
    /\ leftOnClean \in {"none", "submit", "reset"}
    /\ leftText \in Texts
    /\ leftList \in Lists
    /\ {leftReadOnly, leftFlushing, leftChecking} \subseteq BOOLEAN
    /\ leftPollTimer \in {"absent", "stopped", "running"}
    /\ leftCall \in [Calls -> CallStates]
    /\ leftSubmitted \in Texts
    /\ leftLoaded \in [doc : Texts, isNew : BOOLEAN]
    /\ leftDialog \in {"none", "login", "resume"}

LEMMA SameSets ==
    /\ Left!Texts = Texts /\ Left!Changes = Changes /\ Left!Lists = Lists
    /\ Left!Calls = Calls /\ Left!CallStates = CallStates
    /\ Left!Empty = Empty /\ Left!Skeleton = Skeleton /\ Left!Garbled = Garbled
PROOF
  BY DEF Texts, Changes, Lists, Calls, CallStates, Empty, Skeleton, Garbled,
         Left!Texts, Left!Changes, Left!Lists, Left!Calls, Left!CallStates,
         Left!Empty, Left!Skeleton, Left!Garbled

LEMMA LeftTypesEnough == TypeOK /\ LeftTypes => Left!TypeOK
PROOF
  BY SameSets DEF TypeOK, LeftTypes, Left!TypeOK

LEMMA LeftTypesMean == Left!TypeOK => LeftTypes
PROOF
  BY SameSets DEF LeftTypes, Left!TypeOK

\* The server replays the changes of both pages alike.
LEMMA SameReplay ==
    ASSUME NEW t, NEW cs
    PROVE  Left!FoldLeft(Left!Apply, t, cs) = Replayed(t, cs)
PROOF
  BY DEF Replayed, FoldLeft, MapThenFoldSet, Max, Apply, Garbled,
         Left!FoldLeft, Left!MapThenFoldSet, Left!Max, Left!Apply, Left!Garbled

\* What the calls of the page that was left do to the server.
LEMMA LeftServer ==
    ASSUME TypeOK, LeftTypes, LeftStores \/ LeftChecks \/ LeftGoesOn
    PROVE  /\ \/ /\ UNCHANGED docVars
                 /\ leftCall'["log"] = "sent" => leftCall["log"] = "sent"
                 /\ leftCall'["log"] = "sent" => leftList' = leftList
                 /\ leftCall'["submit"] = "sent" => leftCall["submit"] = "sent"
                 /\ leftSubmitted' = leftSubmitted
              \/ /\ leftCall["log"] = "sent" /\ leftCall'["log"] = "ok"
                 /\ doc' = Replayed(doc, leftList.inTransmission)
                 /\ changed' = TRUE /\ UNCHANGED skeleton
                 /\ \A c \in Calls \ {"log"} : leftCall'[c] = leftCall[c]
                 /\ overtaken' = (overtaken \/ visit = "second")
                 /\ UNCHANGED <<leftList, leftSubmitted>>
              \/ /\ leftCall["submit"] = "sent" /\ leftCall'["submit"] = "ok"
                 /\ doc' = leftSubmitted
                 /\ changed' = TRUE /\ UNCHANGED skeleton
                 /\ \A c \in Calls \ {"submit"} : leftCall'[c] = leftCall[c]
                 /\ overtaken' = (overtaken \/ visit = "second")
                 /\ UNCHANGED <<leftList, leftSubmitted>>
           /\ {loggedIn', problemSet'} \subseteq BOOLEAN
           /\ future' \in {"none", "pending", "ready"}
           /\ UNCHANGED <<visit, countVars, pageVars, timerVars, callVars, dialog>>
           /\ overtaken => overtaken'
PROOF
  <1>0. /\ DOMAIN leftCall = Calls
        /\ {"log", "submit", "check", "load", "setProblem"} \subseteq Calls
        /\ leftCall = [c \in Calls |-> leftCall[c]]
    BY DEF LeftTypes, Calls
  <1>1. CASE LeftStores
    <2>1. CASE Left!LogChange
      <3>1. doc' = Replayed(doc, leftList.inTransmission)
        BY <2>1, SameReplay DEF Left!LogChange
      <3> QED BY <1>1, <2>1, <3>1
              DEF LeftStores, Left!LogChange, Left!Answer, LeftTypes, TypeOK, Calls,
                  Left!pageVars, Left!countVars, Left!sessionVars, countVars
    <2>2. CASE Left!Submit /\ failures' = failures
      <3>1. failures \in Int
        BY DEF TypeOK
      <3>2. failures' # failures + 1
        BY <2>2, <3>1
      <3>3. /\ leftCall["submit"] = "sent" /\ doc' = leftSubmitted /\ changed' = TRUE
            /\ future' = "pending" /\ leftCall' = [leftCall EXCEPT !["submit"] = "ok"]
            /\ UNCHANGED <<leftList, leftSubmitted, loggedIn, problemSet, skeleton,
                           edits, presses, expiries>>
        BY <2>2, <3>2 DEF Left!Submit, Left!Answer, Left!pageVars
      <3>4. /\ leftCall'["submit"] = "ok"
            /\ \A c \in Calls \ {"submit"} : leftCall'[c] = leftCall[c]
        BY <3>3 DEF LeftTypes, Calls
      <3> QED BY <1>1, <2>2, <3>3, <3>4 DEF LeftStores, TypeOK, countVars
    <2> QED BY <1>1, <2>1, <2>2 DEF LeftStores
  <1>2. CASE LeftChecks
    <2>1. \A d \in {"log", "submit"} : leftCall'[d] = leftCall[d]
      BY <1>2, <1>0 DEF LeftChecks, Left!CheckSubmission, Left!Answer
    <2> QED BY <1>2, <2>1 DEF LeftChecks, Left!CheckSubmission, TypeOK, Left!docVars,
                              Left!pageVars, docVars, countVars
  <1>3. CASE LeftGoesOn
    <2>1. /\ leftCall'["log"] = "sent" => leftCall["log"] = "sent" /\ leftList' = leftList
          /\ leftCall'["submit"] = "sent" => leftCall["submit"] = "sent"
          /\ leftSubmitted' = leftSubmitted
      BY <1>3, <1>0
         DEF LeftGoesOn, Left!PollTimer, Left!SetProblem, Left!LoadCurrentText,
             Left!ProblemApproved, Left!ChangesLoggedUnheard, Left!SubmissionAccepted,
             Left!ResultReceived, Left!NoResultYet, Left!CheckFailed, Left!pageVars,
             Left!Answer
    <2> QED BY <1>3, <2>1
            DEF LeftGoesOn, Left!PollTimer, Left!SetProblem, Left!LoadCurrentText,
                Left!ProblemApproved, Left!ChangesLoggedUnheard, Left!SubmissionAccepted,
                Left!ResultReceived, Left!NoResultYet, Left!CheckFailed, TypeOK,
                Left!serverVars, Left!sessionVars, Left!docVars, Left!countVars,
                docVars, countVars, historyVars
  <1> QED BY <1>1, <1>2, <1>3

LEMMA LeftTypesStep ==
    ASSUME TypeOK, LeftTypes, LeftStores \/ LeftChecks \/ LeftGoesOn \/ LeftTextLoaded
    PROVE  LeftTypes'
PROOF
  <1> USE DEF LeftTypes
  <1>1. \A c \in Calls, r \in CallStates :
            Left!Answer(c, r) => leftCall' \in [Calls -> CallStates]
    BY DEF Left!Answer
  <1>2. {"setProblem", "load", "log", "submit", "check"} \subseteq Calls
        /\ {"idle", "sent", "ok", "failed", "pending"} \subseteq CallStates
    BY DEF Calls, CallStates
  <1>3. CASE LeftStores
    BY <1>1, <1>2, <1>3 DEF LeftStores, Left!LogChange, Left!Submit, Left!pageVars,
                            Left!timerVars
  <1>4. CASE LeftChecks
    BY <1>1, <1>2, <1>4 DEF LeftChecks, Left!CheckSubmission, Left!pageVars, Left!timerVars
  <1>5. CASE LeftTextLoaded
    <2>1. leftCall' \in [Calls -> CallStates]
      BY <1>2, <1>5 DEF LeftTextLoaded
    <2> QED BY <1>5, <2>1 DEF LeftTextLoaded, leftTimerVars
  <1>6. CASE LeftGoesOn
    <2>1. CASE Left!PollTimer
      <3>1. leftCall' \in [Calls -> CallStates]
        BY <1>2, <2>1 DEF Left!PollTimer
      <3> QED BY <2>1, <3>1 DEF Left!PollTimer, Left!pageVars
    <2>2. CASE Left!SetProblem
      BY <1>1, <1>2, <2>2 DEF Left!SetProblem, Left!pageVars, Left!timerVars
    <2>3. CASE Left!LoadCurrentText
      <3>1. leftLoaded' \in [doc : Texts, isNew : BOOLEAN]
        BY <2>3, SameSets, TextTypes DEF Left!LoadCurrentText, TypeOK
      <3> QED BY <1>1, <1>2, <2>3, <3>1
              DEF Left!LoadCurrentText, Left!pageVars, Left!timerVars
    <2>4. CASE Left!ProblemApproved
      <3>1. leftCall' \in [Calls -> CallStates]
        BY <1>2, <2>4 DEF Left!ProblemApproved
      <3> QED BY <2>4, <3>1 DEF Left!ProblemApproved, Left!pageVars
    <2>5. CASE Left!ChangesLoggedUnheard
      <3>1. Left!EndTransmitSuccess(leftList) = EndTransmitSuccess(leftList)
        BY DEF Left!EndTransmitSuccess, EndTransmitSuccess
      <3>2. leftList' \in Lists
        BY <2>5, <3>1, ListTypes DEF Left!ChangesLoggedUnheard
      <3> QED BY <1>1, <1>2, <2>5, <3>2 DEF Left!ChangesLoggedUnheard, Left!timerVars
    <2>6. CASE Left!SubmissionAccepted \/ Left!NoResultYet \/ Left!CheckFailed
      BY <1>1, <1>2, <2>6 DEF Left!SubmissionAccepted, Left!NoResultYet,
                              Left!CheckFailed, Left!pageVars
    <2>7. CASE Left!ResultReceived
      BY <1>1, <1>2, <2>7 DEF Left!ResultReceived
    <2> QED BY <1>6, <2>1, <2>2, <2>3, <2>4, <2>5, <2>6, <2>7 DEF LeftGoesOn
  <1> QED BY <1>3, <1>4, <1>5, <1>6

LEMMA VisitsTypesInit ==
    ASSUME VisitsInit
    PROVE  VisitsTypeOK
PROOF
  <1>1. <<>> \in Seq(Changes)
    OBVIOUS
  <1>2. CleanList \in Lists
    BY <1>1 DEF CleanList, Lists
  <1>3. NoCalls \in [Calls -> CallStates]
    BY DEF NoCalls, CallStates
  <1>4. NothingLoaded \in [doc : Texts, isNew : BOOLEAN]
    BY TextTypes DEF NothingLoaded
  <1>5. TypeOK
    <2>1. call \in [Calls -> CallStates]
      BY DEF VisitsInit, Init, CallStates
    <2>2. /\ edits \in 0..MaxEdits /\ presses \in 0..MaxPresses
          /\ failures \in 0..MaxFailures /\ expiries \in 0..MaxExpiries
      BY PageAssumption DEF VisitsInit, Init
    <2>3. list \in Lists /\ loaded \in [doc : Texts, isNew : BOOLEAN]
      BY <1>2, <1>4 DEF VisitsInit, Init, CleanList, NothingLoaded
    <2> QED BY <2>1, <2>2, <2>3, TextTypes DEF VisitsInit, Init, TypeOK
  <1>6. LeftTypes
    BY <1>2, <1>3, <1>4, TextTypes DEF VisitsInit, LeftTypes
  <1> QED BY <1>5, <1>6, LeftTypesEnough DEF VisitsInit, VisitsTypeOK

LEMMA VisitsTypesStep ==
    ASSUME VisitsTypeOK, [VisitsNext]_allVars
    PROVE  VisitsTypeOK'
PROOF
  <1>1. TypeOK /\ LeftTypes /\ visit \in {"first", "away", "second"}
        /\ {overtaken, taken} \subseteq BOOLEAN
    BY LeftTypesMean DEF VisitsTypeOK
  <1>2. SUFFICES /\ TypeOK' /\ LeftTypes' /\ visit' \in {"first", "away", "second"}
                 /\ {overtaken', taken'} \subseteq BOOLEAN
    <2>1. TypeOK' /\ LeftTypes' => Left!TypeOK'
      BY LeftTypesEnough, PTL
    <2> QED BY <2>1 DEF VisitsTypeOK
  <1>3. CASE Page
    <2>1. TypeOK'
      BY <1>1, <1>3, PageTypes DEF Page, Next
    <2> QED BY <1>1, <1>3, <2>1
            DEF Page, visitVars, leftVars, leftPageVars, leftTimerVars, leftCallVars,
                historyVars, LeftTypes
  <1>4. CASE Leave
    <2>1. CleanList \in Lists /\ NoCalls \in [Calls -> CallStates]
          /\ NothingLoaded \in [doc : Texts, isNew : BOOLEAN]
      BY TextTypes DEF CleanList, Lists, NoCalls, CallStates, NothingLoaded
    <2>2. TypeOK'
      BY <1>1, <1>4, <2>1, TextTypes
         DEF Leave, TypeOK, serverVars, sessionVars, docVars, countVars
    <2>3. LeftTypes'
      BY <1>1, <1>4 DEF Leave, TypeOK, LeftTypes
    <2> QED BY <1>1, <1>4, <2>2, <2>3 DEF Leave, historyVars
  <1>5. CASE Return
    <2>1. call' \in [Calls -> CallStates]
      BY <1>1, <1>5 DEF Return, TypeOK, CallStates
    <2>2. TypeOK'
      BY <1>1, <1>5, <2>1 DEF Return, TypeOK, pageVars, timerVars, serverVars, sessionVars,
                              docVars, countVars
    <2> QED BY <1>1, <1>5, <2>2
            DEF Return, leftVars, leftPageVars, leftTimerVars, leftCallVars, historyVars,
                LeftTypes
  <1>6. CASE LeftFlushTimer
    <2>1. call' \in [Calls -> CallStates]
      BY <1>1, <1>6 DEF LeftFlushTimer, TypeOK, CallStates
    <2>2. list' \in Lists
      BY <1>1, <1>6, ListTypes DEF LeftFlushTimer, TypeOK
    <2>3. TypeOK'
      BY <1>1, <1>6, <2>1, <2>2 DEF LeftFlushTimer, TypeOK, timerVars, serverVars,
                                    sessionVars, docVars, countVars
    <2> QED BY <1>1, <1>6, <2>3
            DEF LeftFlushTimer, visitVars, leftVars, leftPageVars, leftTimerVars,
                leftCallVars, historyVars, LeftTypes
  <1>7. CASE LeftTextLoaded
    <2>1. LeftTypes'
      BY <1>1, <1>7, LeftTypesStep
    <2>2. FullText(leftLoaded.doc) \in Changes
      BY <1>1, TextTypes DEF LeftTypes
    <2>3. list' \in Lists
      BY <1>1, <1>7, <2>2, ListTypes DEF LeftTextLoaded, TypeOK
    <2>4. TypeOK'
      BY <1>1, <1>7, <2>3 DEF LeftTextLoaded, TypeOK, timerVars, callVars, serverVars,
                              sessionVars, docVars, countVars
    <2>5. overtaken' \in BOOLEAN
      BY <1>1, <1>7 DEF LeftTextLoaded
    <2> QED BY <1>1, <1>7, <2>1, <2>4, <2>5 DEF LeftTextLoaded
  <1>8. CASE LeftStores \/ LeftChecks \/ LeftGoesOn
    <2>1. LeftTypes'
      BY <1>1, <1>8, LeftTypesStep
    <2>2. /\ doc' \in Texts /\ changed' \in BOOLEAN /\ skeleton' = skeleton
          /\ {loggedIn', problemSet'} \subseteq BOOLEAN
          /\ future' \in {"none", "pending", "ready"}
          /\ UNCHANGED <<visit, countVars, pageVars, timerVars, callVars, dialog>>
      <3>1. Replayed(doc, leftList.inTransmission) \in Texts
        BY <1>1, ReplayTypes DEF LeftTypes, TypeOK, Lists
      <3> QED BY <1>1, <1>8, <3>1, LeftServer DEF LeftTypes, TypeOK, docVars
    <2>3. TypeOK'
      BY <1>1, <2>2 DEF TypeOK, countVars, pageVars, timerVars, callVars
    <2>4. {overtaken', taken'} \subseteq BOOLEAN
      BY <1>1, <1>8 DEF LeftStores, LeftChecks, LeftGoesOn, historyVars
    <2> QED BY <1>1, <2>1, <2>2, <2>3, <2>4
  <1>9. CASE UNCHANGED allVars
    BY <1>1, <1>9
       DEF allVars, vars, visitVars, leftVars, leftPageVars, leftTimerVars, leftCallVars,
           historyVars, LeftTypes, TypeOK, pageVars, timerVars, callVars, serverVars,
           sessionVars, docVars, countVars
  <1> QED BY <1>3, <1>4, <1>5, <1>6, <1>7, <1>8, <1>9 DEF VisitsNext

\* Both pages, the server and the histories have their types, whatever the changes
\* that the server is to replay.
THEOREM VisitsTypes == VisitsSpec => []VisitsTypeOK
PROOF
  BY VisitsTypesInit, VisitsTypesStep, PTL DEF VisitsSpec

-----------------------------------------------------------------------------
(* Chains of changes.                                                      *)

LEMMA EmptyChain ==
    ASSUME NEW b
    PROVE  Chain(b, <<>>) /\ EndOf(b, <<>>) = b /\ Sound(<<>>)
PROOF
  BY DEF Chain, EndOf, Sound

\* A change in the text the chain leads to makes the chain longer; a full text does so
\* wherever it is made.
LEMMA LongerChain ==
    ASSUME NEW b, NEW cs \in Seq(Changes), NEW c \in Changes,
           Chain(b, cs), c.full \/ c.from = EndOf(b, cs)
    PROVE  /\ Chain(b, Append(cs, c))
           /\ EndOf(b, Append(cs, c)) = c.to
           /\ Sound(cs) /\ c.to # Garbled => Sound(Append(cs, c))
PROOF
  <1>1. /\ Len(cs) \in Nat /\ (cs = <<>> <=> Len(cs) = 0)
        /\ Append(cs, c) \in Seq(Changes) /\ Append(cs, c) # <<>>
        /\ Len(Append(cs, c)) = Len(cs) + 1
        /\ \A i \in 1..Len(cs) : Append(cs, c)[i] = cs[i]
        /\ Append(cs, c)[Len(cs) + 1] = c
    BY AppendProperties, LenProperties, EmptySeq
  <1>2. \A i \in 1..Len(Append(cs, c)) : i \in 1..Len(cs) \/ i = Len(cs) + 1
    BY <1>1
  <1>3. ASSUME NEW i \in 1..Len(cs)
        PROVE  \/ Append(cs, c)[i].full
               \/ Append(cs, c)[i].from = IF i = 1 THEN b ELSE Append(cs, c)[i - 1].to
    <2>1. i = 1 \/ i - 1 \in 1..Len(cs)
      BY <1>1
    <2> QED BY <1>1, <2>1 DEF Chain
  <1>4. c.full \/ c.from = IF Len(cs) + 1 = 1 THEN b ELSE Append(cs, c)[Len(cs)].to
    <2>1. CASE cs = <<>>
      BY <1>1, <2>1 DEF EndOf
    <2>2. CASE cs # <<>>
      <3>1. Len(cs) \in 1..Len(cs) /\ Len(cs) + 1 # 1
        BY <1>1, <2>2
      <3> QED BY <1>1, <2>2, <3>1 DEF EndOf
    <2> QED BY <2>1, <2>2
  <1>5. (Len(cs) + 1) - 1 = Len(cs)
    BY <1>1
  <1>6. Chain(b, Append(cs, c))
    <2>1. ASSUME NEW i \in 1..Len(Append(cs, c))
          PROVE  \/ Append(cs, c)[i].full
                 \/ Append(cs, c)[i].from = IF i = 1 THEN b ELSE Append(cs, c)[i - 1].to
      <3>1. CASE i \in 1..Len(cs)
        BY <1>3, <3>1
      <3>2. CASE i = Len(cs) + 1
        <4>1. Append(cs, c)[i] = c /\ i - 1 = Len(cs)
          BY <1>1, <1>5, <3>2
        <4> QED BY <1>4, <3>2, <4>1
      <3> QED BY <1>2, <3>1, <3>2
    <2> QED BY <2>1 DEF Chain
  <1>7. Sound(cs) /\ c.to # Garbled => Sound(Append(cs, c))
    BY <1>1, <1>2 DEF Sound
  <1> QED BY <1>1, <1>6, <1>7 DEF EndOf

\* A chain of sound changes leads from a sound text to a sound text.
LEMMA SoundEnd ==
    ASSUME NEW b, NEW cs \in Seq(Changes), Sound(cs), b # Garbled
    PROVE  EndOf(b, cs) # Garbled
PROOF
  <1>1. Len(cs) \in Nat /\ (cs = <<>> <=> Len(cs) = 0)
    BY LenProperties, EmptySeq
  <1>2. cs # <<>> => Len(cs) \in 1..Len(cs)
    BY <1>1
  <1> QED BY <1>2 DEF EndOf, Sound

-----------------------------------------------------------------------------
(* The page that is open.                                                  *)

OpenInv == ListInv /\ ChainInv /\ StoredInv

\* The texts that are not edits are not garbled.
LEMMA SoundTexts ==
    ASSUME TypeOK
    PROVE  /\ skeleton # Garbled /\ Empty # Garbled
           /\ \A n \in Nat : 3 + (n + 1) # Garbled
PROOF
  BY DEF TypeOK, Empty, Skeleton, Garbled

\* A step that leaves the texts and the list alone.
LEMMA TextQuiet ==
    ASSUME OpenInv, UNCHANGED <<text, list, docVars>>,
           \A r \in {"idle", "ok"} : call'["log"] = r <=> call["log"] = r,
           call'["log"] # "failed",
           call'["load"] = "ok" => call["load"] = "ok" /\ UNCHANGED loaded,
           mode' = "LOADING" <=> mode = "LOADING",
           mode' = "IN_PROGRESS" => list.state = "CLEAN"
    PROVE  OpenInv'
PROOF
  <1> USE DEF OpenInv
  <1>1. ListInv'
    BY DEF ListInv
  <1>2. UnderWay' = UnderWay /\ Stored' = Stored
    BY DEF UnderWay, Stored, docVars
  <1>3. ChainInv'
    BY <1>2 DEF ChainInv, docVars
  <1>4. StoredInv'
    BY DEF StoredInv, docVars
  <1> QED BY <1>1, <1>3, <1>4

\* A change is added to a list whose changes lead from the stored text b to the text t,
\* and leads from there, or from anywhere, to the new text of the editor.
LEMMA TextAdded ==
    ASSUME OpenInv, NEW l \in Lists, NEW c \in Changes, NEW t,
           call'["log"] \in {"idle", call["log"]},
           call'["log"] # call["log"] => call["log"] = "ok",
           l.state = "TRANSMISSION" <=> call'["log"] # "idle",
           l.unsent = list.unsent,
           l.inTransmission = IF call'["log"] = "idle" THEN <<>> ELSE list.inTransmission,
           Chain(Stored, list.unsent),
           c.full \/ c.from = EndOf(Stored, list.unsent),
           c.to # Garbled,
           list' = AddChange(l, c), text' = c.to, UNCHANGED docVars,
           call'["load"] # "ok",
           mode' = "EDITING"
    PROVE  OpenInv'
PROOF
  <1> USE DEF OpenInv
  <1>1. /\ list'.unsent = Append(list.unsent, c)
        /\ list'.inTransmission = l.inTransmission
        /\ list'.state = IF l.state = "CLEAN" THEN "UNSENT" ELSE l.state
    BY ListFields
  <1>2. list.unsent \in Seq(Changes)
    BY DEF Lists
  <1>3. l.state \in {"CLEAN", "UNSENT", "TRANSMISSION"}
    BY DEF Lists
  <1>4. ListInv'
    BY <1>1, <1>3 DEF ListInv
  <1>5. UnderWay' = UnderWay /\ (UnderWay => list'.inTransmission = list.inTransmission)
    BY <1>1 DEF UnderWay, ListInv
  <1>6. Stored' = Stored
    BY <1>5 DEF Stored, docVars
  <1>7. /\ Chain(Stored, list'.unsent) /\ EndOf(Stored, list'.unsent) = text'
        /\ Sound(list'.unsent)
    BY <1>1, <1>2, LongerChain DEF ChainInv
  <1>8. Sound(list'.inTransmission)
    BY <1>1, EmptyChain DEF ChainInv
  <1>9. UnderWay' => Chain(doc', list'.inTransmission)
    BY <1>5 DEF ChainInv, docVars
  <1>10. ChainInv'
    BY <1>6, <1>7, <1>8, <1>9 DEF ChainInv
  <1>11. StoredInv'
    BY DEF StoredInv, docVars
  <1> QED BY <1>4, <1>10, <1>11

\* Every edit is of the text that the editor showed.
LEMMA EditText ==
    ASSUME OpenInv, TypeOK, PageInv, Edit
    PROVE  OpenInv'
PROOF
  <1>1. mode = "EDITING" /\ mode' = "EDITING" /\ call["load"] = "idle"
    BY DEF PageInv, PageType, LoadInv, ModeInv, Edit
  <1>2. /\ text' = 3 + (edits + 1) /\ edits \in Nat /\ edits \in 0..MaxEdits
        /\ edits < MaxEdits /\ UNCHANGED <<call, docVars>>
        /\ list' = Reported(list, text, text')
    BY DEF Edit, TypeOK, callVars, serverVars
  <1>3. Chain(Stored, list.unsent) /\ EndOf(Stored, list.unsent) = text
    BY <1>1 DEF OpenInv, ChainInv
  <1>4. CASE text' = text
    BY <1>1, <1>2, <1>4, TextQuiet DEF Reported, OpenInv, ListInv
  <1>5. CASE text' # text
    <2>1. list' = AddChange(list, Edited(text, text'))
      BY <1>1, <1>2, <1>5 DEF Reported
    <2>2. /\ Edited(text, text') \in Changes /\ Edited(text, text').to = text'
          /\ Edited(text, text').from = text
      BY <1>2, TextTypes DEF TypeOK, Edited
    <2>3. text' # Garbled
      BY <1>2, SoundTexts
    <2>4. list \in Lists
      BY DEF TypeOK
    <2>5. /\ list.state = "TRANSMISSION" <=> call'["log"] # "idle"
          /\ list.inTransmission =
                IF call'["log"] = "idle" THEN <<>> ELSE list.inTransmission
      BY <1>2 DEF OpenInv, ListInv
    <2> QED BY <1>1, <1>2, <1>3, <2>1, <2>2, <2>3, <2>4, <2>5, TextAdded
  <1> QED BY <1>4, <1>5

\* A reset replaces the text wherever the changes lead.
LEMMA ResetText ==
    ASSUME OpenInv, TypeOK, NEW c, NEW l \in Lists, DoReset(c, l),
           mode # "LOADING", c["load"] # "ok",
           c["log"] \in {"idle", call["log"]},
           c["log"] # call["log"] => call["log"] = "ok",
           l.state = "TRANSMISSION" <=> c["log"] # "idle",
           l.unsent = list.unsent,
           l.inTransmission = IF c["log"] = "idle" THEN <<>> ELSE list.inTransmission,
           UNCHANGED docVars
    PROVE  OpenInv'
PROOF
  <1>1. /\ text' = skeleton /\ list' = AddChange(l, FullText(skeleton))
        /\ mode' = "EDITING" /\ call' = c
    BY DEF DoReset
  <1>2. /\ FullText(skeleton) \in Changes /\ FullText(skeleton).full
        /\ FullText(skeleton).to = skeleton
    BY TextTypes DEF TypeOK, FullText
  <1>3. Chain(Stored, list.unsent)
    BY DEF OpenInv, ChainInv
  <1>4. skeleton # Garbled
    BY SoundTexts
  <1> QED BY <1>1, <1>2, <1>3, <1>4, TextAdded

LEMMA PressText ==
    ASSUME OpenInv, TypeOK, PageInv, UserWaits, NEW b \in {"submit", "reset"}, Press(b)
    PROVE  OpenInv'
PROOF
  <1>1. mode = "EDITING" /\ call["load"] = "idle"
    BY DEF Press, PageInv, PageType, LoadInv, ModeInv
  <1>2. UNCHANGED <<loaded, docVars>>
    BY DEF Press, serverVars
  <1>3. call \in [Calls -> CallStates] /\ {"log", "load", "submit"} \subseteq Calls
    BY DEF TypeOK, Calls
  <1>4. CASE list.state = "CLEAN" /\ b = "submit" /\ DoSubmit(call) /\ list' = list
    <2>1. /\ text' = text /\ mode' = "IN_PROGRESS"
          /\ call'["log"] = call["log"] /\ call'["load"] = call["load"]
      BY <1>3, <1>4 DEF DoSubmit
    <2> QED BY <1>1, <1>2, <1>4, <2>1, TextQuiet DEF OpenInv, ListInv
  <1>5. CASE list.state = "CLEAN" /\ DoReset(call, list)
    <2>1. list \in Lists
      BY DEF TypeOK
    <2> QED BY <1>1, <1>2, <1>5, <2>1, ResetText DEF OpenInv, ListInv
  <1>6. CASE mode' = "PENDING" /\ UNCHANGED <<text, list, call>>
    BY <1>1, <1>2, <1>6, TextQuiet DEF OpenInv, ListInv
  <1> QED BY <1>4, <1>5, <1>6 DEF Press, RunCallback

\* Transmitting the changes leaves them to be stored.
LEMMA FlushText ==
    ASSUME OpenInv, TypeOK, PageInv, list.state = "UNSENT", list' = BeginTransmit(list),
           call' = [call EXCEPT !["log"] = "sent"],
           UNCHANGED <<mode, text, loaded, docVars>>
    PROVE  OpenInv'
PROOF
  <1>1. /\ call'["log"] = "sent" /\ call'["load"] = call["load"]
    BY DEF TypeOK, Calls
  <1>2. call["log"] = "idle" /\ list.inTransmission = <<>>
        /\ mode \notin {"LOADING", "IN_PROGRESS"}
    BY DEF OpenInv, ListInv
  <1>3. list.unsent \in Seq(Changes)
    BY DEF TypeOK, Lists
  <1>4. <<>> \o list.unsent = list.unsent
    BY <1>3
  <1>5. /\ list'.state = "TRANSMISSION" /\ list'.unsent = <<>>
        /\ list'.inTransmission = list.unsent
    BY <1>2, <1>4 DEF BeginTransmit
  <1>6. ListInv'
    BY <1>1, <1>2, <1>5 DEF OpenInv, ListInv
  <1>7. Stored = doc /\ UnderWay' /\ Stored' = EndOf(doc, list.unsent)
    BY <1>1, <1>2, <1>5 DEF Stored, UnderWay, docVars
  <1>8. ChainInv'
    <2>1. /\ Chain(doc, list.unsent) /\ EndOf(doc, list.unsent) = text
          /\ Sound(list.unsent)
      BY <1>2, <1>7 DEF OpenInv, ChainInv
    <2> QED BY <1>5, <1>7, <2>1, EmptyChain DEF ChainInv, docVars
  <1>9. StoredInv'
    BY <1>1 DEF OpenInv, StoredInv, docVars
  <1> QED BY <1>6, <1>8, <1>9 DEF OpenInv

\* The end of a transmission: its changes are stored.
LEMMA EndText ==
    ASSUME OpenInv, TypeOK, call["log"] = "ok", call'["log"] = "idle",
           list' = EndTransmitSuccess(list),
           UNCHANGED <<text, docVars>>, mode # "LOADING", mode' # "LOADING",
           call'["load"] # "ok",
           mode' = "IN_PROGRESS" => list'.state = "CLEAN"
    PROVE  OpenInv'
PROOF
  <1> USE DEF OpenInv
  <1>1. /\ list'.state = IF list.unsent = <<>> THEN "CLEAN" ELSE "UNSENT"
        /\ list'.unsent = list.unsent /\ list'.inTransmission = <<>>
    BY ListFields DEF TypeOK
  <1>2. ListInv'
    BY <1>1 DEF ListInv
  <1>3. Stored = doc /\ Stored' = doc /\ ~UnderWay'
    BY DEF Stored, UnderWay, docVars
  <1>4. ChainInv'
    BY <1>1, <1>3, EmptyChain DEF ChainInv
  <1>5. StoredInv'
    BY DEF StoredInv, docVars
  <1> QED BY <1>2, <1>4, <1>5

LEMMA LoggedText ==
    ASSUME OpenInv, TypeOK, PageInv, ChangesLogged
    PROVE  OpenInv'
PROOF
  <1> DEFINE l == EndTransmitSuccess(list)
             c == [call EXCEPT !["log"] = "idle"]
  <1>1. call["log"] = "ok" /\ UNCHANGED docVars
    BY DEF ChangesLogged, serverVars
  <1>2. mode # "LOADING" /\ call["load"] = "idle"
    BY <1>1 DEF OpenInv, ListInv, PageInv, PageType, LoadInv
  <1>3. c["log"] = "idle" /\ c["load"] = "idle" /\ c \in [Calls -> CallStates]
        /\ {"log", "load", "submit"} \subseteq Calls
    BY <1>2 DEF TypeOK, Calls, CallStates
  <1>4. CASE mode = "PENDING" /\ l.state = "CLEAN" /\ DoSubmit(c) /\ list' = l
    <2>1. /\ text' = text /\ mode' = "IN_PROGRESS"
          /\ call'["log"] = "idle" /\ call'["load"] = "idle"
      BY <1>3, <1>4 DEF DoSubmit
    <2> QED BY <1>1, <1>2, <1>4, <2>1, EndText
  <1>5. CASE DoReset(c, l)
    <2>1. /\ l \in Lists /\ l.unsent = list.unsent /\ l.inTransmission = <<>>
          /\ l.state # "TRANSMISSION"
      <3>1. list \in Lists
        BY DEF TypeOK
      <3>2. l = [state |-> IF list.unsent = <<>> THEN "CLEAN" ELSE "UNSENT",
                 unsent |-> list.unsent, inTransmission |-> <<>>]
        BY <3>1, ListFields
      <3>3. l \in Lists
        BY <3>1, ListTypes
      <3> HIDE DEF l
      <3> QED BY <3>2, <3>3
    <2> HIDE DEF l, c
    <2> QED BY <1>1, <1>2, <1>3, <1>5, <2>1, ResetText
  <1>6. CASE /\ ~(l.state = "CLEAN" /\ mode = "PENDING")
             /\ list' = l /\ call' = c /\ UNCHANGED <<mode, text>>
    <2>1. mode # "IN_PROGRESS"
      BY <1>1 DEF OpenInv, ListInv
    <2> QED BY <1>1, <1>2, <1>3, <1>6, <2>1, EndText
  <1> QED BY <1>4, <1>5, <1>6 DEF ChangesLogged, RunCallback

\* The server stores the changes under way: they lead to the same text as before.
LEMMA StoreText ==
    ASSUME OpenInv, TypeOK, PageInv, LogChange
    PROVE  OpenInv'
PROOF
  <1> USE DEF OpenInv
  <1>1. /\ call["log"] = "sent" /\ doc' = Replayed(doc, list.inTransmission)
        /\ changed' = TRUE /\ call' = [call EXCEPT !["log"] = "ok"]
        /\ UNCHANGED <<mode, text, list>>
    BY DEF LogChange, Replayed, Answer, pageVars
  <1>2. call'["log"] = "ok" /\ call'["load"] = call["load"]
    BY <1>1 DEF TypeOK, Calls
  <1>3. call["load"] = "idle"
    BY <1>1 DEF ListInv, PageInv, PageType, LoadInv
  <1>4. UnderWay /\ ~UnderWay'
    BY <1>1, <1>2 DEF UnderWay
  <1>5. list.inTransmission \in Seq(Changes)
    BY DEF TypeOK, Lists
  <1>6. doc' = EndOf(doc, list.inTransmission)
    BY <1>1, <1>4, <1>5, ReplayOfChain DEF ChainInv
  <1>7. Stored' = Stored
    BY <1>4, <1>6 DEF Stored
  <1>8. doc' # Garbled
    BY <1>5, <1>6, SoundEnd DEF ChainInv, StoredInv
  <1>9. ListInv'
    BY <1>1, <1>2 DEF ListInv
  <1>10. ChainInv'
    BY <1>1, <1>4, <1>7 DEF ChainInv
  <1>11. StoredInv'
    BY <1>1, <1>2, <1>3, <1>8 DEF StoredInv
  <1> QED BY <1>9, <1>10, <1>11

\* A text that is tested has been stored.
LEMMA InSync ==
    ASSUME OpenInv, PageInv, call["submit"] # "idle"
    PROVE  /\ doc = submitted /\ call["log"] = "idle" /\ call["load"] = "idle"
           /\ mode = "IN_PROGRESS"
PROOF
  <1>1. mode = "IN_PROGRESS" /\ text = submitted /\ call["load"] = "idle"
    BY DEF PageInv, PageType, LoadInv, ModeInv, PollInv
  <1>2. call["log"] = "idle" /\ list.unsent = <<>>
    BY <1>1 DEF OpenInv, ListInv
  <1>3. Stored = doc
    BY <1>2 DEF Stored, UnderWay
  <1>4. EndOf(doc, <<>>) = text
    BY <1>1, <1>2, <1>3 DEF OpenInv, ChainInv
  <1> QED BY <1>1, <1>2, <1>4, EmptyChain

LEMMA SubmitText ==
    ASSUME OpenInv, TypeOK, PageInv, Submit
    PROVE  failures' # 0 \/ OpenInv'
PROOF
  <1> USE DEF OpenInv
  <1>1. /\ call["submit"] = "sent" /\ doc' = submitted /\ changed' = TRUE
        /\ call' \in {[call EXCEPT !["submit"] = r] : r \in {"ok", "failed"}}
        /\ UNCHANGED <<mode, text, list>>
    BY DEF Submit, Answer, pageVars
  <1>2. doc' = doc /\ call["load"] = "idle" /\ call["log"] = "idle"
    BY <1>1, InSync
  <1>3. call'["log"] = "idle" /\ call'["load"] = "idle"
    BY <1>1, <1>2 DEF TypeOK, Calls
  <1>4. ListInv'
    BY <1>1, <1>2, <1>3 DEF ListInv
  <1>5. ChainInv'
    BY <1>1, <1>2, <1>3 DEF ChainInv, Stored, UnderWay
  <1>6. StoredInv'
    BY <1>1, <1>2, <1>3 DEF StoredInv
  <1> QED BY <1>4, <1>5, <1>6

\* The page shows what it loads, or the changes lead to it.
LEMMA LoadText ==
    ASSUME OpenInv, TypeOK, PageInv, TextLoaded
    PROVE  OpenInv'
PROOF
  <1>1. /\ call["load"] = "ok" /\ mode = "LOADING" /\ mode' = "EDITING"
        /\ call' = [call EXCEPT !["load"] = "idle"]
        /\ text' = loaded.doc /\ UNCHANGED docVars
        /\ list' = IF loaded.isNew /\ loaded.doc # Empty
                   THEN AddChange(list, FullText(loaded.doc)) ELSE list
    BY DEF TextLoaded, Answer, Reported, PageInv, LoadInv, serverVars
  <1>2. /\ call'["load"] = "idle" /\ call'["log"] = call["log"]
    BY <1>1 DEF TypeOK, Calls
  <1>3. list.state = "CLEAN" /\ list.unsent = <<>> /\ call["log"] = "idle"
        /\ list.inTransmission = <<>>
    BY <1>1 DEF OpenInv, ListInv
  <1>4. Stored = doc /\ Stored' = doc
    BY <1>1, <1>2, <1>3 DEF Stored, UnderWay, docVars
  <1>5. /\ loaded.isNew = ~changed /\ loaded.doc = IF changed THEN doc ELSE skeleton
        /\ ~changed => doc = Empty
        /\ doc # Garbled
    BY <1>1 DEF OpenInv, StoredInv
  <1>6. CASE loaded.isNew /\ loaded.doc # Empty
    <2>1. loaded.doc # Garbled
      BY <1>5, <1>6, SoundTexts
    <2>2. /\ FullText(loaded.doc) \in Changes /\ FullText(loaded.doc).full
          /\ FullText(loaded.doc).to = loaded.doc
      BY TextTypes DEF TypeOK, FullText
    <2>3. list \in Lists
      BY DEF TypeOK
    <2> QED BY <1>1, <1>2, <1>3, <1>6, <2>1, <2>2, <2>3, EmptyChain, TextAdded
  <1>7. CASE ~(loaded.isNew /\ loaded.doc # Empty)
    <2>1. list' = list
      BY <1>1, <1>7
    <2>2. text' = doc
      <3>1. changed \in BOOLEAN
        BY DEF TypeOK
      <3> QED BY <1>1, <1>5, <1>7, <3>1
    <2>3. ListInv'
      BY <1>1, <1>2, <2>1 DEF OpenInv, ListInv
    <2>4. ChainInv'
      BY <1>2, <1>3, <1>4, <2>1, <2>2, EmptyChain DEF ChainInv, UnderWay
    <2>5. StoredInv'
      BY <1>1, <1>2 DEF OpenInv, StoredInv, docVars
    <2> QED BY <2>3, <2>4, <2>5 DEF OpenInv
  <1> QED BY <1>6, <1>7

\* The text is loaded as it is stored.
LEMMA FetchText ==
    ASSUME OpenInv, TypeOK, LoadCurrentText
    PROVE  OpenInv'
PROOF
  <1> USE DEF OpenInv
  <1>1. /\ loaded' = [doc |-> IF changed THEN doc ELSE skeleton, isNew |-> ~changed]
        /\ call'["load"] = "ok" /\ call'["log"] = call["log"]
        /\ UNCHANGED <<mode, text, list, docVars>>
    BY DEF LoadCurrentText, Answer, TypeOK, Calls, pageVars, serverVars
  <1>2. ListInv'
    BY <1>1 DEF ListInv
  <1>3. UnderWay' = UnderWay /\ Stored' = Stored
    BY <1>1 DEF UnderWay, Stored, docVars
  <1>4. ChainInv'
    BY <1>1, <1>3 DEF ChainInv, docVars
  <1>5. StoredInv'
    BY <1>1 DEF StoredInv, docVars
  <1> QED BY <1>2, <1>4, <1>5

\* The calls that store nothing, their replies, and the session.
LEMMA QuietStep ==
    ASSUME OpenInv, TypeOK, PageInv,
           \/ PollTimer \/ SetProblem \/ CheckSubmission \/ Tested
           \/ ProblemApproved \/ SubmissionAccepted \/ ResultReceived \/ NoResultYet
           \/ CheckFailed \/ Login \/ Resume \/ SessionExpires
           \/ \E c \in Calls : Unauthenticated(c) \/ OnlyReported(c) \/ Recover(c)
    PROVE  OpenInv'
PROOF
  <1>1. call["log"] # "failed"
    BY DEF OpenInv, ListInv
  <1>2. mode = "IN_PROGRESS" => list.state = "CLEAN"
    BY DEF OpenInv, ListInv
  <1>3. SUFFICES /\ UNCHANGED <<text, list, docVars>>
                 /\ \A r \in {"idle", "ok"} : call'["log"] = r <=> call["log"] = r
                 /\ call'["log"] # "failed"
                 /\ call'["load"] = "ok" => call["load"] = "ok" /\ UNCHANGED loaded
                 /\ mode' = "LOADING" <=> mode = "LOADING"
                 /\ mode' = "IN_PROGRESS" => mode = "IN_PROGRESS"
    BY <1>2, TextQuiet
  <1>4. ASSUME NEW c \in Calls, NEW r, Answer(c, r)
        PROVE  /\ call'[c] = r /\ \A d \in Calls \ {c} : call'[d] = call[d]
               /\ {"log", "load"} \subseteq Calls
    BY <1>4 DEF Answer, TypeOK, Calls
  <1>5. CASE PollTimer \/ ProblemApproved
    <2>1. call'["log"] = call["log"] /\ (call'["load"] = "ok" => call["load"] = "ok")
      BY <1>5 DEF PollTimer, ProblemApproved, TypeOK, Calls
    <2> QED BY <1>1, <1>5, <2>1 DEF PollTimer, ProblemApproved, pageVars, serverVars
  <1>6. CASE \/ SetProblem \/ CheckSubmission \/ SubmissionAccepted \/ NoResultYet
             \/ CheckFailed
    <2>1. call'["log"] = call["log"] /\ call'["load"] = call["load"]
      BY <1>4, <1>6 DEF SetProblem, CheckSubmission, SubmissionAccepted, NoResultYet,
                        CheckFailed, Calls
    <2> QED BY <1>1, <1>6, <2>1 DEF SetProblem, CheckSubmission, SubmissionAccepted,
                                    NoResultYet, CheckFailed, pageVars, serverVars
  <1>7. CASE ResultReceived
    <2>1. call'["log"] = call["log"] /\ call'["load"] = call["load"]
      BY <1>4, <1>7 DEF ResultReceived, Calls
    <2>2. mode = "IN_PROGRESS" /\ mode' = "EDITING"
      BY <1>7 DEF ResultReceived, PageInv, PollInv
    <2> QED BY <1>1, <1>7, <2>1, <2>2 DEF ResultReceived, serverVars
  <1>8. CASE Tested \/ Login \/ SessionExpires
    BY <1>1, <1>8 DEF Tested, Login, SessionExpires, pageVars, callVars, serverVars
  <1>9. CASE Resume
    <2>1. /\ call'["log"] = IF call["log"] = "expired" THEN "sent" ELSE call["log"]
          /\ call'["load"] = IF call["load"] = "expired" THEN "sent" ELSE call["load"]
      BY <1>9 DEF Resume, Calls
    <2> QED BY <1>1, <1>9, <2>1 DEF Resume, pageVars, serverVars
  <1>10. ASSUME NEW c \in Calls, Unauthenticated(c) \/ OnlyReported(c) \/ Recover(c)
         PROVE  /\ \A r \in {"idle", "ok"} : call'["log"] = r <=> call["log"] = r
                /\ call'["log"] # "failed"
                /\ call'["load"] = "ok" => call["load"] = "ok"
                /\ UNCHANGED <<mode, text, list, docVars, loaded>>
    <2>1. CASE c = "log"
      <3>1. call["log"] \in {"sent", "auth"} /\ call'["log"] \in {"auth", "expired"}
            /\ call'["load"] = call["load"]
        BY <1>4, <1>10, <2>1 DEF Unauthenticated, OnlyReported, Recover
      <3> QED BY <1>10, <3>1
              DEF Unauthenticated, OnlyReported, Recover, pageVars, serverVars
    <2>2. CASE c # "log"
      <3>1. call'["log"] = call["log"] /\ (call'["load"] = "ok" => call["load"] = "ok")
        BY <1>4, <1>10, <2>2 DEF Unauthenticated, OnlyReported, Recover
      <3> QED BY <1>1, <1>10, <3>1
              DEF Unauthenticated, OnlyReported, Recover, pageVars, serverVars
    <2> QED BY <2>1, <2>2
  <1> QED BY <1>5, <1>6, <1>7, <1>8, <1>9, <1>10

\* While no call has failed, every step of the page keeps its changes in order.
LEMMA OpenStep ==
    ASSUME OpenInv, TypeOK, PageInv, UserWaits, Next, failures' = 0, failures = 0
    PROVE  OpenInv'
PROOF
  <1>1. CASE User
    BY <1>1, EditText, PressText DEF User
  <1>2. CASE FlushTimer
    <2>1. /\ list.state = "UNSENT" /\ list' = BeginTransmit(list)
          /\ call' = [call EXCEPT !["log"] = "sent"]
          /\ UNCHANGED <<mode, text, loaded, docVars>>
      BY <1>2 DEF FlushTimer, serverVars
    <2> QED BY <2>1, FlushText
  <1>3. CASE LoadCurrentText
    BY <1>3, FetchText
  <1>4. CASE LogChange
    BY <1>4, StoreText
  <1>5. CASE Submit
    BY <1>5, SubmitText
  <1>6. CASE TextLoaded
    BY <1>6, LoadText
  <1>7. CASE ChangesLogged
    BY <1>7, LoggedText
  <1>8. ~ChangesNotLogged
    BY DEF ChangesNotLogged, OpenInv, ListInv
  <1>9. ASSUME NEW c \in Calls
        PROVE  ~Lost(c)
    BY DEF Lost
  <1> QED BY <1>1, <1>2, <1>3, <1>4, <1>5, <1>6, <1>7, <1>8, <1>9, QuietStep
          DEF Next, Timers, Handlers, Replies, Faults

-----------------------------------------------------------------------------
(* Both visits.                                                            *)

LEMMA TextInit ==
    ASSUME VisitsInit
    PROVE  TextInv /\ FirstInv
PROOF
  <1>1. /\ call["log"] = "idle" /\ call["load"] = "idle" /\ mode = "LOADING"
        /\ list.state = "CLEAN" /\ list.unsent = <<>> /\ list.inTransmission = <<>>
        /\ doc # Garbled /\ (~changed => doc = Empty)
    BY DEF VisitsInit, Init, Calls, Empty, Earlier, Garbled
  <1>2. ListInv /\ ChainInv /\ StoredInv
    BY <1>1, EmptyChain DEF ListInv, ChainInv, StoredInv, UnderWay
  <1> QED BY <1>2 DEF TextInv, FirstInv, LeftInv, VisitsInit

\* A failure is not forgotten, nor is it that the page that was left overtook.
LEMMA FaultsStay ==
    ASSUME TypeOK, LeftTypes, [VisitsNext]_allVars, failures' = 0, ~overtaken'
    PROVE  failures = 0 /\ ~overtaken
PROOF
  <1>1. failures \in Nat /\ failures + 1 # 0
    BY DEF TypeOK
  <1>2. CASE Page
    <2>1. overtaken' = overtaken
      BY <1>2 DEF Page, visitVars, historyVars
    <2>2. failures' \in {failures, failures + 1}
      BY <1>2 DEF Page, User, Timers, Handlers, Replies, Faults, Edit, Press, FlushTimer,
                  PollTimer, SetProblem, LoadCurrentText, LogChange, Submit,
                  CheckSubmission, Unauthenticated, Tested, ProblemApproved, TextLoaded,
                  ChangesLogged, ChangesNotLogged, SubmissionAccepted, ResultReceived,
                  NoResultYet, CheckFailed, OnlyReported, Recover, Login, Resume,
                  SessionExpires, Lost, countVars
    <2> QED BY <1>1, <2>1, <2>2
  <1>3. CASE LeftStores \/ LeftChecks \/ LeftGoesOn
    BY <1>3, LeftServer DEF countVars
  <1>4. CASE Leave \/ Return \/ LeftFlushTimer
    BY <1>4 DEF Leave, Return, LeftFlushTimer, visitVars, historyVars, countVars
  <1>5. CASE LeftTextLoaded
    <2>1. failures' = failures
      BY <1>5 DEF LeftTextLoaded, countVars
    <2>2. overtaken => overtaken'
      BY <1>5, Zenon DEF LeftTextLoaded
    <2> QED BY <2>1, <2>2
  <1>6. CASE UNCHANGED allVars
    BY <1>6 DEF allVars, vars, visitVars, historyVars, countVars
  <1> QED BY <1>2, <1>3, <1>4, <1>5, <1>6 DEF VisitsNext

\* Between the visits only the page that was left stores anything.
LEMMA AwayStores ==
    ASSUME AwayInv, TypeOK, visit = "away", Page
    PROVE  UNCHANGED docVars
PROOF
  <1>1. /\ call["log"] = "idle" /\ call["submit"] = "idle"
    BY DEF AwayInv, NoCalls, Calls
  <1>2. ~LogChange /\ ~Submit
    BY <1>1 DEF LogChange, Submit
  <1> QED BY <1>2
          DEF Page, User, Timers, Handlers, Replies, Faults, Edit, Press, FlushTimer,
              PollTimer, SetProblem, LoadCurrentText, CheckSubmission, Unauthenticated,
              Tested, ProblemApproved, TextLoaded, ChangesLogged, ChangesNotLogged,
              SubmissionAccepted, ResultReceived, NoResultYet, CheckFailed, OnlyReported,
              Recover, Login, Resume, SessionExpires, Lost, serverVars

\* The list of the page that is left goes with it, but for what is under way.
LEMMA LeaveText ==
    ASSUME OpenInv, TypeOK, PageInv, Leave
    PROVE  OpenInv' /\ LeftInv'
PROOF
  <1> USE DEF OpenInv
  <1>1. /\ call'["log"] = "idle" /\ call'["load"] = "idle" /\ mode' = "LOADING"
        /\ list'.state = "CLEAN" /\ list'.unsent = <<>> /\ list'.inTransmission = <<>>
        /\ UNCHANGED docVars
    BY DEF Leave, CleanList, NoCalls, Calls, serverVars
  <1>2. OpenInv'
    BY <1>1, EmptyChain DEF ListInv, ChainInv, StoredInv, UnderWay, docVars
  <1>3. /\ leftCall' = call /\ leftList' = list /\ leftSubmitted' = submitted /\ doc' = doc
    BY <1>1 DEF Leave, docVars
  <1>4. call["log"] = "sent" =>
            Chain(doc, list.inTransmission) /\ Sound(list.inTransmission)
    BY DEF ChainInv, UnderWay
  <1>5. call["submit"] = "sent" => submitted # Garbled /\ call["log"] # "sent"
    BY InSync DEF StoredInv
  <1>6. LeftInv'
    BY <1>3, <1>4, <1>5 DEF LeftInv
  <1> QED BY <1>2, <1>6

\* Before the next visit the changes that are under way still fit.
LEMMA LeftStoresText ==
    ASSUME OpenInv, TypeOK, LeftTypes, AwayInv, LeftInv, visit \in {"away", "second"},
           ~overtaken',
           LeftStores \/ LeftChecks \/ LeftGoesOn
    PROVE  OpenInv' /\ LeftInv'
PROOF
  <1> USE DEF OpenInv
  <1>1. UNCHANGED <<visit, mode, text, list, call, loaded>>
    BY LeftServer DEF pageVars, callVars
  <1>2. CASE /\ UNCHANGED docVars
             /\ leftCall'["log"] = "sent" => leftCall["log"] = "sent"
             /\ leftCall'["log"] = "sent" => leftList' = leftList
             /\ leftCall'["submit"] = "sent" => leftCall["submit"] = "sent"
             /\ leftSubmitted' = leftSubmitted
    <2>1. OpenInv'
      BY <1>1, <1>2 DEF ListInv, ChainInv, StoredInv, Stored, UnderWay, docVars
    <2>2. LeftInv'
      BY <1>1, <1>2 DEF LeftInv, docVars
    <2> QED BY <2>1, <2>2
  <1>3. ASSUME doc' # Garbled, changed' = TRUE, visit = "away",
               leftCall'["log"] # "sent", leftCall'["submit"] # "sent"
        PROVE  OpenInv' /\ LeftInv'
    <2>1. call["log"] = "idle" /\ call["load"] = "idle" /\ mode = "LOADING"
      BY <1>3 DEF AwayInv, NoCalls, Calls
    <2>2. OpenInv'
      BY <1>1, <1>3, <2>1 DEF ListInv, ChainInv, StoredInv, UnderWay
    <2>3. LeftInv'
      BY <1>3 DEF LeftInv
    <2> QED BY <2>2, <2>3
  <1>4. {"log", "submit"} \subseteq Calls
    BY DEF Calls
  <1>5. CASE /\ leftCall["log"] = "sent" /\ leftCall'["log"] = "ok"
             /\ doc' = Replayed(doc, leftList.inTransmission) /\ changed' = TRUE
             /\ \A c \in Calls \ {"log"} : leftCall'[c] = leftCall[c]
             /\ overtaken' = (overtaken \/ visit = "second")
    <2>1. visit = "away"
      BY <1>5
    <2>2. leftList.inTransmission \in Seq(Changes)
      BY DEF LeftTypes, Lists
    <2>3. doc' = EndOf(doc, leftList.inTransmission)
      BY <1>5, <2>1, <2>2, ReplayOfChain DEF LeftInv
    <2>4. doc' # Garbled
      BY <1>5, <2>1, <2>2, <2>3, SoundEnd DEF LeftInv, StoredInv
    <2>5. leftCall'["submit"] # "sent"
      BY <1>4, <1>5, <2>1 DEF LeftInv
    <2> QED BY <1>3, <1>5, <2>1, <2>4, <2>5
  <1>6. CASE /\ leftCall["submit"] = "sent" /\ leftCall'["submit"] = "ok"
             /\ doc' = leftSubmitted /\ changed' = TRUE
             /\ \A c \in Calls \ {"submit"} : leftCall'[c] = leftCall[c]
             /\ overtaken' = (overtaken \/ visit = "second")
    <2>1. visit = "away"
      BY <1>6
    <2>2. doc' # Garbled /\ leftCall'["log"] # "sent"
      BY <1>4, <1>6, <2>1 DEF LeftInv
    <2> QED BY <1>3, <1>6, <2>1, <2>2
  <1> QED BY <1>2, <1>5, <1>6, LeftServer

\* On the first visit there is no page that was left.
LEMMA NothingLeft ==
    ASSUME TypeOK, FirstInv, visit = "first"
    PROVE  ~(LeftTextLoaded \/ LeftStores \/ LeftChecks \/ LeftGoesOn \/ LeftFlushTimer)
PROOF
  <1>1. \A c \in Calls : leftCall[c] = "idle"
    BY DEF FirstInv, NoCalls
  <1>2. {"setProblem", "load", "log", "submit", "check"} \subseteq Calls
    BY DEF Calls
  <1> QED BY <1>1, <1>2
          DEF FirstInv, LeftTextLoaded, LeftStores, LeftChecks, LeftGoesOn, LeftFlushTimer,
              Left!LogChange, Left!Submit, Left!CheckSubmission, Left!PollTimer,
              Left!SetProblem, Left!LoadCurrentText, Left!ProblemApproved,
              Left!ChangesLoggedUnheard, Left!SubmissionAccepted, Left!ResultReceived,
              Left!NoResultYet, Left!CheckFailed

LEMMA FirstStep ==
    ASSUME TypeOK, FirstInv, [VisitsNext]_allVars
    PROVE  FirstInv'
PROOF
  <1> SUFFICES ASSUME visit' = "first" PROVE FirstInv'
    BY DEF FirstInv
  <1>1. CASE Page \/ UNCHANGED allVars
    BY <1>1 DEF Page, allVars, visitVars, leftVars, leftCallVars, leftTimerVars, FirstInv
  <1>2. ~Leave /\ ~Return
    BY DEF Leave, Return
  <1>3. CASE LeftFlushTimer \/ LeftTextLoaded \/ LeftStores \/ LeftChecks \/ LeftGoesOn
    <2>1. visit = "first"
      BY <1>3 DEF LeftFlushTimer, LeftTextLoaded, LeftStores, LeftChecks, LeftGoesOn,
                  visitVars
    <2> QED BY <1>3, <2>1, NothingLeft
  <1> QED BY <1>1, <1>2, <1>3 DEF VisitsNext

LEMMA TextStep ==
    ASSUME VisitsTypeOK, VisitsInv, UserWaits, TextInv, FirstInv, [VisitsNext]_allVars
    PROVE  TextInv' /\ FirstInv'
PROOF
  <1>1. TypeOK /\ LeftTypes /\ PageInv /\ AwayInv /\ visit \in {"first", "away", "second"}
    BY LeftTypesMean DEF VisitsTypeOK, VisitsInv
  <1>2. FirstInv'
    BY <1>1, FirstStep
  <1>3. SUFFICES ASSUME failures' = 0, ~overtaken'
                 PROVE  OpenInv' /\ LeftInv'
    BY <1>2 DEF TextInv, OpenInv
  <1>4. failures = 0 /\ ~overtaken
    BY <1>1, <1>3, FaultsStay
  <1>5. OpenInv /\ LeftInv
    BY <1>4 DEF TextInv, OpenInv
  <1>6. CASE Page
    <2>1. OpenInv'
      BY <1>1, <1>3, <1>4, <1>5, <1>6, OpenStep DEF Page, Next
    <2>2. UNCHANGED <<visit, leftCall, leftList, leftSubmitted>>
      BY <1>6 DEF Page, visitVars, leftVars, leftPageVars, leftCallVars
    <2>3. LeftInv'
      BY <1>1, <1>5, <1>6, <2>2, AwayStores DEF LeftInv, docVars
    <2> QED BY <2>1, <2>3
  <1>7. CASE Leave
    BY <1>1, <1>5, <1>7, LeaveText
  <1>8. CASE Return
    <2>1. /\ UNCHANGED <<mode, text, list, loaded, docVars>> /\ visit' = "second"
          /\ call'["log"] = call["log"] /\ call'["load"] = call["load"]
      BY <1>1, <1>8 DEF Return, TypeOK, Calls, pageVars, serverVars
    <2>2. OpenInv'
      BY <1>5, <2>1, TextQuiet DEF OpenInv, ListInv
    <2> QED BY <2>1, <2>2 DEF LeftInv
  <1>9. CASE LeftFlushTimer
    <2>1. /\ UNCHANGED <<mode, text, loaded, docVars, visit>> /\ visit = "second"
          /\ list.state = "UNSENT" /\ list' = BeginTransmit(list)
          /\ call' = [call EXCEPT !["log"] = "sent"]
      BY <1>9 DEF LeftFlushTimer, serverVars, visitVars
    <2>2. OpenInv'
      BY <1>1, <1>5, <2>1, FlushText
    <2> QED BY <2>1, <2>2 DEF LeftInv
  <1>10. CASE LeftTextLoaded
    <2>1. /\ UNCHANGED <<mode, text, list, call, loaded, docVars>>
          /\ UNCHANGED <<visit, leftList, leftSubmitted>>
          /\ leftCall' = [leftCall EXCEPT !["load"] = "idle"]
      BY <1>3, <1>10 DEF LeftTextLoaded, callVars, serverVars
    <2>2. OpenInv'
      BY <1>5, <2>1, TextQuiet DEF OpenInv, ListInv
    <2>3. leftCall'["log"] = leftCall["log"] /\ leftCall'["submit"] = leftCall["submit"]
      BY <1>1, <2>1 DEF LeftTypes, Calls
    <2>4. LeftInv'
      BY <1>5, <2>1, <2>3 DEF LeftInv, docVars
    <2> QED BY <2>2, <2>4
  <1>11. CASE LeftStores \/ LeftChecks \/ LeftGoesOn
    <2>1. visit \in {"away", "second"}
      BY <1>1, <1>11, NothingLeft
    <2> QED BY <1>1, <1>3, <1>5, <1>11, <2>1, LeftStoresText
  <1>12. CASE UNCHANGED allVars
    <2>1. UNCHANGED <<mode, text, list, call, loaded, docVars, visit, leftCall, leftList,
                      leftSubmitted>>
      BY <1>12 DEF allVars, vars, pageVars, callVars, serverVars, visitVars, leftVars,
                   leftPageVars, leftCallVars
    <2>2. OpenInv'
      BY <1>5, <2>1, TextQuiet DEF OpenInv, ListInv
    <2> QED BY <1>5, <2>1, <2>2 DEF LeftInv, docVars
  <1> QED BY <1>6, <1>7, <1>8, <1>9, <1>10, <1>11, <1>12 DEF VisitsNext

\* The invariant that carries the others, of the texts.
THEOREM TextInvariant == ASSUME UserWaits PROVE VisitsSpec => [](TextInv /\ FirstInv)
PROOF
  <1>1. VisitsInit => TextInv /\ FirstInv
    BY TextInit
  <1>2. VisitsTypeOK /\ VisitsInv /\ (TextInv /\ FirstInv) /\ [VisitsNext]_allVars
            => (TextInv /\ FirstInv)'
    BY TextStep
  <1> QED BY <1>1, <1>2, VisitsTypes, VisitsInvariant, PTL DEF VisitsSpec

\* A page with a clean list shows what the server has stored, on the next visit as on
\* the first, for any number of edits, presses and expiries: unless a call fails, or one
\* of the page that was left is carried out after the next visit has begun.
THEOREM RevisitsShowSaved == ASSUME UserWaits PROVE VisitsSpec => []RevisitShowsSaved
PROOF
  <1>1. TextInv => RevisitShowsSaved
    <2> SUFFICES ASSUME TextInv, ~overtaken, mode # "LOADING", list.state = "CLEAN",
                        failures = 0
                 PROVE  doc = text
      BY DEF RevisitShowsSaved, SavedIsShown
    <2>1. call["log"] = "idle" /\ list.unsent = <<>>
      BY DEF TextInv, ListInv
    <2>2. EndOf(doc, <<>>) = text
      BY <2>1 DEF TextInv, ChainInv, Stored, UnderWay
    <2> QED BY <2>2, EmptyChain
  <1> QED BY <1>1, TextInvariant, PTL

\* Under the same conditions no change is ever applied to a text it was not made in.
THEOREM StoredTextWasShown == ASSUME UserWaits PROVE VisitsSpec => []StoredWasShown
PROOF
  <1>1. TextInv => StoredWasShown
    BY DEF TextInv, StoredInv, StoredWasShown
  <1> QED BY <1>1, TextInvariant, PTL

\* Under the same conditions the server has stored the text it is asked to test.
THEOREM TestedIsStored == ASSUME UserWaits PROVE VisitsSpec => InSyncUnlessOvertaken
PROOF
  <1>1. VisitsInv /\ TextInv => (call["submit"] = "sent" /\ failures = 0
                                    => overtaken \/ doc = submitted)
    BY InSync DEF VisitsInv, TextInv, OpenInv
  <1>2. VisitsInv /\ TextInv =>
            [call["submit"] = "sent" /\ call'["submit"] = "ok" /\ failures = 0
                => overtaken \/ doc = submitted]_allVars
    BY <1>1
  <1> QED BY <1>2, VisitsInvariant, TextInvariant, PTL DEF InSyncUnlessOvertaken
=============================================================================
