----------------------------- MODULE ChangeList -----------------------------
(***************************************************************************)
(* How the edits of a user reach the database: client/model/ChangeList,    *)
(* the flush timer of DevelopmentPage that transmits batches of changes,   *)
(* EditCodeServiceImpl.logChange and JDBCDatabase.storeChanges.            *)
(*                                                                         *)
(* The changes are numbered in the order in which the user makes them.     *)
(* One batch is under way at a time as far as the client knows.  A call    *)
(* that fails with anything but an authentication exception has been       *)
(* abandoned by the client: the server may never have seen it, may have    *)
(* carried it out, or may still be about to do so.                         *)
(***************************************************************************)
EXTENDS Naturals, Sequences, SequencesExt

CONSTANTS
    MaxChanges,     \* bound: changes the user makes
    MaxFailures     \* bound: calls of logChange that fail

ASSUME BoundAssumption == MaxChanges \in Nat /\ MaxFailures \in Nat

VARIABLES
    typed,          \* how many changes the user has made
    \* the fields of ChangeList
    state,
    transmitSuccess,
    unsent,
    inTransmission,
    \* the call of logChange under way, and those the client has given up on
    rpc,            \* "none", "sent", "done" or "expired"
    batch,
    adrift,
    failures,
    stored          \* the changes in the database, by increasing event id

listVars == <<typed, state, transmitSuccess, unsent, inTransmission>>
callVars == <<rpc, batch, adrift, failures>>
vars == <<listVars, callVars, stored>>

Changes == 1..MaxChanges
Numbered(n) == [i \in 1..n |-> i]

TypeOK ==
    /\ typed \in 0..MaxChanges
    /\ state \in {"CLEAN", "UNSENT", "TRANSMISSION"}
    /\ transmitSuccess \in BOOLEAN
    /\ unsent \in Seq(Changes)
    /\ inTransmission \in Seq(Changes)
    /\ rpc \in {"none", "sent", "done", "expired"}
    /\ batch \in Seq(Changes)
    /\ adrift \subseteq (1..MaxFailures) \X Seq(Changes)
    /\ failures \in 0..MaxFailures
    /\ stored \in Seq(Changes)

Init ==
    /\ typed = 0
    /\ state = "CLEAN"
    /\ transmitSuccess = TRUE
    /\ unsent = <<>>
    /\ inTransmission = <<>>
    /\ rpc = "none"
    /\ batch = <<>>
    /\ adrift = {}
    /\ failures = 0
    /\ stored = <<>>

-----------------------------------------------------------------------------
(* The client: ChangeList.                                                 *)

\* Mutants: the change is numbered before it is counted; a change made while the
\* list is being transmitted marks the list; a change does not mark a clean list.
AddChangeStale ==
    /\ typed < MaxChanges
    /\ typed' = typed + 1
    /\ unsent' = Append(unsent, typed)
    /\ state' = IF state = "CLEAN" THEN "UNSENT" ELSE state
    /\ UNCHANGED <<transmitSuccess, inTransmission, callVars, stored>>

AddChangeMarks ==
    /\ typed < MaxChanges
    /\ typed' = typed + 1
    /\ unsent' = Append(unsent, typed + 1)
    /\ state' = "UNSENT"
    /\ UNCHANGED <<transmitSuccess, inTransmission, callVars, stored>>

AddChangeUnmarked ==
    /\ typed < MaxChanges
    /\ typed' = typed + 1
    /\ unsent' = Append(unsent, typed + 1)
    /\ UNCHANGED <<state, transmitSuccess, inTransmission, callVars, stored>>

\* The editor reports a change.
AddChange ==
    /\ typed < MaxChanges
    /\ typed' = typed + 1
    /\ unsent' = Append(unsent, typed + 1)
    /\ state' = IF state = "CLEAN" THEN "UNSENT" ELSE state
    /\ UNCHANGED <<transmitSuccess, inTransmission, callVars, stored>>

\* The flush timer finds unsent changes, and calls logChange with the batch.
BeginTransmit ==
    /\ state = "UNSENT"
    /\ inTransmission' = inTransmission \o unsent
    /\ unsent' = <<>>
    /\ state' = "TRANSMISSION"
    /\ rpc' = "sent"
    /\ batch' = inTransmission'
    /\ UNCHANGED <<typed, transmitSuccess, adrift, failures, stored>>

\* Mutants: changes made meanwhile are ignored; the list of transmitted changes
\* is not cleared; a failed batch is dropped like a stored one.
EndTransmitClean ==
    /\ inTransmission' = <<>>
    /\ state' = "CLEAN"
    /\ transmitSuccess' = TRUE
    /\ UNCHANGED <<typed, unsent>>

EndTransmitKeeps ==
    /\ state' = IF unsent = <<>> THEN "CLEAN" ELSE "UNSENT"
    /\ transmitSuccess' = TRUE
    /\ UNCHANGED <<typed, unsent, inTransmission>>

EndTransmitForgets ==
    /\ inTransmission' = <<>>
    /\ state' = IF unsent = <<>> THEN "CLEAN" ELSE "UNSENT"
    /\ transmitSuccess' = FALSE
    /\ UNCHANGED <<typed, unsent>>

\* endTransmit(true).
EndTransmitSuccess ==
    /\ inTransmission' = <<>>
    /\ state' = IF unsent = <<>> THEN "CLEAN" ELSE "UNSENT"
    /\ transmitSuccess' = TRUE
    /\ UNCHANGED <<typed, unsent>>

\* endTransmit(false): the two lists are exchanged, and the one that had the
\* changes made during the transmission keeps them.
EndTransmitFailure ==
    /\ unsent' = inTransmission \o unsent
    /\ inTransmission' = unsent
    /\ state' = "UNSENT"
    /\ transmitSuccess' = FALSE
    /\ UNCHANGED typed

-----------------------------------------------------------------------------
(* The call of logChange.                                                  *)

\* The server stores the batch, in one transaction.
LogChange ==
    /\ rpc = "sent"
    /\ stored' = stored \o batch
    /\ rpc' = "done"
    /\ UNCHANGED <<listVars, batch, adrift, failures>>

\* The reply arrives: onSuccess.
Acknowledge ==
    /\ rpc = "done"
    /\ EndTransmitSuccess
    /\ rpc' = "none"
    /\ batch' = <<>>
    /\ UNCHANGED <<adrift, failures, stored>>

\* The server does not know the session: nothing is stored, and the page asks
\* the user to log in again.
SessionExpired ==
    /\ rpc = "sent"
    /\ rpc' = "expired"
    /\ UNCHANGED <<listVars, batch, adrift, failures, stored>>

\* The user has logged in again, and the same batch is sent once more.
Recover ==
    /\ rpc = "expired"
    /\ rpc' = "sent"
    /\ UNCHANGED <<listVars, batch, adrift, failures, stored>>

\* onFailure: the request or the reply is lost, or the database fails.
CallFails ==
    /\ rpc \in {"sent", "done"}
    /\ failures < MaxFailures
    /\ failures' = failures + 1
    /\ EndTransmitFailure
    /\ rpc' = "none"
    /\ batch' = <<>>
    /\ \/ UNCHANGED adrift
       \/ rpc = "sent" /\ adrift' = adrift \cup {<<failures + 1, batch>>}
    /\ UNCHANGED stored

\* A request the client has given up on reaches the server after all.
LateLogChange ==
    \E call \in adrift :
        /\ stored' = stored \o call[2]
        /\ adrift' = adrift \ {call}
        /\ UNCHANGED <<listVars, rpc, batch, failures>>

Next ==
    \/ AddChange \/ BeginTransmit
    \/ LogChange \/ Acknowledge
    \/ SessionExpired \/ Recover
    \/ CallFails \/ LateLogChange

Spec == Init /\ [][Next]_vars

(***************************************************************************)
(* The flush timer keeps firing and calls end.  Sessions do not expire for *)
(* ever: strong fairness of the server's answer stands for a user who logs *)
(* in again.  Failures are bounded by MaxFailures.                         *)
(***************************************************************************)
FairSpec ==
    /\ Spec
    /\ WF_vars(BeginTransmit)
    /\ SF_vars(LogChange)
    /\ WF_vars(Recover)
    /\ WF_vars(Acknowledge \/ CallFails)

-----------------------------------------------------------------------------
\* No change is lost: what the user has typed is in the database or will be in
\* the next batch, however many calls have failed.
NoChangeLost ==
    \A n \in 1..typed :
        n \in Range(stored) \cup Range(inTransmission) \cup Range(unsent)

\* A clean list means that the server has everything.  A submission relies on
\* it (DevelopmentPage.java:346): it is made only when the list is clean.
CleanMeansStored ==
    state = "CLEAN" => \A n \in 1..typed : n \in Range(stored)

\* beginTransmit's assertions hold whenever the timer calls it, and the client
\* has a call under way exactly when it believes so.
ListConsistent ==
    /\ state = "UNSENT" => unsent # <<>> /\ (inTransmission = <<>> \/ ~transmitSuccess)
    /\ state = "CLEAN" => unsent = <<>> /\ inTransmission = <<>>
    /\ state = "TRANSMISSION" <=> rpc # "none"

\* As long as no call has failed, the database has the changes in the order
\* they were made, each of them once.
InOrderUntilFailure ==
    failures = 0 => IsPrefix(stored, Numbered(typed))

\* Every change is stored in the end.
EveryChangeStored ==
    \A n \in Changes : typed >= n ~> n \in Range(stored)
=============================================================================
