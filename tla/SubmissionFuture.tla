-------------------------- MODULE SubmissionFuture --------------------------
(***************************************************************************)
(* What ISubmitService and IFutureSubmissionResult promise a caller, and   *)
(* nothing about how it is done: a request for testing is refused at once  *)
(* or becomes pending, a pending future is answered at most once, and an   *)
(* answer, a SubmissionResult or a SubmissionException, never changes.     *)
(* SubmitService implements this specification.                            *)
(***************************************************************************)
CONSTANT Submissions    \* the requests for testing that are ever made

VARIABLE future         \* what a caller knows of each request

vars == future

Answers == {"result", "error"}

TypeOK == future \in [Submissions -> {"new", "refused", "pending"} \cup Answers]

Init == future = [s \in Submissions |-> "new"]

\* submitAsync throws a SubmissionException.
Refuse(s) ==
    /\ future[s] = "new"
    /\ future' = [future EXCEPT ![s] = "refused"]

\* submitAsync returns a future whose poll() returns null.
Accept(s) ==
    /\ future[s] = "new"
    /\ future' = [future EXCEPT ![s] = "pending"]

\* From here on poll() returns the result, or throws the error.
Answer(s, a) ==
    /\ future[s] = "pending"
    /\ future' = [future EXCEPT ![s] = a]

Next ==
    \E s \in Submissions :
        \/ Refuse(s)
        \/ Accept(s)
        \/ \E a \in Answers : Answer(s, a)

Spec == Init /\ [][Next]_vars
=============================================================================
