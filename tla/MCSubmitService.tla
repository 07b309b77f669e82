-------------------------- MODULE MCSubmitService --------------------------
(* Small instances of SubmitService for TLC.                               *)
EXTENDS SubmitService, TLC

\* Submissions are told apart by nothing but their identity, nor are workers.
Symmetry == Permutations(Submissions) \cup Permutations(Workers)
=============================================================================
