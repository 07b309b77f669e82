------------------------- MODULE MCSubmissionSession -------------------------
(* Two pages.  Up to a renaming of the pages and of the problems, they are    *)
(* about one problem or about two.                                            *)
EXTENDS SubmissionSession

CONSTANTS v1, v2, p1, p2

MCPages == {v1, v2}
MCProblems == {p1, p2}
MCOpenings == {[v \in MCPages |-> p1], [v \in MCPages |-> IF v = v1 THEN p1 ELSE p2]}

\* The order of a java.util.HashMap with these keys.
MCAttributeOrder == <<"problem", "future", "fullText", "user">>
=============================================================================
