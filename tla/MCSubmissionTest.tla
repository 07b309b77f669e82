--------------------------- MODULE MCSubmissionTest ---------------------------
(***************************************************************************)
(* SubmissionTest for TLC: one command with all its ways to write and to   *)
(* end, by output and by exit code; two commands that only end; and the    *)
(* sandbox, with two tasks where their results may affect each other.      *)
(***************************************************************************)
EXTENDS SubmissionTest

Of(type, tests, lines, endings) ==
    [type |-> type, tests |-> tests, lines |-> lines, endings |-> endings]

MCProblems ==
    {Of("C_PROGRAM", 1, 2, {"success", "crash", "limit", "notFound"}),
     Of("C_FUNCTION", 1, 1, {"success", "otherCode"}),
     Of("C_PROGRAM", 2, 0, {"success"}),
     Of("JAVA_METHOD", 2, 0, {}),
     Of("PYTHON_FUNCTION", 1, 0, {}),
     Of("RUBY_METHOD", 2, 0, {})}

=============================================================================
