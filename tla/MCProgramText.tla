---------------------------- MODULE MCProgramText ----------------------------
(* Small instances of ProgramText for TLC.                                 *)
EXTENDS ProgramText

CONSTANT x

\* No skeleton, and one of two lines.
MCSkeletons == {<<>>, <<x, NL, x, NL>>}

\* A key, and pasted text of several lines with and without blank ones.
MCPastes == {<<x>>, <<NL>>, <<x, NL, x>>, <<NL, x, NL>>, <<NL, NL>>, <<NL, NL, NL>>}
=============================================================================
