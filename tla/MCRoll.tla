------------------------------- MODULE MCRoll -------------------------------
(***************************************************************************)
(* One person at two congregations, one of which may seat the person as    *)
(* its pastor.                                                             *)
(***************************************************************************)
EXTENDS Roll, TLC
CONSTANTS a, b, p
MCPastors == {<<a, p>>}
=============================================================================
