------------------------- MODULE MCSkillGovernance -------------------------
(***************************************************************************)
(* Values for the parameters of SkillGovernance.                           *)
(***************************************************************************)
EXTENDS SkillGovernance, TLC

CONSTANTS n1, n2, a, b, c

\* Names are alike.
Alike == Permutations(Names)
=============================================================================
