------------------------------- MODULE MCInterp -------------------------------
(***************************************************************************)
(* The interpreter on the programs of Families.                            *)
(***************************************************************************)
EXTENDS Reference, Families

\* The programs of Jumps are those DefersKept is for.
ASSUME JumpsAssumption == Nodes = JumpNodes => Tidy(Nodes)
=============================================================================
