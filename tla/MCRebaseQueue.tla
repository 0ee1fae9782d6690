--------------------------- MODULE MCRebaseQueue ----------------------------
(***************************************************************************)
(* Instances of RebaseQueue for TLC.                                       *)
(***************************************************************************)
EXTENDS RebaseQueue

\* Every branch touches a file of every other one.
AllOverlap == [b \in Branches |-> Branches \ {b}]
=============================================================================
