---------------------------- MODULE MCKeyLifecycle ----------------------------
(***************************************************************************)
(* KeyLifecycle for TLC.                                                   *)
(***************************************************************************)
EXTENDS KeyLifecycle, TLC

AllCommands == Command
LockingCommands == {"enroll", "rotate", "retire"}

Symmetry == Permutations(Kid) \cup Permutations(Process)
=============================================================================
