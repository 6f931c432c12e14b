----------------------------- MODULE MCRateWindow -----------------------------
(***************************************************************************)
(* RateWindow for TLC: two meters with different limits sharing one table. *)
(***************************************************************************)
EXTENDS RateWindow, TLC

CONSTANTS m1, m2, e1, e2, e3, e4

MCMeter == {m1, m2}
MCEvent == {e1, e2, e3, e4}
MCLimit == (m1 :> 1) @@ (m2 :> 2)
Symmetry == Permutations(MCEvent)
=============================================================================
