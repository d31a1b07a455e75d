----------------------------- MODULE MCLauncher -----------------------------
(***************************************************************************)
(* Two commands of any kind, one after the other or at the same time, with *)
(* an owner that runs, is slow to start or to end, or dies.                *)
(***************************************************************************)
EXTENDS Launcher, TLC

Symmetry == Permutations(Launchers)
=============================================================================
