---------------------------- MODULE MCDlqRedrive ----------------------------
(***************************************************************************)
(* Module DlqRedrive for TLC: the workers are interchangeable, which the   *)
(* safety runs use to halve their state space.                             *)
(***************************************************************************)
EXTENDS DlqRedrive, TLC

WorkerSymmetry == Permutations(Worker)
=============================================================================
