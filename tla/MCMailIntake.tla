---------------------------- MODULE MCMailIntake ----------------------------
(***************************************************************************)
(* A small instance of MailIntake for TLC.                                 *)
(***************************************************************************)
EXTENDS MailIntake, TLC

Symmetry == Permutations(Sessions) \cup Permutations(Messages)
=============================================================================
