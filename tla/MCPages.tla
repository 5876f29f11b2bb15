------------------------------- MODULE MCPages -------------------------------
(* Pages for TLC: accounts that differ by nothing but their name. *)
EXTENDS Pages, TLC

AccountSymmetry == Permutations(Accounts)
=============================================================================
