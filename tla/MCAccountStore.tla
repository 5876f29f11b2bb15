--------------------------- MODULE MCAccountStore ---------------------------
(* Two generated accounts and room for three files; two unlock tasks at a  *)
(* time, which the keyboard handler of the dialog allows.                  *)
EXTENDS AccountStore

MCKeys == {1, 2}
=============================================================================
