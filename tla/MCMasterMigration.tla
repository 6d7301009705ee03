-------------------------- MODULE MCMasterMigration --------------------------
(***************************************************************************)
(* Two migrations to either of two servers, the first of them to c1: what  *)
(* happens when it is to c2 is the same with the names exchanged.          *)
(***************************************************************************)
EXTENDS MasterMigration

CONSTANTS c1, c2

Servers == {c1, c2}
FirstToOne == sess.id = 1 => sess.cand # c2
=============================================================================
