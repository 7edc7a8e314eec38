--------------------------- MODULE MCTaskRunner ---------------------------
(* Small instances of TaskRunner for TLC.                                  *)
EXTENDS TaskRunner, TLC

(* Tasks that have not begun are not told apart.                           *)
Symmetry == Permutations(Tasks \ Earlier)
=============================================================================
