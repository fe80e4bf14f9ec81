--------------------------- MODULE MCFileLogStore ----------------------------
(* FileLogStore with model values for record contents, which are interchangeable. *)
EXTENDS FileLogStore, TLC

ValueSymmetry == Permutations(Values)

=============================================================================
