-------------------------- MODULE MCMemoryLogStore ---------------------------
(* MemoryLogStore with model values for record contents, which are interchangeable. *)
EXTENDS MemoryLogStore, TLC

ValueSymmetry == Permutations(Values)

=============================================================================
