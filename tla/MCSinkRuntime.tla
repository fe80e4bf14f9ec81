---------------------------- MODULE MCSinkRuntime ----------------------------
(* SinkRuntime with model values for its tasks; runners are interchangeable. *)
EXTENDS SinkRuntime, TLC

TaskSymmetry == Permutations(Runners)

=============================================================================
