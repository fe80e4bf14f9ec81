----------------------------- MODULE MCLogEngine -----------------------------
(* LogEngine with a hash for the keys of the instance. *)
EXTENDS LogEngine

\* Two partitions apart, as fnv1a would place them.
MCKeyHash == [k \in Keys |-> 1]

=============================================================================
