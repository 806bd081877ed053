----------------------------- MODULE CatalogueMC -----------------------------
(* Catalogue on small instances. *)
EXTENDS Catalogue, TLC

PoolSymmetry == Permutations(Providers) \cup Permutations(Agents) \cup Permutations(Runs)
                \cup Permutations(Edges) \cup Permutations(Calls) \cup Permutations(Fields)
=============================================================================
