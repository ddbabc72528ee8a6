---------------------------- MODULE MCTwoTables ----------------------------
(* TwoTables on a few processes.                                           *)
EXTENDS TwoTables

MCCopiers == Pollers
MCUpdates == 1 .. MaxWrites
MCVectors == 1 .. Cardinality(Pollers) + 2

Sym == Permutations(Pollers)
=============================================================================
