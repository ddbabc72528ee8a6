---------------------------- MODULE MCScheduler ----------------------------
(* Scheduler on a few threads, each with its own open file.                *)
EXTENDS Scheduler, TLC

OwnFiles == Readers \cup Writers
OwnFile == [t \in Readers \cup Writers |-> t]

MCCopiers == Readers \cup {Worker}
MCVectors == 1 .. Cardinality(Readers) + 2

Sym == Permutations(Readers) \cup Permutations(Writers)
=============================================================================
