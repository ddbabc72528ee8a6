---------------------------- MODULE MCPollReaders ----------------------------
(* PollReaders on a few processes.                                          *)
EXTENDS PollReaders

MCCopiers == Pollers
MCUpdates == 1 .. MaxWrites
MCVectors == 1 .. Cardinality(Pollers) + 2

Sym == Permutations(Pollers \ (NonBlock \cup Signalled)) \cup Permutations(Writers)
=============================================================================
