----------------------------- MODULE MCConsumerGroup -----------------------------
EXTENDS ConsumerGroup, TLC

\* Members, and the goroutines of Consume, are interchangeable.
Interchangeable == Permutations(Members) \cup Permutations(Fetchers)

=============================================================================
