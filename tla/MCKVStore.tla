------------------------------- MODULE MCKVStore -------------------------------
EXTENDS KVStore, TLC

CONSTANTS ka, kb, kc, kd, ke

\* One group fits a transaction, the other does not.
MCGroups == {{ka, kb}, {kc, kd, ke}}

Interchangeable == Permutations(Procs) \cup Permutations({ka, kb}) \cup Permutations({kc, kd, ke})

================================================================================
