------------------------ MODULE MCProcessingLeases ------------------------
EXTENDS ProcessingLeases, TLC

CONSTANTS d1, d2, d3, d4, u1, u2, k1

\* Three documents for the two slots of u1, and a user on the same key.
MCOwner == (d1 :> u1) @@ (d2 :> u1) @@ (d3 :> u1) @@ (d4 :> u2)
MCLockKey == [u \in User |-> k1]

\* Workers run the same code, d1, d2 and d3 have the same owner, ids are random.
Symmetry == Permutations(Worker) \cup Permutations({d1, d2, d3})
              \cup Permutations(LeaseId)
=============================================================================
