-------------------------- MODULE MCPerceiveBatch --------------------------
\* Instance of PerceiveBatch: a batch of two addresses, and a single operation on one
\* of them, so that each can serve the other from the cache.
EXTENDS PerceiveBatch
CONSTANTS b1, o1, o2, o3, u1, u2
MCBatchOps == [b \in {b1} |-> <<o1, o2>>]
MCUrlOf == [o \in {o1, o2, o3} |-> IF o = o2 THEN u2 ELSE u1]
=============================================================================
