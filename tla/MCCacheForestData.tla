-------------------------- MODULE MCCacheForestData --------------------------
(* Instantiation of CacheForestData for TLC: a forest of up to two rows     *)
(* (7 hashes), whose row-0 window then covers three positions and row 1's  *)
(* one.  One hash besides zero is enough to tell a stale or lost hash from *)
(* the right one.                                                          *)
EXTENDS CacheForestData, FiniteSets

CONSTANTS h1, zero

MCHashes == {zero, h1}

\* Bound on the non-zero hashes held by the file and the cache together.
MaxNonZero == 4

\* State constraint: at most MaxNonZero non-zero hashes stored.
MCBound ==
    Cardinality({p \in DOMAIN disk : disk[p] # zero}) + Cardinality(DOMAIN cdata)
        <= MaxNonZero
=============================================================================
