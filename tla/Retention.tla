----------------------------- MODULE Retention -----------------------------
(* Which ready manifests retention expires, as a set.  RetentionLoop checks   *)
(* that this is what the loop in applyRetention picks from the sorted list.   *)
EXTENDS Naturals, FiniteSets

-----------------------------------------------------------------------------
(* Seeded defects, to show that the properties notice them.                   *)

\* len(ready) - retentionCount, without the place for the new manifest.
ExpiredTooFew(ready, createdAt, retentionCount) ==
    {p \in ready :
        Cardinality({q \in ready : createdAt[q] > createdAt[p]}) >= retentionCount}

\* len(ready) - retentionCount + 2.
ExpiredTooMany(ready, createdAt, retentionCount) ==
    {p \in ready :
        Cardinality({q \in ready : createdAt[q] > createdAt[p]}) + 2 >= retentionCount}

-----------------------------------------------------------------------------
\* The ready manifests beyond the retentionCount - 1 newest: one place is kept
\* for the manifest about to be published.
Expired(ready, createdAt, retentionCount) ==
    {p \in ready :
        Cardinality({q \in ready : createdAt[q] > createdAt[p]}) >= retentionCount - 1}
=============================================================================
