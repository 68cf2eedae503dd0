--------------------------- MODULE RetentionLoop ---------------------------
(* applyRetention's list handling as it is written: split the sorted listing   *)
(* by status, hide a suffix by index, stop at the first failure; and            *)
(* BackupSchedule's search of the same bucket for the newest ready manifest.   *)
EXTENDS Retention, Integers, Sequences, Functions

CONSTANTS
    Ids,          \* recovery points in the bucket
    MaxCount      \* bound: retention counts tried

ASSUME LoopAssumption == IsFiniteSet(Ids) /\ MaxCount \in Nat

VARIABLES
    statusOf,     \* [Ids -> {"none", "ready", "deleting"}], in the manifests as listed
    createdAt,    \* [Ids -> 1..Cardinality(Ids)]: only the order matters
    count,        \* what BackupSettings returned
    listing,      \* what listManifests returned
    pc,
    index,        \* of the loop it is in
    deleting, ready,
    latest        \* of BackupSchedule, 0 before there is one

inputs == <<statusOf, createdAt, count, listing>>
vars == <<inputs, pc, index, deleting, ready, latest>>

Manifests == {id \in Ids : statusOf[id] # "none"}

-----------------------------------------------------------------------------
(* Seeded defects, to show that the properties notice them.                   *)

\* Sorting oldest first.
Older(a, b) == createdAt[a] < createdAt[b]

\* The index arithmetic off by one in either direction.
RemoveCountTooFew == Len(ready) - count
RemoveCountTooMany == Len(ready) - count + 2

\* Expiring from the front of the list.
HideFromFront ==
    /\ pc = "hide" /\ index <= Len(ready)
    /\ deleting' = Append(deleting, ready[index - count + 1])
    /\ index' = index + 1
    /\ UNCHANGED <<inputs, pc, ready, latest>>

-----------------------------------------------------------------------------
\* sort.Slice by CreatedAt, newest first; times differ (TimesDiffer in BackupWorkflow).
Newer(a, b) == createdAt[a] > createdAt[b]

Sorted == {seq \in [1..Cardinality(Manifests) -> Manifests] :
             /\ Range(seq) = Manifests
             /\ \A i, j \in DOMAIN seq : i < j => Newer(seq[i], seq[j])}

\* A retention count below one cannot be saved; BackupSettings reports zero only
\* when the configuration Secret has disappeared.
Init ==
    /\ statusOf \in [Ids -> {"none", "ready", "deleting"}]
    /\ createdAt \in {f \in [Ids -> 1..Cardinality(Ids)] : IsInjective(f)}
    /\ count \in 0..MaxCount
    /\ listing \in Sorted
    /\ pc = "split" /\ index = 1
    /\ deleting = <<>> /\ ready = <<>>
    /\ latest = 0

Split ==
    /\ pc = "split" /\ index <= Len(listing)
    /\ \/ /\ statusOf[listing[index]] = "deleting"
          /\ deleting' = Append(deleting, listing[index]) /\ UNCHANGED ready
       \/ /\ statusOf[listing[index]] # "deleting"
          /\ ready' = Append(ready, listing[index]) /\ UNCHANGED deleting
    /\ index' = index + 1
    /\ UNCHANGED <<inputs, pc, latest>>

\* What BackupSchedule gets from ListManifests are the same ready manifests.
StartSearch ==
    /\ pc = "split" /\ index > Len(listing)
    /\ pc' = "search" /\ index' = 1
    /\ UNCHANGED <<inputs, deleting, ready, latest>>

Search ==
    /\ pc = "search" /\ index <= Len(ready)
    /\ latest' = IF createdAt[ready[index]] > latest THEN createdAt[ready[index]] ELSE latest
    /\ index' = index + 1
    /\ UNCHANGED <<inputs, pc, deleting, ready>>

\* The places missing for the new manifest.
RemoveCount == Len(ready) - count + 1

\* ready[len(ready)-removeCount] is the first to hide.  For a count of zero this is
\* ready[-1].
StartHiding ==
    /\ pc = "search" /\ index > Len(ready)
    /\ \/ /\ RemoveCount <= 0
          /\ pc' = "delete" /\ UNCHANGED index
       \/ /\ RemoveCount \in 1..Len(ready)
          /\ pc' = "hide" /\ index' = Len(ready) - RemoveCount + 1
       \/ /\ RemoveCount > Len(ready)
          /\ pc' = "panicked" /\ UNCHANGED index
    /\ UNCHANGED <<inputs, deleting, ready, latest>>

\* MarkRecoveryPointDeleting succeeds.
Hide ==
    /\ pc = "hide" /\ index <= Len(ready)
    /\ deleting' = Append(deleting, ready[index])
    /\ index' = index + 1
    /\ UNCHANGED <<inputs, pc, ready, latest>>

HideFails ==
    /\ pc = "hide" /\ index <= Len(ready)
    /\ pc' = "failed"
    /\ UNCHANGED <<inputs, index, deleting, ready, latest>>

StartDeleting ==
    /\ pc = "hide" /\ index > Len(ready)
    /\ pc' = "delete"
    /\ UNCHANGED <<inputs, index, deleting, ready, latest>>

Next == Split \/ StartSearch \/ Search \/ StartHiding \/ Hide \/ HideFails \/ StartDeleting

Spec == Init /\ [][Next]_vars

-----------------------------------------------------------------------------
(* Properties.                                                                *)

Listed(status) == {id \in Ids : statusOf[id] = status}
Hidden == Range(deleting) \intersect Listed("ready")

\* The suffix taken by index is the set BackupWorkflow works with, hidden from the
\* newest to the oldest wherever the loop stops (executor.go:243-253); what is then
\* deleted is that and what an earlier attempt left.
SuffixIsExpired ==
    count > 0 =>
        LET expired == Expired(Listed("ready"), createdAt, count)
        IN  /\ Hidden \subseteq expired
            /\ \A id \in Hidden, e \in expired \ Hidden : createdAt[id] > createdAt[e]
            /\ pc = "delete" => Range(deleting) = expired \union Listed("deleting")

\* With the manifest about to be published the ready manifests number at most the
\* retention count, nothing is expired needlessly, and no survivor is older than an
\* expired one.
RetentionFits ==
    pc = "delete" =>
        LET kept == Listed("ready") \ Hidden
        IN  /\ Cardinality(kept) + 1 <= count
            /\ Hidden # {} => Cardinality(kept) + 1 = count
            /\ \A k \in kept, id \in Hidden : createdAt[k] > createdAt[id]

\* The index stays inside the list for every retention count but zero.
PanicsOnlyOnZero ==
    /\ pc = "panicked" => count = 0
    /\ pc \in {"hide", "failed", "delete"} => count > 0

\* The newest ready point survives every retention count above one, so that the
\* schedule, which derives the next operation ID from it, does not step back.
ScheduleKeepsItsPlace ==
    count > 1 /\ pc \notin {"split", "search"} /\ Listed("ready") # {} =>
        \E id \in Listed("ready") \ Hidden : createdAt[id] = latest
=============================================================================
