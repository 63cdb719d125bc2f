---------------------------- MODULE BinarySearch ----------------------------
(***************************************************************************)
(* The two binary searches of packages/publisher/src/adapters/memory.ts,    *)
(* findResumeStartIndex and findFirstUnexpiredIndex: the same loop over a   *)
(* bucket that is sorted by id and by expiry.  A key stands for the id or   *)
(* for the expiry, and what is searched for is the first key above a bound  *)
(* (the last event id, or now).  Indices are zero-based as in the code.     *)
(***************************************************************************)
EXTENDS Integers, Sequences

CONSTANTS MaxKey,    \* bound: keys are 0..MaxKey
          MaxLength  \* bound: entries of a bucket

ASSUME SearchAssumption == MaxKey \in Nat /\ MaxLength \in Nat

VARIABLES sorted,  \* the keys of the bucket
          limit,   \* lastEventId, or now
          lo, hi   \* the interval that is still to be searched

searchVars == <<sorted, limit, lo, hi>>

Keys == 0..MaxKey
Ascending(b) == \A i, j \in 1..Len(b) : i <= j => b[i] <= b[j]
Buckets == {b \in UNION {[1..n -> Keys] : n \in 0..MaxLength} : Ascending(b)}

SearchInit ==
  /\ sorted \in Buckets
  /\ limit \in Keys
  /\ lo = 0
  /\ hi = Len(sorted)

\* Mutant of IsLater: an entry that equals the limit is taken.
IsLaterOrEqual(k) == k >= limit

\* (lo + hi) >>> 1
Middle == (lo + hi) \div 2

\* mid + 1
AboveMiddle == Middle + 1

\* id > lastEventId, or !(expiresAt <= now)
IsLater(k) == k > limit

\* One turn of the loop.
Step ==
  /\ lo < hi
  /\ IF IsLater(sorted[Middle + 1])
     THEN hi' = Middle /\ UNCHANGED lo
     ELSE lo' = AboveMiddle /\ UNCHANGED hi
  /\ UNCHANGED <<sorted, limit>>

SearchNext == Step

\* The loop runs until it ends.
SearchSpec == SearchInit /\ [][SearchNext]_searchVars /\ WF_searchVars(SearchNext)

-----------------------------------------------------------------------------
\* The loop invariant (both functions): what lies below lo is not later than
\* the limit, what lies from hi on is.
LoopInv ==
  /\ sorted \in Seq(Keys) /\ limit \in Keys /\ Ascending(sorted)
  /\ lo \in 0..Len(sorted) /\ hi \in 0..Len(sorted) /\ lo <= hi
  /\ \A i \in 1..Len(sorted) : i <= lo => ~(sorted[i] > limit)
  /\ \A i \in 1..Len(sorted) : i > hi => sorted[i] > limit

\* The index that is returned splits the bucket exactly: nothing before it is
\* later than the limit, and everything from it on is.
FindsTheFirstLater ==
  lo = hi => \A i \in 1..Len(sorted) : (i > lo) <=> (sorted[i] > limit)

\* Every turn at least halves the interval, so the loop ends.
HalvesTheInterval == [][2 * (hi' - lo') <= hi - lo]_searchVars

=============================================================================
