------------------------------ MODULE DenyList ------------------------------
(***************************************************************************)
(* selector_deny_list.c: the messages that are never traced, found by the  *)
(* hash of the selector in a sorted list.  Indices are size_t, from 0.     *)
(***************************************************************************)
EXTENDS Integers, Sequences

CONSTANTS
  SkipList,   \* selector_skip_list: hashes, in ascending order
  Selectors   \* selectors: what their name starts with, and its hash

ASSUME DenyListAssumption ==
  /\ SkipList \in Seq(Nat) /\ SkipList # <<>>
  /\ \A i, j \in 1..Len(SkipList) : i < j => SkipList[i] < SkipList[j]
  /\ Selectors \subseteq [first : {"none", "s", ".", "other"}, hash : Nat]

VARIABLES selector, searching, left, right, denied

denyVars == <<selector, searching, left, right, denied>>

DenyInit ==
  /\ selector \in Selectors /\ searching = "entry"
  /\ left = 0 /\ right = 0 /\ denied = FALSE

Deny(b) ==
  /\ searching' = "done" /\ denied' = b
  /\ UNCHANGED <<selector, left, right>>

\* NULL, an empty name, and the names that start with s are not in the list.
Ignore == searching = "entry" /\ selector.first \in {"none", "s"} /\ Deny(FALSE)

Hidden == searching = "entry" /\ selector.first = "." /\ Deny(TRUE)

BeginSearch ==
  /\ searching = "entry" /\ selector.first = "other"
  /\ searching' = "loop" /\ right' = Len(SkipList) - 1
  /\ UNCHANGED <<selector, left, denied>>

mid == left + (right - left) \div 2
MidHash == SkipList[mid + 1]

InRange == searching = "loop" /\ left <= right

Found == InRange /\ MidHash = selector.hash /\ Deny(TRUE)

\* Mutant: the upper half begins one entry too late.
GoRight_SkipsOne ==
  /\ InRange /\ MidHash < selector.hash
  /\ left' = mid + 2
  /\ UNCHANGED <<selector, searching, right, denied>>

GoRight ==
  /\ InRange /\ MidHash < selector.hash
  /\ left' = mid + 1
  /\ UNCHANGED <<selector, searching, right, denied>>

BeforeFirst == InRange /\ MidHash > selector.hash /\ mid = 0 /\ Deny(FALSE)

\* Mutant: the search goes on below the first entry.
GoLeft_BelowFirst ==
  /\ InRange /\ MidHash > selector.hash
  /\ right' = mid - 1
  /\ UNCHANGED <<selector, searching, left, denied>>

GoLeft ==
  /\ InRange /\ MidHash > selector.hash /\ mid # 0
  /\ right' = mid - 1
  /\ UNCHANGED <<selector, searching, left, denied>>

Absent == searching = "loop" /\ left > right /\ Deny(FALSE)

DenyNext ==
  Ignore \/ Hidden \/ BeginSearch \/ Found \/ GoRight \/ BeforeFirst \/ GoLeft \/ Absent

DenySpec == DenyInit /\ [][DenyNext]_denyVars

-----------------------------------------------------------------------------
Listed == \E i \in 1..Len(SkipList) : SkipList[i] = selector.hash

\* The search reads inside the list: no index wraps below zero or runs past the end.
IndicesInside == left \in 0..Len(SkipList) /\ right \in 0..(Len(SkipList) - 1)

\* A selector is denied exactly when it starts with a dot, or its hash is in the
\* list and it is none of the names that are let through unseen.
DeniedIffListed ==
  searching = "done" =>
    (denied <=> selector.first = "." \/ (selector.first = "other" /\ Listed))
=============================================================================
