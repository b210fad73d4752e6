------------------------- MODULE MutableSourcePending -------------------------
(***************************************************************************)
(* The root's pending range of mutable-source updates.                     *)
(*                                                                         *)
(* Source: packages/react-reconciler/src/ReactMutableSource.js.            *)
(*                                                                         *)
(* setPendingExpirationTime folds an update's expiration time into         *)
(* root.mutableSourceFirst/LastPendingUpdateTime; clearPendingUpdates      *)
(* drops each end of the range that is <= the given time.  The ghost       *)
(* variable `pending` holds the times of the updates folded in and not yet *)
(* cleared, an update counting as cleared by the test the code applies to  *)
(* the ends of the range (time <= expirationTime).                         *)
(***************************************************************************)
EXTENDS Integers, FiniteSets, FiniteSetsExt

CONSTANT MaxTime   \* expiration times are 1..MaxTime

\* ReactFiberExpirationTime.NoWork
NoWork == 0
Times == 1..MaxTime

VARIABLES
  first,    \* root.mutableSourceFirstPendingUpdateTime
  last,     \* root.mutableSourceLastPendingUpdateTime
  pending   \* the updates folded in and not cleared (ghost)

vars == <<first, last, pending>>

\* Mutant: clearPendingUpdates clears the last time only when strictly
\* below expirationTime.
ClearPendingUpdatesStrict(et) ==
  /\ first' = IF first <= et THEN NoWork ELSE first
  /\ last' = IF last < et THEN NoWork ELSE last

\* clearPendingUpdates(root, expirationTime)
ClearPendingUpdates(et) ==
  /\ first' = IF first <= et THEN NoWork ELSE first
  /\ last' = IF last <= et THEN NoWork ELSE last

\* Mutant: the two folds swapped (min into last, max into first).
SetPendingExpirationTimeSwapped(et) ==
  /\ last' = IF last = NoWork THEN et ELSE Min({last, et})
  /\ first' = Max({first, et})

\* setPendingExpirationTime(root, expirationTime): max into last; first
\* takes the time when NoWork, else the min.
SetPendingExpirationTime(et) ==
  /\ last' = Max({last, et})
  /\ first' = IF first = NoWork THEN et ELSE Min({first, et})

\* A mutable source is marked dirty with an update at time et.
Update(et) ==
  /\ SetPendingExpirationTime(et)
  /\ pending' = pending \cup {et}

\* A render at time et finishes and clears the range.
Clear(et) ==
  /\ ClearPendingUpdates(et)
  /\ pending' = {t \in pending : t > et}

Init ==
  /\ first = NoWork
  /\ last = NoWork
  /\ pending = {}

Next == \E et \in Times : Update(et) \/ Clear(et)

Spec == Init /\ [][Next]_vars

-----------------------------------------------------------------------------

\* The two ends are times or NoWork, and a set first end is no later than
\* the last end.
TypeOK ==
  /\ first \in {NoWork} \cup Times
  /\ last \in {NoWork} \cup Times
  /\ first # NoWork => first <= last
  /\ pending \subseteq Times

\* getLastPendingExpirationTime is the latest time of an update not yet
\* cleared, and NoWork exactly when every update has been cleared: the max
\* fold and the clear of the last end agree on which updates are pending.
LastIsMaxPending ==
  last = IF pending = {} THEN NoWork ELSE Max(pending)

\* getFirstPendingExpirationTime is the earliest time of an update not yet
\* cleared, and NoWork exactly when every update has been cleared.
FirstIsMinPending ==
  first = IF pending = {} THEN NoWork ELSE Min(pending)

=============================================================================
