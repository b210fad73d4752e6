---------------------------- MODULE MutableSource ----------------------------
(***************************************************************************)
(* The two halves of ReactMutableSource.js together: the work-in-progress  *)
(* versions two renderers record on shared sources (MutableSourceVersions) *)
(* and the pending range of the primary renderer's root                    *)
(* (MutableSourcePending).  The callers that tie them together live        *)
(* outside this repository and are modelled from spec.md 4.5: a source     *)
(* mutation notifies the subscribed hook, which schedules an update on the *)
(* root at some expiration time (setPendingExpirationTime); the root's     *)
(* commit at the render's time clears the range (clearPendingUpdates).     *)
(***************************************************************************)
EXTENDS MutableSourceVersions

CONSTANT MaxTime   \* expiration times are 1..MaxTime

VARIABLES first, last, pending

Pending == INSTANCE MutableSourcePending

pendingVars == <<first, last, pending>>
allVars == <<vars, pendingVars>>

\* The source changes; its subscription schedules an update on the root.
MutateAndSchedule(s) ==
  /\ Mutate(s)
  /\ \E et \in Pending!Times : Pending!Update(et)

\* The primary renderer commits its render at time et and clears the
\* root's pending range up to et.
CommitPrimary ==
  /\ FinishRender("primary")
  /\ \E et \in Pending!Times : Pending!Clear(et)

SourceInit == Init /\ Pending!Init

SourceNext ==
  \/ \E r \in Renderers : StartRender(r) /\ UNCHANGED pendingVars
  \/ FinishRender("secondary") /\ UNCHANGED pendingVars
  \/ CommitPrimary
  \/ \E r \in Renderers, s \in Sources :
       (Read(r, s) \/ RestartOnTear(r, s) \/ MarkDirty(r, s)) /\ UNCHANGED pendingVars
  \/ \E s \in Sources : MutateAndSchedule(s)

SourceSpec == SourceInit /\ [][SourceNext]_allVars

\* getLastPendingExpirationTime is the latest time of an update not yet
\* cleared (NoWork when none) while sources mutate and renders commit: the
\* max fold and the clear of the last end agree on what is pending.
LastIsMaxPending == Pending!LastIsMaxPending

=============================================================================
