--------------------------- MODULE SuspenseAbstract ---------------------------
(***************************************************************************)
(* What a Suspense boundary promises its user, with no fibers, no render  *)
(* phase and no work loop: the container asks for props, and from time to *)
(* time a commit shows either the primary children or the fallback with   *)
(* the props last asked for.  The component instances are the observable  *)
(* part: the primary children keep their instance while hidden behind the *)
(* fallback (spec.md 4.3, "preserving their state"), the fallback keeps   *)
(* its instance while the boundary stays timed out, and is gone once the  *)
(* primary children show again.                                           *)
(*                                                                         *)
(* SuspenseBoundary instantiates this module with a refinement mapping and *)
(* checks its Spec as a property of the detailed boundary.                 *)
(***************************************************************************)
EXTENDS FiniteSets

CONSTANTS
  Nil,     \* nothing committed yet
  Props,   \* props objects the container may pass
  Insts    \* component instance identities

VARIABLES
  requested,  \* the props the container last asked for
  view,       \* "none" before the first commit, then "primary" or "fallback"
  shown,      \* the props of the committed boundary
  primary,    \* instances of the primary children in the committed tree
  fallback    \* instances of the fallback children in the committed tree

vars == <<requested, view, shown, primary, fallback>>

Init ==
  /\ requested \in Props
  /\ view = "none"
  /\ shown = Nil
  /\ primary = {}
  /\ fallback = {}

\* The container renders the boundary with new props.
Request(p) ==
  /\ requested' = p
  /\ UNCHANGED <<view, shown, primary, fallback>>

\* A commit shows the primary children: the hidden instance comes back if
\* there is one, else one is mounted; the fallback is unmounted.
ShowPrimary ==
  /\ view' = "primary"
  /\ shown' = requested
  /\ \/ primary # {} /\ primary' = primary
     \/ primary = {} /\ \E i \in Insts \ fallback : primary' = {i}
  /\ fallback' = {}
  /\ UNCHANGED requested

\* A commit shows the fallback: the primary instance (if any) stays hidden
\* and mounted; the fallback instance is kept while the boundary stays timed
\* out and is a new one otherwise.
ShowFallback ==
  /\ view' = "fallback"
  /\ shown' = requested
  /\ primary' = primary
  /\ \/ view = "fallback" /\ fallback' = fallback
     \/ view # "fallback" /\ \E j \in Insts \ primary : fallback' = {j}
  /\ UNCHANGED requested

Next ==
  \/ \E p \in Props : Request(p)
  \/ ShowPrimary
  \/ ShowFallback

Spec == Init /\ [][Next]_vars

=============================================================================
