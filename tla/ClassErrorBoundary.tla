--------------------------- MODULE ClassErrorBoundary ---------------------------
(***************************************************************************)
(* A class component used as an error boundary around one child.          *)
(*                                                                         *)
(* Source: packages/react-reconciler/src/ReactFiberBeginWork.js:           *)
(* updateClassComponent, finishClassComponent, markRef,                    *)
(* forceUnmountCurrentAndReconcile and reconcileChildren.  The class       *)
(* lifecycle (updateClassInstance), the child reconciler, the unwind that  *)
(* marks the boundary DidCapture and the commit live outside src/ and are  *)
(* modelled from spec.md sections 4.1, 7 and 8.                            *)
(*                                                                         *)
(* The boundary renders one child of a single component type, with normal  *)
(* props while its state is "ok" and with fallback props while it is       *)
(* "error": the two child sets have the same type and key, which is the    *)
(* case forceUnmountCurrentAndReconcile exists for.  The child throws when *)
(* it renders normal props and either the external data is broken or its   *)
(* own state went "bad".  Two static choices of the boundary class are     *)
(* state: whether it defines getDerivedStateFromError (else it is a legacy *)
(* boundary whose componentDidCatch calls setState), and its               *)
(* shouldComponentUpdate ("none", or "stateOnly": re-render only when its  *)
(* state changed).                                                         *)
(***************************************************************************)
EXTENDS Integers, FiniteSets

CONSTANTS
  Nil,        \* null
  Refs,       \* ref objects the parent may attach to the boundary
  MaxInsts,   \* number of child instance identities
  MaxEvents   \* bound on parent renders and setState calls

InstId == 1..MaxInsts
ChildRec == [props: {"normal", "fallback"}, inst: InstId, state: {"good", "bad"}]

VARIABLES
  gdsfe,          \* the boundary class defines getDerivedStateFromError
  scu,            \* its shouldComponentUpdate: "none" or "stateOnly"
  broken,         \* the data the child reads makes its normal render throw
  cur,            \* committed boundary fiber [state, ref, child] or Nil
  wip,            \* work-in-progress boundary fiber, or Nil when idle
  pendingRef,     \* the ref of the element the parent last rendered
  parentDirty,    \* the parent rendered a new element since the last render
  boundaryUpdate, \* the boundary's pending setState ("ok", "error") or Nil
  childUpdate,    \* the committed child's pending setState or Nil
  attached,       \* the ref the boundary instance is attached to, or Nil
  mounted,        \* child instances whose mount was committed
  threw,          \* child instances that threw during the current render
  caught,         \* an error was caught and its fallback is not yet shown
  events          \* environment events so far (model bound only)

vars == <<gdsfe, scu, broken, cur, wip, pendingRef, parentDirty, boundaryUpdate,
          childUpdate, attached, mounted, threw, caught, events>>

-----------------------------------------------------------------------------
(* The child reconciler (ReactChildFiber.js, not under src/; spec.md 4.1). *)

\* Mutant: instance ids counted from 0.
FreshInstFromZero == CHOOSE i \in 0..MaxInsts : i \notin mounted \cup threw
\* A new instance identity: not mounted, and not one discarded by an
\* unwind of this render.
FreshInst == CHOOSE i \in InstId : i \notin mounted \cup threw

\* reconcileChildFibers for one element (child props) or null against the
\* current child curChild: a current child of the same type is reused with
\* its instance and state; otherwise a new instance is created.  Replaced
\* current children are recorded as deletions when `track`.
ReconcileChildFibers(curChild, elem, track) ==
  CASE elem = Nil ->
         [child |-> Nil, dels |-> IF track /\ curChild # Nil THEN {curChild.inst} ELSE {}]
    [] curChild # Nil ->
         [child |-> [curChild EXCEPT !.props = elem], dels |-> {}]
    [] OTHER ->
         [child |-> [props |-> elem, inst |-> FreshInst, state |-> "good"], dels |-> {}]

-----------------------------------------------------------------------------
(* ReactFiberBeginWork.js                                                  *)

\* reconcileChildren: mountChildFibers without a current fiber.
ReconcileChildren(elem) ==
  IF cur = Nil THEN ReconcileChildFibers(Nil, elem, FALSE)
  ELSE ReconcileChildFibers(cur.child, elem, TRUE)

\* Mutant: the first pass, which deletes the current children, is dropped.
ForceUnmountNoDelete(elem) ==
  ReconcileChildFibers(Nil, elem, TRUE)

\* forceUnmountCurrentAndReconcile: delete every current child, then mount
\* the new children as if there were no current ones.
ForceUnmountCurrentAndReconcile(elem) ==
  LET r1 == ReconcileChildFibers(cur.child, Nil, TRUE)
      r2 == ReconcileChildFibers(Nil, elem, TRUE)
  IN [child |-> r2.child, dels |-> r1.dels \cup r2.dels]

\* markRef: a Ref effect when mounting with a ref or when the ref changed.
MarkRef(w) ==
  \/ cur = Nil /\ w.ref # Nil
  \/ cur # Nil /\ cur.ref # w.ref

\* instance.render(): the child with normal or fallback props.
RenderBoundary(state) == IF state = "error" THEN "fallback" ELSE "normal"

\* The bailout of a class that does not update: the current child is cloned
\* and worked on only if it has pending work.
BailoutOnAlreadyFinishedWork(w) ==
  [w EXCEPT !.child = cur.child,
            !.phase = IF childUpdate # Nil THEN "child" ELSE "done"]

\* The re-render and reconcile half of finishClassComponent.
RenderAndReconcile(w) ==
  LET nextChildren == IF w.captured /\ ~gdsfe THEN Nil ELSE RenderBoundary(w.state)
      r == IF cur # Nil /\ w.captured THEN ForceUnmountCurrentAndReconcile(nextChildren)
           ELSE ReconcileChildren(nextChildren)
  IN [w EXCEPT !.child = r.child, !.dels = @ \cup r.dels,
               !.phase = IF r.child = Nil THEN "done" ELSE "child"]

\* Mutant: markRef moved below the shouldComponentUpdate bailout.
FinishClassComponentLateRef(w, shouldUpdate) ==
  IF ~shouldUpdate /\ ~w.captured THEN BailoutOnAlreadyFinishedWork(w)
  ELSE RenderAndReconcile([w EXCEPT !.refEffect = MarkRef(w)])

\* Mutant: a captured error does not force a re-render.
FinishClassComponentBailOnCapture(w, shouldUpdate) ==
  LET w1 == [w EXCEPT !.refEffect = MarkRef(w)]
  IN IF ~shouldUpdate THEN BailoutOnAlreadyFinishedWork(w1) ELSE RenderAndReconcile(w1)

\* Mutant: the children are reconciled normally after a captured error.
FinishClassComponentNoForce(w, shouldUpdate) ==
  LET w1 == [w EXCEPT !.refEffect = MarkRef(w)]
      nextChildren == IF w1.captured /\ ~gdsfe THEN Nil ELSE RenderBoundary(w1.state)
      r == ReconcileChildren(nextChildren)
  IN IF ~shouldUpdate /\ ~w1.captured THEN BailoutOnAlreadyFinishedWork(w1)
     ELSE [w1 EXCEPT !.child = r.child, !.dels = @ \cup r.dels,
                     !.phase = IF r.child = Nil THEN "done" ELSE "child"]

\* finishClassComponent: mark the ref, bail out when the class does not
\* update and no error was captured, else render (null children for a
\* captured error without getDerivedStateFromError) and reconcile, never
\* reusing the current children after a captured error.
FinishClassComponent(w, shouldUpdate) ==
  LET w1 == [w EXCEPT !.refEffect = MarkRef(w)]
  IN IF ~shouldUpdate /\ ~w1.captured THEN BailoutOnAlreadyFinishedWork(w1)
     ELSE RenderAndReconcile(w1)

\* updateClassComponent: mount (constructClassInstance, mountClassInstance:
\* always update) or updateClassInstance, which processes the boundary's
\* update queue (its setState on the first pass, the getDerivedStateFromError
\* update after a capture) and asks shouldComponentUpdate when props or
\* state changed; then finishClassComponent.
UpdateClassComponent(w) ==
  LET firstPass    == ~w.begun
      setStateUpd  == firstPass /\ boundaryUpdate # Nil
      capturedUpd  == w.captured /\ gdsfe
      nextState    == CASE capturedUpd -> "error"
                        [] setStateUpd -> boundaryUpdate
                        [] OTHER       -> w.state
      changed      == w.propsChanged \/ setStateUpd \/ capturedUpd
      shouldUpdate == \/ cur = Nil
                      \/ changed /\ (scu = "none" \/ nextState # w.state)
  IN FinishClassComponent([w EXCEPT !.state = nextState, !.propsChanged = FALSE,
                                    !.begun = TRUE], shouldUpdate)

-----------------------------------------------------------------------------
(* Work loop, unwind and commit (spec.md 2, 7 and 8).                      *)

\* The state the child renders with: the committed child's pending
\* setState applies to its instance.
ChildState(c) ==
  IF childUpdate # Nil /\ cur # Nil /\ cur.child # Nil /\ c.inst = cur.child.inst
  THEN childUpdate ELSE c.state

Throws(c) == c.props = "normal" /\ (broken \/ ChildState(c) = "bad")

\* The root starts a render of the boundary when something is pending.
StartRender ==
  /\ wip = Nil
  /\ cur = Nil \/ parentDirty \/ boundaryUpdate # Nil \/ childUpdate # Nil
  /\ wip' = [state |-> IF cur = Nil THEN "ok" ELSE cur.state, ref |-> pendingRef,
             propsChanged |-> parentDirty, begun |-> FALSE, captured |-> FALSE,
             refEffect |-> FALSE, child |-> IF cur = Nil THEN Nil ELSE cur.child,
             dels |-> {}, phase |-> "boundary"]
  /\ parentDirty' = FALSE
  /\ threw' = {}
  /\ UNCHANGED <<gdsfe, scu, broken, cur, pendingRef, boundaryUpdate, childUpdate,
                 attached, mounted, caught, events>>

\* beginWork on the boundary.
BeginBoundary ==
  /\ wip # Nil /\ wip.phase = "boundary"
  /\ wip' = UpdateClassComponent(wip)
  /\ UNCHANGED <<gdsfe, scu, broken, cur, pendingRef, parentDirty, boundaryUpdate,
                 childUpdate, attached, mounted, threw, caught, events>>

\* beginWork on the child: it renders and completes.
RenderChild ==
  /\ wip # Nil /\ wip.phase = "child"
  /\ ~Throws(wip.child)
  /\ wip' = [wip EXCEPT !.child.state = ChildState(wip.child), !.phase = "done"]
  /\ UNCHANGED <<gdsfe, scu, broken, cur, pendingRef, parentDirty, boundaryUpdate,
                 childUpdate, attached, mounted, threw, caught, events>>

\* The child's render throws: the unwind marks the boundary DidCapture
\* (with the getDerivedStateFromError update when it has one), drops its
\* effect list and restarts work at it.
ThrowException ==
  /\ wip # Nil /\ wip.phase = "child"
  /\ Throws(wip.child)
  /\ wip' = [wip EXCEPT !.captured = TRUE, !.dels = {}, !.phase = "boundary"]
  /\ threw' = threw \cup {wip.child.inst}
  /\ caught' = TRUE
  /\ UNCHANGED <<gdsfe, scu, broken, cur, pendingRef, parentDirty, boundaryUpdate,
                 childUpdate, attached, mounted, events>>

FallbackIn(c) == c # Nil /\ c.props = "fallback"

\* commitRoot: deletions unmount, the new child mounts, the Ref effect
\* detaches the old ref and attaches the new one, and a legacy boundary's
\* componentDidCatch calls setState with the error state.
Commit ==
  /\ wip # Nil /\ wip.phase = "done"
  /\ cur' = [state |-> wip.state, ref |-> wip.ref, child |-> wip.child]
  /\ mounted' = (mounted \ wip.dels) \cup (IF wip.child = Nil THEN {} ELSE {wip.child.inst})
  /\ attached' = IF wip.refEffect THEN wip.ref ELSE attached
  /\ boundaryUpdate' = IF wip.captured /\ ~gdsfe THEN "error" ELSE Nil
  /\ childUpdate' = Nil
  /\ caught' = (caught /\ ~FallbackIn(wip.child))
  /\ wip' = Nil
  /\ UNCHANGED <<gdsfe, scu, broken, pendingRef, parentDirty, threw, events>>

\* The parent renders a new boundary element with ref r.
ParentRender(r) ==
  /\ wip = Nil
  /\ events < MaxEvents
  /\ pendingRef' = r
  /\ parentDirty' = TRUE
  /\ events' = events + 1
  /\ UNCHANGED <<gdsfe, scu, broken, cur, wip, boundaryUpdate, childUpdate,
                 attached, mounted, threw, caught>>

\* The committed child calls setState.
ChildSetState(s) ==
  /\ wip = Nil
  /\ cur # Nil /\ cur.child # Nil
  /\ events < MaxEvents
  /\ childUpdate' = s
  /\ events' = events + 1
  /\ UNCHANGED <<gdsfe, scu, broken, cur, wip, pendingRef, parentDirty,
                 boundaryUpdate, attached, mounted, threw, caught>>

\* The fallback's "try again" button: the boundary resets its state.
ResetBoundary ==
  /\ wip = Nil
  /\ cur # Nil /\ cur.state = "error"
  /\ events < MaxEvents
  /\ boundaryUpdate' = "ok"
  /\ events' = events + 1
  /\ UNCHANGED <<gdsfe, scu, broken, cur, wip, pendingRef, parentDirty,
                 childUpdate, attached, mounted, threw, caught>>

Init ==
  /\ gdsfe \in BOOLEAN
  /\ scu \in {"none", "stateOnly"}
  /\ broken \in BOOLEAN
  /\ cur = Nil
  /\ wip = Nil
  /\ pendingRef \in Refs \cup {Nil}
  /\ parentDirty = FALSE
  /\ boundaryUpdate = Nil
  /\ childUpdate = Nil
  /\ attached = Nil
  /\ mounted = {}
  /\ threw = {}
  /\ caught = FALSE
  /\ events = 0

Next ==
  \/ StartRender
  \/ BeginBoundary
  \/ RenderChild
  \/ ThrowException
  \/ Commit
  \/ \E r \in Refs \cup {Nil} : ParentRender(r)
  \/ \E s \in {"good", "bad"} : ChildSetState(s)
  \/ ResetBoundary

\* The work loop runs to completion once a render is pending (synchronous
\* mode); the parent and the components' setState calls are not fair.
Fairness ==
  /\ WF_vars(StartRender)
  /\ WF_vars(BeginBoundary)
  /\ WF_vars(RenderChild)
  /\ WF_vars(ThrowException)
  /\ WF_vars(Commit)

Spec == Init /\ [][Next]_vars /\ Fairness

-----------------------------------------------------------------------------
(* Properties.                                                             *)

TypeOK ==
  /\ gdsfe \in BOOLEAN /\ broken \in BOOLEAN
  /\ cur \in [state: {"ok", "error"}, ref: Refs \cup {Nil}, child: ChildRec \cup {Nil}] \cup {Nil}
  /\ wip = Nil \/ wip.child \in ChildRec \cup {Nil}
  /\ mounted \subseteq InstId
  /\ threw \subseteq InstId
  /\ boundaryUpdate \in {"ok", "error", Nil}
  /\ childUpdate \in {"good", "bad", Nil}
  /\ events \in 0..MaxEvents

\* The mounted child instances are exactly the committed child: every
\* child replaced by a re-render or by forceUnmountCurrentAndReconcile was
\* unmounted by a deletion effect, and no child is mounted twice.
MountedMatchesCommitted ==
  mounted = IF cur = Nil \/ cur.child = Nil THEN {} ELSE {cur.child.inst}

\* A commit never leaves an instance that threw during the render mounted:
\* after a captured error the normal children are not reused for the
\* fallback even though type and key match (finishClassComponent's
\* forceUnmountCurrentAndReconcile), and a child that threw on mount never
\* mounts (spec.md 8, the Boundary{Broken} scenario).
ThrownInstancesUnmounted ==
  [][Commit => threw \cap mounted' = {}]_vars

\* The boundary instance is attached to the ref of the committed element,
\* also when shouldComponentUpdate returned false for that element
\* ("Refs should update even if shouldComponentUpdate returns false").
RefAttachedToCommitted ==
  cur # Nil => attached = cur.ref

\* Once a child's error is caught, the boundary eventually commits its
\* fallback: by getDerivedStateFromError in the captured pass, or by the
\* setState of componentDidCatch after null children were committed.
CaughtErrorShowsFallback ==
  caught ~> (~caught /\ cur # Nil /\ FallbackIn(cur.child))

=============================================================================
