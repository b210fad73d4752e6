--------------------------- MODULE SuspenseBoundary ---------------------------
(***************************************************************************)
(* A Suspense boundary reconciled by the fiber work loop.                  *)
(*                                                                         *)
(* Source: packages/react-reconciler/src/ReactFiberBeginWork.js:           *)
(* updateSuspenseComponent, the Suspense case of beginWork's bailout,      *)
(* bailoutOnAlreadyFinishedWork, updateFragment, updateFunctionComponent   *)
(* and reconcileChildren.  The collaborators that live outside src/        *)
(* (createWorkInProgress, reconcileChildFibers, cloneChildFibers, the work *)
(* loop, the Suspense unwind and the commit) are modelled from spec.md.    *)
(*                                                                         *)
(* Fibers live in a heap `fiber` indexed by Fid: each logical node has at  *)
(* most two slots cross-linked through `alternate` (the double buffer of   *)
(* spec.md section 9).  The boundary's children are a Primary and a        *)
(* Fallback function component (a leaf with a stateful instance), wrapped  *)
(* in two Fragment fibers while the boundary is timed out.  Suspense state *)
(* records live in a second heap `sstate` so that the code's identity      *)
(* tests (nextState === current.memoizedState) keep their meaning.         *)
(***************************************************************************)
EXTENDS Integers, FiniteSets

CONSTANTS
  Nil,        \* the null pointer
  Props,      \* distinct props objects the root may pass to the boundary
  MaxFibers,  \* size of the fiber heap
  MaxInsts,   \* number of component instance identities
  MaxStates,  \* size of the SuspenseState heap
  MaxEvents   \* bound on external updates (props, setState, retries)

ASSUME Props # {} /\ \A n \in {MaxFibers, MaxInsts, MaxStates, MaxEvents} : n \in Nat

Fid    == 1..MaxFibers
InstId == 1..MaxInsts
SId    == 1..MaxStates

ContentTags == {"Primary", "Fallback"}
Tags == {"Suspense", "Fragment"} \cup ContentTags

\* A React element: its component type and the boundary props it came from;
\* two elements are the same object iff both parts agree.
Elem(type, tok) == [type |-> type, tok |-> tok]
PropsVal == Props \cup {Elem(t, p) : t \in ContentTags, p \in Props} \cup {Nil}

FiberRec == [tag: Tags \cup {"Free"}, pendingProps: PropsVal,
             memoizedProps: PropsVal, child: Fid \cup {Nil},
             sibling: Fid \cup {Nil}, alternate: Fid \cup {Nil},
             state: SId \cup {Nil}, inst: InstId \cup {Nil},
             dels: SUBSET Fid, work: BOOLEAN, fresh: BOOLEAN]

FreeFiber == [tag |-> "Free", pendingProps |-> Nil, memoizedProps |-> Nil,
              child |-> Nil, sibling |-> Nil, alternate |-> Nil,
              state |-> Nil, inst |-> Nil, dels |-> {}, work |-> FALSE,
              fresh |-> FALSE]

VARIABLES
  fiber,      \* the fiber heap: Fid -> FiberRec ("Free" slots are unallocated)
  sstate,     \* SuspenseState heap: SId -> record or Nil
  curRoot,    \* the committed boundary fiber (root.current), or Nil
  wipRoot,    \* the work-in-progress boundary, or Nil when idle
  next,       \* nextUnitOfWork of the work loop
  rootProps,  \* the props the root will render the boundary with
  mounted,    \* instances whose mount was committed and not yet unmounted
  events      \* external updates so far (model bound only)

vars == <<fiber, sstate, curRoot, wipRoot, next, rootProps, mounted, events>>

-----------------------------------------------------------------------------
(* Reachability in the heap.                                               *)

TreeEdges(h, f) == {h[f].child, h[f].sibling} \ {Nil}
LiveEdges(h, f) == ({h[f].child, h[f].sibling, h[f].alternate} \ {Nil}) \cup h[f].dels

RECURSIVE TreeReach(_, _)
TreeReach(h, S) ==
  LET S2 == S \cup UNION {TreeEdges(h, f) : f \in S}
  IN IF S2 = S THEN S ELSE TreeReach(h, S2)

RECURSIVE LiveReach(_, _)
LiveReach(h, S) ==
  LET S2 == S \cup UNION {LiveEdges(h, f) : f \in S}
  IN IF S2 = S THEN S ELSE LiveReach(h, S2)

RECURSIVE SiblingReach(_, _)
SiblingReach(h, S) ==
  LET S2 == S \cup {h[f].sibling : f \in {g \in S : h[g].sibling # Nil}}
  IN IF S2 = S THEN S ELSE SiblingReach(h, S2)

\* The fibers of the tree rooted at r (r, its children, their siblings ...).
Tree(h, r) == IF r = Nil THEN {} ELSE TreeReach(h, {r})
\* The sibling run starting at f.
SiblingsFrom(h, f) == IF f = Nil THEN {} ELSE SiblingReach(h, {f})
\* f and everything below it (not its siblings).
SubtreeOf(h, f) == {f} \cup Tree(h, h[f].child)
InstsOf(h, S) == {h[f].inst : f \in S} \ {Nil}

\* Garbage collection: a slot no root reaches through child, sibling,
\* alternate or a pending deletion is free again; so is an unreferenced
\* SuspenseState.  Abstracts the JS heap, whose collection is unobservable.
Collect(h, roots) ==
  LET live == LiveReach(h, roots \ {Nil})
  IN [f \in Fid |-> IF f \in live THEN h[f] ELSE FreeFiber]
CollectStates(h, ss) ==
  [s \in SId |-> IF \E f \in Fid : h[f].state = s THEN ss[s] ELSE Nil]
Settle(h, ss, roots) ==
  LET h2 == Collect(h, roots)
  IN /\ fiber' = h2
     /\ sstate' = CollectStates(h2, ss)

NewId(h) == CHOOSE f \in Fid : h[f].tag = "Free"
\* Mutant: instance ids counted from 0.
FreshInstFromZero(h) == CHOOSE i \in 0..MaxInsts : i \notin mounted /\ \A f \in Fid : h[f].inst # i
FreshInst(h) == CHOOSE i \in InstId : i \notin mounted /\ \A f \in Fid : h[f].inst # i
FreshState(ss) == CHOOSE s \in SId : ss[s] = Nil
NewFiber(tag, props, inst) ==
  [FreeFiber EXCEPT !.tag = tag, !.pendingProps = props, !.inst = inst]

-----------------------------------------------------------------------------
(* Work node store and child reconciler (ReactFiber.js, ReactChildFiber.js *)
(* are not under src/: modelled from spec.md sections 3 and 4.1).          *)

\* createWorkInProgress reuses the alternate when there is one.
CWIPId(h, c) == IF h[c].alternate # Nil THEN h[c].alternate ELSE NewId(h)

\* Clone current fiber c into its alternate slot with new pending props:
\* child, sibling, memoized props and state, instance and pending work are
\* copied; the effect list (pending deletions) is reset.  `fresh` records
\* whether pendingProps is an object created by this render (a new element),
\* which is never === to what the current fiber memoized.
CreateWorkInProgress(h, c, props) ==
  LET w == CWIPId(h, c)
  IN [h EXCEPT ![w] = [h[c] EXCEPT !.pendingProps = props, !.alternate = c,
                                   !.dels = {}, !.fresh = FALSE],
               ![c].alternate = w]

\* Record deletion effects for the sibling run starting at cur.
DeleteRemainingChildren(h, ret, cur, track) ==
  IF track /\ cur # Nil THEN [h EXCEPT ![ret].dels = @ \cup SiblingsFrom(h, cur)]
  ELSE h

\* reconcileChildFibers / mountChildFibers for a single unkeyed element or
\* null: a current child of the same type is reused through its alternate,
\* any other current child is deleted and a new fiber with a new instance is
\* created.  Deletions are tracked only when `track` (reconcileChildFibers).
ReconcileChildFibers(h, ret, cur, elem, track) ==
  IF elem = Nil
  THEN [heap |-> DeleteRemainingChildren(h, ret, cur, track), first |-> Nil]
  ELSE IF cur # Nil /\ h[cur].tag = elem.type
  THEN LET h1 == DeleteRemainingChildren(h, ret, h[cur].sibling, track)
           w  == CWIPId(h1, cur)
           h2 == CreateWorkInProgress(h1, cur, elem)
       IN [heap |-> [h2 EXCEPT ![w].sibling = Nil, ![w].fresh = TRUE], first |-> w]
  ELSE LET h1 == DeleteRemainingChildren(h, ret, cur, track)
           n  == NewId(h1)
       IN [heap |-> [h1 EXCEPT ![n] = NewFiber(elem.type, elem, FreshInst(h1))],
           first |-> n]

\* cloneChildFibers: clone the current sibling run starting at c.
\* Mutant: the clone's sibling link is written on the current fiber.
RECURSIVE CloneChainLinkCurrent(_, _)
CloneChainLinkCurrent(h, c) ==
  IF c = Nil THEN [heap |-> h, first |-> Nil]
  ELSE LET n    == CWIPId(h, c)
           h1   == CreateWorkInProgress(h, c, h[c].pendingProps)
           rest == CloneChainLinkCurrent(h1, h[c].sibling)
       IN [heap |-> [rest.heap EXCEPT ![c].sibling = rest.first], first |-> n]

RECURSIVE CloneChain(_, _)
CloneChain(h, c) ==
  IF c = Nil THEN [heap |-> h, first |-> Nil]
  ELSE LET n    == CWIPId(h, c)
           h1   == CreateWorkInProgress(h, c, h[c].pendingProps)
           rest == CloneChain(h1, h[c].sibling)
       IN [heap |-> [rest.heap EXCEPT ![n].sibling = rest.first], first |-> n]

-----------------------------------------------------------------------------
(* ReactFiberBeginWork.js                                                  *)

\* reconcileChildren: mount without side effects when there is no current.
ReconcileChildren(h, c, w, elem) ==
  IF c = Nil THEN ReconcileChildFibers(h, w, Nil, elem, FALSE)
  ELSE ReconcileChildFibers(h, w, h[c].child, elem, TRUE)

\* The children of w have pending work (childExpirationTime <= render time).
HasChildWork(h, w) == \E f \in Tree(h, h[w].child) : h[f].work

\* bailoutOnAlreadyFinishedWork: stop, or clone the children and go on.
BailoutOnAlreadyFinishedWork(h, w) ==
  IF ~HasChildWork(h, w) THEN [heap |-> h, next |-> Nil]
  ELSE LET r == CloneChain(h, h[w].child)
       IN [heap |-> [r.heap EXCEPT ![w].child = r.first], next |-> r.first]

\* beginWork's fast-path condition: same props object and no own work.
CanBailout(h, w) ==
  LET c == h[w].alternate
  IN c # Nil /\ ~h[w].fresh /\ h[c].memoizedProps = h[w].pendingProps /\ ~h[w].work

\* updateFragment: reconcile the children held in pendingProps.
UpdateFragment(h, w) ==
  LET r == ReconcileChildren(h, h[w].alternate, w, h[w].pendingProps)
  IN [heap |-> [r.heap EXCEPT ![w].child = r.first,
                             ![w].memoizedProps = h[w].pendingProps],
      next |-> r.first]

\* updateFunctionComponent for the content components: the render returns
\* no fibers of interest (a host leaf), so the component is a leaf here.
UpdateFunctionComponent(h, w) ==
  [heap |-> [h EXCEPT ![w].memoizedProps = h[w].pendingProps], next |-> Nil]

(* updateSuspenseComponent, one operator per branch of its child logic.    *)
(* Each returns the new heap, the fiber for `child` and the one for `next`.*)

\* Mutant: the fallback fragment is allocated from the heap before the
\* primary fragment was stored.
MountTimedOutStaleAlloc(h, w, nextChildren) ==
  LET pf == NewId(h)
      h1 == [h EXCEPT ![pf] = NewFiber("Fragment", Nil, Nil)]
      ff == NewId(h)
      h2 == [h1 EXCEPT ![ff] = NewFiber("Fragment", nextChildren, Nil)]
  IN [heap |-> [h2 EXCEPT ![pf].sibling = ff], child |-> pf, next |-> ff]

\* Initial mount, timed out: empty primary fragment, fallback fragment.
MountTimedOut(h, w, nextChildren) ==
  LET pf == NewId(h)
      h1 == [h EXCEPT ![pf] = NewFiber("Fragment", Nil, Nil)]
      ff == NewId(h1)
      h2 == [h1 EXCEPT ![ff] = NewFiber("Fragment", nextChildren, Nil)]
  IN [heap |-> [h2 EXCEPT ![pf].sibling = ff], child |-> pf, next |-> ff]

\* Initial mount of the primary children without a fragment.
MountPrimary(h, w, nextChildren) ==
  LET r == ReconcileChildFibers(h, w, Nil, nextChildren, FALSE)
  IN [heap |-> r.heap, child |-> r.first, next |-> r.first]

\* Current is timed out and stays timed out: clone both fragments.
UpdateStillTimedOut(h, c, w, nextChildren) ==
  LET cpf == h[c].child
      cff == h[cpf].sibling
      pf  == CWIPId(h, cff)
      h1  == CreateWorkInProgress(h, cff, h[cff].pendingProps)
      ff  == CWIPId(h1, cff)
      h2  == CreateWorkInProgress(h1, cff, nextChildren)
  IN [heap |-> [h2 EXCEPT ![pf].sibling = ff, ![ff].fresh = TRUE],
      child |-> pf, next |-> ff]

\* Mutant: the fallback children are not deleted on unsuspend.
UpdateUnsuspendKeepFallback(h, c, w, nextChildren) ==
  LET r1 == ReconcileChildFibers(h, w, h[h[c].child].child, nextChildren, TRUE)
  IN [heap |-> r1.heap, child |-> r1.first, next |-> r1.first]

\* Mutant: the primary children are reconciled against the fragment itself.
UpdateUnsuspendAgainstFragment(h, c, w, nextChildren) ==
  LET cpf == h[c].child
      cff == h[cpf].sibling
      r1  == ReconcileChildFibers(h, w, cpf, nextChildren, TRUE)
      r2  == ReconcileChildFibers(r1.heap, w, h[cff].child, Nil, TRUE)
  IN [heap |-> r2.heap, child |-> r1.first, next |-> r1.first]

\* Current is timed out, now not: reconcile the primary children against
\* the hidden ones, delete the fallback children, drop both fragments.
UpdateUnsuspend(h, c, w, nextChildren) ==
  LET cpf == h[c].child
      cff == h[cpf].sibling
      r1  == ReconcileChildFibers(h, w, h[cpf].child, nextChildren, TRUE)
      r2  == ReconcileChildFibers(r1.heap, w, h[cff].child, Nil, TRUE)
  IN [heap |-> r2.heap, child |-> r1.first, next |-> r1.first]

\* Mutant: the two fragments are created with each other's props.
UpdateTimeOutSwappedProps(h, c, w, nextChildren) ==
  LET cp == h[c].child
      pf == NewId(h)
      h1 == [h EXCEPT ![pf] = [NewFiber("Fragment", nextChildren, Nil) EXCEPT !.child = cp]]
      ff == NewId(h1)
      h2 == [h1 EXCEPT ![ff] = NewFiber("Fragment", Nil, Nil)]
  IN [heap |-> [h2 EXCEPT ![pf].sibling = ff], child |-> pf, next |-> ff]

\* Current shows the primary children, now timed out: reparent the current
\* primary child into a new fragment, add a new fallback fragment.
UpdateTimeOut(h, c, w, nextChildren) ==
  LET cp == h[c].child
      pf == NewId(h)
      h1 == [h EXCEPT ![pf] = [NewFiber("Fragment", Nil, Nil) EXCEPT !.child = cp]]
      ff == NewId(h1)
      h2 == [h1 EXCEPT ![ff] = NewFiber("Fragment", nextChildren, Nil)]
  IN [heap |-> [h2 EXCEPT ![pf].sibling = ff], child |-> pf, next |-> ff]

\* Neither timed out: reconcile the primary children directly.
UpdateStillPrimary(h, c, w, nextChildren) ==
  LET r == ReconcileChildFibers(h, w, h[c].child, nextChildren, TRUE)
  IN [heap |-> r.heap, child |-> r.first, next |-> r.first]

\* Whether the committed state of fiber c is timed out.
DidTimeout(h, ss, c) == c # Nil /\ h[c].state # Nil /\ ss[h[c].state].didTimeout

\* Mutant: the boundary reads didTimeout where it means alreadyCaptured.
CapturedFromDidTimeout(ss, st) == st # Nil /\ ss[st].didTimeout

\* nextDidTimeout: something in the boundary suspended during this render
\* (alreadyCaptured); a state without it is dropped and the primary
\* children are tried again.
AlreadyCaptured(ss, st) == st # Nil /\ ss[st].alreadyCaptured

\* Mutant: the boundary keeps the memoized props of current.
UpdateSuspenseComponentKeepProps(h, ss, w) ==
  LET c         == h[w].alternate
      nextProps == h[w].pendingProps
      st        == h[w].state
      captured  == AlreadyCaptured(ss, st)
      nextState == IF ~captured THEN Nil
                   ELSE IF c # Nil /\ st = h[c].state THEN FreshState(ss)
                   ELSE st
      ss1 == IF ~captured THEN ss
             ELSE [ss EXCEPT ![nextState] = [alreadyCaptured |-> TRUE,
                                             didTimeout |-> TRUE]]
      nextChildren == Elem(IF captured THEN "Fallback" ELSE "Primary", nextProps)
      r == CASE c = Nil /\ captured -> MountTimedOut(h, w, nextChildren)
             [] c = Nil             -> MountPrimary(h, w, nextChildren)
             [] DidTimeout(h, ss, c) /\ captured -> UpdateStillTimedOut(h, c, w, nextChildren)
             [] DidTimeout(h, ss, c) -> UpdateUnsuspend(h, c, w, nextChildren)
             [] captured             -> UpdateTimeOut(h, c, w, nextChildren)
             [] OTHER                -> UpdateStillPrimary(h, c, w, nextChildren)
  IN [heap |-> [r.heap EXCEPT ![w].memoizedProps = h[w].memoizedProps,
                             ![w].state = nextState, ![w].child = r.child],
      ss |-> ss1, next |-> r.next]

UpdateSuspenseComponent(h, ss, w) ==
  LET c         == h[w].alternate
      nextProps == h[w].pendingProps
      st        == h[w].state
      captured  == AlreadyCaptured(ss, st)
      nextState == IF ~captured THEN Nil
                   ELSE IF c # Nil /\ st = h[c].state THEN FreshState(ss)
                   ELSE st
      ss1 == IF ~captured THEN ss
             ELSE [ss EXCEPT ![nextState] = [alreadyCaptured |-> TRUE,
                                             didTimeout |-> TRUE]]
      nextChildren == Elem(IF captured THEN "Fallback" ELSE "Primary", nextProps)
      r == CASE c = Nil /\ captured -> MountTimedOut(h, w, nextChildren)
             [] c = Nil             -> MountPrimary(h, w, nextChildren)
             [] DidTimeout(h, ss, c) /\ captured -> UpdateStillTimedOut(h, c, w, nextChildren)
             [] DidTimeout(h, ss, c) -> UpdateUnsuspend(h, c, w, nextChildren)
             [] captured             -> UpdateTimeOut(h, c, w, nextChildren)
             [] OTHER                -> UpdateStillPrimary(h, c, w, nextChildren)
  IN [heap |-> [r.heap EXCEPT ![w].memoizedProps = nextProps,
                             ![w].state = nextState, ![w].child = r.child],
      ss |-> ss1, next |-> r.next]

\* beginWork: the bailout fast path (with the Suspense case that skips the
\* primary fragment of a timed-out boundary), else clear the fiber's own
\* work and dispatch on its tag.
BeginWork(h, ss, w) ==
  IF CanBailout(h, w)
  THEN LET b == BailoutOnAlreadyFinishedWork(h, w)
           skip == h[w].tag = "Suspense" /\ b.next # Nil
                   /\ h[w].state # Nil /\ ss[h[w].state].didTimeout
       IN [heap |-> b.heap, ss |-> ss,
           next |-> IF skip THEN b.heap[b.next].sibling ELSE b.next]
  ELSE LET h0 == [h EXCEPT ![w].work = FALSE]
       IN CASE h[w].tag = "Suspense" -> UpdateSuspenseComponent(h0, ss, w)
            [] h[w].tag = "Fragment" ->
                 LET r == UpdateFragment(h0, w) IN [heap |-> r.heap, ss |-> ss, next |-> r.next]
            [] OTHER ->
                 LET r == UpdateFunctionComponent(h0, w) IN [heap |-> r.heap, ss |-> ss, next |-> r.next]

-----------------------------------------------------------------------------
(* Work loop, unwind and commit (ReactFiberScheduler.js, ReactFiberUnwind- *)
(* Work.js and ReactFiberCommitWork.js are not under src/: spec.md 2, 4.3, *)
(* 4.4 and 5).                                                             *)

\* The fiber of the work-in-progress tree whose child run contains f.
Parent(h, f) == CHOOSE p \in Tree(h, wipRoot) : f \in SiblingsFrom(h, h[p].child)

\* completeUnitOfWork: the next unit is the first sibling found walking up;
\* Nil once the boundary itself completes.
RECURSIVE CompleteUnitOfWork(_, _)
CompleteUnitOfWork(h, f) ==
  IF f = wipRoot THEN Nil
  ELSE IF h[f].sibling # Nil THEN h[f].sibling
  ELSE CompleteUnitOfWork(h, Parent(h, f))

\* performUnitOfWork: begin the next fiber; if it returns no child, complete
\* it and find the next unit.  A Primary component that renders here may
\* instead suspend (SuspendPrimary).
PerformUnitOfWork ==
  /\ next # Nil
  /\ LET b == BeginWork(fiber, sstate, next)
     IN /\ next' = IF b.next # Nil THEN b.next ELSE CompleteUnitOfWork(b.heap, next)
        /\ Settle(b.heap, b.ss, {curRoot, wipRoot})
  /\ UNCHANGED <<curRoot, wipRoot, rootProps, mounted, events>>

\* The primary component throws a not-ready signal while rendering: the
\* unwind marks the nearest boundary captured (cloning a state shared with
\* current), schedules it at the render time, drops its effect list and
\* restarts work at it.
SuspendPrimary ==
  /\ next # Nil
  /\ fiber[next].tag = "Primary"
  /\ ~CanBailout(fiber, next)
  /\ LET b  == wipRoot
         c  == fiber[b].alternate
         st == fiber[b].state
         ns == IF st = Nil \/ (c # Nil /\ st = fiber[c].state) THEN FreshState(sstate) ELSE st
         rec == [alreadyCaptured |-> TRUE,
                 didTimeout |-> IF st = Nil THEN FALSE ELSE sstate[st].didTimeout]
     IN /\ Settle([fiber EXCEPT ![b].state = ns, ![b].work = TRUE, ![b].dels = {}],
                  [sstate EXCEPT ![ns] = rec], {curRoot, wipRoot})
        /\ next' = b
  /\ UNCHANGED <<curRoot, wipRoot, rootProps, mounted, events>>

\* commitRoot: run the deletions (unmounting their instances), mount the
\* new instances, clear alreadyCaptured of a timed-out boundary, and make
\* the work-in-progress tree current.
Commit ==
  /\ wipRoot # Nil /\ next = Nil
  /\ LET tree    == Tree(fiber, wipRoot)
         gone    == UNION {SubtreeOf(fiber, d) : d \in UNION {fiber[f].dels : f \in tree}}
         st      == fiber[wipRoot].state
         ss1     == IF st # Nil /\ sstate[st].didTimeout
                    THEN [sstate EXCEPT ![st].alreadyCaptured = FALSE] ELSE sstate
         h1      == [f \in Fid |-> IF f \in tree THEN [fiber[f] EXCEPT !.dels = {}] ELSE fiber[f]]
     IN /\ mounted' = (mounted \ InstsOf(fiber, gone)) \cup InstsOf(fiber, tree)
        /\ Settle(h1, ss1, {wipRoot})
  /\ curRoot' = wipRoot
  /\ wipRoot' = Nil
  /\ UNCHANGED <<next, rootProps, events>>

\* The driver discards the work-in-progress tree at a yield point.
Abandon ==
  /\ wipRoot # Nil
  /\ wipRoot' = Nil
  /\ next' = Nil
  /\ Settle(fiber, sstate, {curRoot})
  /\ UNCHANGED <<curRoot, rootProps, mounted, events>>

-----------------------------------------------------------------------------
(* Updates and the start of a render.                                      *)

\* The root is given new props for the boundary.
UpdateContainer(p) ==
  /\ wipRoot = Nil
  /\ p # rootProps
  /\ events < MaxEvents
  /\ rootProps' = p
  /\ events' = events + 1
  /\ UNCHANGED <<fiber, sstate, curRoot, wipRoot, next, mounted>>

\* Mark fiber f and its alternate as having pending work (scheduleWork).
MarkWork(h, f) ==
  IF h[f].alternate = Nil THEN [h EXCEPT ![f].work = TRUE]
  ELSE [h EXCEPT ![f].work = TRUE, ![h[f].alternate].work = TRUE]

\* The data a timed-out boundary waited for arrives: retry the boundary.
ScheduleRetry ==
  /\ wipRoot = Nil
  /\ DidTimeout(fiber, sstate, curRoot)
  /\ ~fiber[curRoot].work
  /\ events < MaxEvents
  /\ fiber' = MarkWork(fiber, curRoot)
  /\ events' = events + 1
  /\ UNCHANGED <<sstate, curRoot, wipRoot, next, rootProps, mounted>>

\* A committed content component calls setState.
SetState(f) ==
  /\ wipRoot = Nil
  /\ f \in Tree(fiber, curRoot)
  /\ fiber[f].tag \in ContentTags
  /\ ~fiber[f].work
  /\ events < MaxEvents
  /\ fiber' = MarkWork(fiber, f)
  /\ events' = events + 1
  /\ UNCHANGED <<sstate, curRoot, wipRoot, next, rootProps, mounted>>

PendingWork ==
  IF curRoot = Nil THEN TRUE
  ELSE rootProps # fiber[curRoot].memoizedProps \/ \E f \in Tree(fiber, curRoot) : fiber[f].work

\* The root begins a render: the boundary is cloned (or created on mount).
StartRender ==
  /\ wipRoot = Nil
  /\ PendingWork
  /\ LET w  == IF curRoot = Nil THEN NewId(fiber) ELSE CWIPId(fiber, curRoot)
         h1 == IF curRoot = Nil
               THEN [fiber EXCEPT ![w] = NewFiber("Suspense", rootProps, Nil)]
               ELSE CreateWorkInProgress(fiber, curRoot, rootProps)
     IN /\ fiber' = h1
        /\ wipRoot' = w
        /\ next' = w
  /\ UNCHANGED <<sstate, curRoot, rootProps, mounted, events>>

-----------------------------------------------------------------------------

Init ==
  /\ fiber = [f \in Fid |-> FreeFiber]
  /\ sstate = [s \in SId |-> Nil]
  /\ curRoot = Nil
  /\ wipRoot = Nil
  /\ next = Nil
  /\ rootProps \in Props
  /\ mounted = {}
  /\ events = 0

Next ==
  \/ PerformUnitOfWork
  \/ SuspendPrimary
  \/ Commit
  \/ Abandon
  \/ \E p \in Props : UpdateContainer(p)
  \/ ScheduleRetry
  \/ \E f \in Fid : SetState(f)
  \/ StartRender

Spec == Init /\ [][Next]_vars

\* Weak fairness of the work loop's two steps, with their enabling
\* conditions written out (PerformUnitOfWork's only guard is next # Nil,
\* Commit's is a completed tree): workLoop keeps calling performUnitOfWork
\* while nextUnitOfWork is set, and a completed root is committed
\* (synchronous rendering).  Suspending, abandoning and the container's and
\* components' updates are inputs and are never forced.
WorkLoopRuns == <>[](next # Nil) => []<><<PerformUnitOfWork>>_vars
CommitRuns == <>[](wipRoot # Nil /\ next = Nil) => []<><<Commit>>_vars

Fairness == WorkLoopRuns /\ CommitRuns

FairSpec == Spec /\ Fairness

-----------------------------------------------------------------------------
(* Properties.                                                             *)

TypeOK ==
  /\ fiber \in [Fid -> FiberRec]
  /\ sstate \in [SId -> [alreadyCaptured: BOOLEAN, didTimeout: BOOLEAN] \cup {Nil}]
  /\ curRoot \in Fid \cup {Nil}
  /\ wipRoot \in Fid \cup {Nil}
  /\ next \in Fid \cup {Nil}
  /\ rootProps \in Props
  /\ mounted \subseteq InstId
  /\ events \in 0..MaxEvents

CommittedTree == Tree(fiber, curRoot)
CommittedTimedOut == DidTimeout(fiber, sstate, curRoot)
InstsWithTag(t) == {fiber[f].inst : f \in {g \in CommittedTree : fiber[g].tag = t}}

\* Every instance whose mount was committed is still in the committed tree,
\* and every instance in the committed tree was mounted: reconciliation
\* never drops a child without a deletion effect (reparenting the primary
\* children into a fragment, deleting the fallback on unsuspend).
MountedMatchesCommittedTree == mounted = InstsOf(fiber, CommittedTree)

\* The committed boundary shows its fallback exactly when its state says it
\* timed out; otherwise its primary component is its direct child and no
\* fallback instance is mounted.
VisibleMatchesState ==
  curRoot # Nil =>
    /\ CommittedTimedOut <=> InstsWithTag("Fallback") # {}
    /\ ~CommittedTimedOut => fiber[fiber[curRoot].child].tag = "Primary"

\* The fields of the committed tree that rendering may never write.
CommittedView ==
  [f \in CommittedTree |->
     <<fiber[f].tag, fiber[f].child, fiber[f].sibling, fiber[f].memoizedProps,
       fiber[f].inst, IF fiber[f].state = Nil THEN Nil ELSE sstate[fiber[f].state]>>]

\* Rendering, suspending and abandoning never change the committed tree:
\* only a commit does (spec.md 5: discarding work must not touch current).
CurrentUntouchedByRender ==
  [][Commit \/ CommittedView' = CommittedView]_vars

\* A primary instance, once mounted, is never unmounted: suspending and
\* resuming keep the primary children's state (spec.md 4.3).
PrimaryNeverRemounted ==
  [][\A i \in mounted \cap InstsWithTag("Primary") : i \in mounted']_vars

\* The work-in-progress fibers form a tree: no fiber is its own descendant
\* or younger sibling, and none has two parents (spec.md 3, tree links).
WorkInProgressIsTree ==
  \A f \in Tree(fiber, wipRoot) :
    /\ f \notin Tree(fiber, fiber[f].child) \cup Tree(fiber, fiber[f].sibling)
    /\ \A g \in Tree(fiber, wipRoot) \ {f} :
         fiber[f].child = Nil \/ fiber[f].child \notin SiblingsFrom(fiber, fiber[g].child)

\* A render, once started, is eventually committed or discarded: a primary
\* child that suspends every time it renders does not make the boundary
\* retry it forever, because the unwind marks the boundary alreadyCaptured
\* and the second pass renders the fallback.
RenderFinishes == wipRoot # Nil ~> wipRoot = Nil

-----------------------------------------------------------------------------
(* Refinement of SuspenseAbstract.                                         *)

ShownContent ==
  IF curRoot = Nil THEN "none"
  ELSE IF CommittedTimedOut THEN "fallback" ELSE "primary"

Abstract == INSTANCE SuspenseAbstract WITH
  Insts     <- InstId,
  requested <- rootProps,
  view      <- ShownContent,
  shown     <- IF curRoot = Nil THEN Nil ELSE fiber[curRoot].memoizedProps,
  primary   <- InstsWithTag("Primary"),
  fallback  <- InstsWithTag("Fallback")

\* The boundary implements SuspenseAbstract: every commit shows the props
\* the container last passed, keeps the primary instance across timing out
\* and unsuspending, keeps the fallback instance while it stays timed out,
\* and every other step (render, suspend, discard, setState, retry) leaves
\* what the user sees unchanged.
ImplementsAbstract == Abstract!Spec

=============================================================================
