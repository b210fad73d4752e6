-------------------------- MODULE ContextPropagation --------------------------
(***************************************************************************)
(* The value stack of the fiber work loop: a context provider and its      *)
(* consumers, and the host containers and host contexts of the root,       *)
(* portals and host components, reconciled by beginWork.                   *)
(*                                                                         *)
(* Source: packages/react-reconciler/src/ReactFiberBeginWork.js: beginWork *)
(* (its bailout fast path, which still pushes what a fiber provides, and   *)
(* its dispatch on the tag), updateHostRoot with pushHostRootContext,      *)
(* updateHostComponent, updateHostText, updatePortalComponent,             *)
(* updateContextProvider, updateContextConsumer, updatePureComponent,      *)
(* updateForwardRef, updateMode, updateProfiler and                        *)
(* bailoutOnAlreadyFinishedWork.  The shared value stack (ReactFiberStack), *)
(* the host context (ReactFiberHostContext), the provider stack and        *)
(* propagateContextChange (ReactFiberNewContext), completeWork, the unwind *)
(* of an interrupted render, the commit and scheduleWork live outside src/ *)
(* and are modelled from spec.md sections 2, 4.1, 4.2 and 5.               *)
(*                                                                         *)
(* The application is a constant tree of fibers (Tag, Children); it never  *)
(* changes shape, so reconciliation always reuses the current fiber.  A    *)
(* fiber holds one datum d (a provider's value, a pure component's prop,   *)
(* the value an element passes down) and two identity bits: `fresh` (its   *)
(* pendingProps is a new object, so oldProps !== newProps) and `kids`     *)
(* (its props.children is a new object).  One context is modelled, with    *)
(* the default changedBits (no calculateChangedBits, no observedBits), and *)
(* one render priority, so an expiration time is a pending-work bit.       *)
(***************************************************************************)
EXTENDS Integers, SequencesExt

CONSTANTS
  Nil,           \* null
  Same,          \* root.render() called again with the committed element
  Default,       \* the context's default value
  Data,          \* values a provider, a prop or a class state may hold
  InitialState,  \* the class component's initial state
  Root,          \* the HostRoot fiber
  Tag,           \* Node -> fiber tag
  Children,      \* Node -> its children, in order
  HostType,      \* host component -> its element type ("div", "svg", ...)
  ContainerInfo, \* the root and each portal -> its container instance
  ContainerNs,   \* container instance -> its namespace (getRootHostContext)
  Html, Svg,     \* the HTML and SVG namespaces
  MaxEvents      \* bound on root.render() and setState calls

Node == DOMAIN Tag
Kids(n) == ToSet(Children[n])
Containers == Range(ContainerInfo)
Namespaces == {Html, Svg}

ASSUME /\ Default \notin Data /\ InitialState \in Data /\ Root \in Node
       /\ Tag[Root] = "HostRoot" /\ MaxEvents \in Nat
       /\ ContainerNs \in [Containers -> Namespaces]

Parent(n) == CHOOSE p \in Node : n \in Kids(p)
RECURSIVE Ancestors(_)
Ancestors(n) == IF n = Root THEN {} ELSE {Parent(n)} \cup Ancestors(Parent(n))
NextSibling(n) ==
  LET s == Children[Parent(n)]
      i == CHOOSE j \in DOMAIN s : s[j] = n
  IN IF i = Len(s) THEN Nil ELSE s[i + 1]

IsProvider(n) == Tag[n] = "ContextProvider"
IsContainer(n) == Tag[n] \in {"HostRoot", "HostPortal"}
Consumers == {n \in Node : Tag[n] = "ContextConsumer"}
HostInstances == {n \in Node : Tag[n] \in {"HostComponent", "HostText"}}

\* What a host instance was created or last updated against: the root
\* container instance and the parent's host context.
Seen == [root: Containers, ns: Namespaces]

Fiber == [d: Data \cup {Nil}, kids: BOOLEAN, fresh: BOOLEAN,
          state: Data \cup {Nil}, pending: Data \cup {Nil},
          shown: Data \cup {Default, Nil}, seen: Seen \cup {Nil},
          work: BOOLEAN, childWork: BOOLEAN]
Elements == {Same} \cup [d: Data, kids: BOOLEAN]

\* The cursors that share the value stack.
CursorNames == {"value", "rootInstance", "contextFiber", "hostContext"}
StackValues == Data \cup {Default, Nil} \cup Containers \cup Namespaces \cup Node

VARIABLES
  cur,        \* the committed fibers: Node -> Fiber, or Nil if not mounted
  wip,        \* the work-in-progress fibers: Node -> Fiber, or Nil
  next,       \* nextUnitOfWork, or Nil
  ctx,        \* context._currentValue
  cursor,     \* CursorNames -> the cursor's current value
  stack,      \* valueStack: the values push saved, innermost last
  container,  \* the element of a pending root.render(), or Nil
  events      \* root.render() and setState calls so far (model bound)

vars == <<cur, wip, next, ctx, cursor, stack, container, events>>

NoWip == [n \in Node |-> Nil]

\* A fiber created by mountChildFibers; a class constructor sets the state.
Blank(n) ==
  [d |-> Nil, kids |-> TRUE, fresh |-> TRUE,
   state |-> IF Tag[n] = "ClassComponent" THEN InitialState ELSE Nil,
   pending |-> Nil, shown |-> Nil, seen |-> Nil, work |-> FALSE, childWork |-> FALSE]

-----------------------------------------------------------------------------
(* The value stack (ReactFiberStack), the host context                     *)
(* (ReactFiberHostContext) and the provider stack (ReactFiberNewContext);  *)
(* not under src/, spec.md 4.1, 4.2 and the host configuration.  A stack   *)
(* state s is [ctx, cursor, stack].                                        *)

Frame == [ctx |-> ctx, cursor |-> cursor, stack |-> stack]

\* push(cursor, value): save the cursor's value on the shared stack.
Push(s, c, v) == [s EXCEPT !.cursor[c] = v, !.stack = Append(s.stack, s.cursor[c])]

\* pop(cursor): restore the cursor from the top of the shared stack,
\* whichever cursor pushed it; an empty stack is left alone.
Pop(s, c) ==
  IF s.stack = <<>> THEN s
  ELSE [s EXCEPT !.cursor[c] = Last(s.stack), !.stack = Front(s.stack)]

PushProvider(s, v) == [Push(s, "value", s.ctx) EXCEPT !.ctx = v]
PopProvider(s) == [Pop(s, "value") EXCEPT !.ctx = s.cursor.value]

\* getChildNamespace (DOMNamespaces): an <svg> enters SVG, a
\* <foreignObject> inside SVG goes back to HTML.
ChildNs(parent, type) ==
  IF parent = Html THEN (IF type = "svg" THEN Svg ELSE Html)
  ELSE IF type = "foreignObject" THEN Html ELSE parent

\* pushHostContainer: the root instance, the fiber and the container's own
\* host context (the intermediate push and pop of NO_CONTEXT cancel out).
PushHostContainer(s, n) ==
  Push(Push(Push(s, "rootInstance", ContainerInfo[n]), "contextFiber", n),
       "hostContext", ContainerNs[ContainerInfo[n]])
PopHostContainer(s) == Pop(Pop(Pop(s, "hostContext"), "contextFiber"), "rootInstance")

\* pushHostContext pushes only when the type changes the host context;
\* popHostContext pops only if this fiber is the one that pushed.
PushHostContext(s, n) ==
  LET nc == ChildNs(s.cursor.hostContext, HostType[n])
  IN IF nc = s.cursor.hostContext THEN s
     ELSE Push(Push(s, "contextFiber", n), "hostContext", nc)
\* Mutant: the pop does not check which fiber pushed.
PopHostContextAlways(s, n) == Pop(Pop(s, "hostContext"), "contextFiber")
PopHostContext(s, n) ==
  IF s.cursor.contextFiber # n THEN s
  ELSE Pop(Pop(s, "hostContext"), "contextFiber")

\* What completeWork and unwindInterruptedWork pop for fiber n.
PopFor(s, n) ==
  CASE IsContainer(n)              -> PopHostContainer(s)
    [] Tag[n] = "HostComponent"    -> PopHostContext(s, n)
    [] IsProvider(n)               -> PopProvider(s)
    [] OTHER                       -> s

\* The fiber's root container and host context as completeWork reads them.
SeenBy(s) == [root |-> s.cursor.rootInstance, ns |-> s.cursor.hostContext]

\* The fibers propagateContextChange visits below provider p: it does not
\* descend into a nested provider of the same context.
RECURSIVE Reach(_)
Reach(n) == UNION {{c} \cup (IF IsProvider(c) THEN {} ELSE Reach(c)) : c \in Kids(n)}

\* Every committed consumer below p that read the context is marked with
\* work, and every fiber above it gets child work, on the current fibers
\* (workInProgress.child is still the current child when it runs).
PropagateContextChange(p) ==
  LET marked == {c \in Reach(p) \cap Consumers : cur[c] # Nil /\ cur[c].shown # Nil}
      above  == UNION {Ancestors(c) : c \in marked}
  IN [n \in Node |-> IF cur[n] = Nil THEN Nil
                     ELSE [cur[n] EXCEPT !.work = @ \/ n \in marked,
                                         !.childWork = @ \/ n \in above]]

-----------------------------------------------------------------------------
(* Child fibers.                                                           *)

\* reconcileChildren with one new element per child: the current child is
\* reused through createWorkInProgress; `fresh` says the element's props
\* object is new, else pendingProps === current.memoizedProps.
\* The current fibers cf are an argument: a provider reconciles after
\* propagateContextChange has marked them.
ReconcileChildrenFrom(cf, w, n, fresh, d) ==
  [c \in Node |->
     IF c \notin Kids(n) THEN w[c]
     ELSE IF cf[c] = Nil THEN [Blank(c) EXCEPT !.d = d]
     ELSE IF fresh THEN [cf[c] EXCEPT !.d = d, !.fresh = TRUE, !.kids = TRUE]
     ELSE [cf[c] EXCEPT !.fresh = FALSE, !.kids = FALSE]]
ReconcileChildren(w, n, fresh, d) == ReconcileChildrenFrom(cur, w, n, fresh, d)

\* bailoutOnAlreadyFinishedWork: with no child work the subtree is skipped;
\* otherwise cloneChildFibers copies the current children.
BailoutOnAlreadyFinishedWork(w, n) ==
  IF ~w[n].childWork THEN [w |-> w, child |-> Nil]
  ELSE [w |-> [c \in Node |-> IF c \in Kids(n)
                              THEN [cur[c] EXCEPT !.fresh = FALSE, !.kids = FALSE]
                              ELSE w[c]],
        child |-> Head(Children[n])]

\* A child reconciled by n: first child, or Nil for a leaf.
FirstChild(n) == IF Children[n] = <<>> THEN Nil ELSE Head(Children[n])

-----------------------------------------------------------------------------
(* completeUnitOfWork and the unwind (not under src/; spec.md 2 and 5).    *)

\* The fiber used as n's child c once n completes (the current one if the
\* subtree was skipped).
ChildFiber(w, c) == IF w[c] # Nil THEN w[c] ELSE cur[c]

\* completeWork(n): pop what n pushed; a host component whose props
\* changed (prepareUpdate) or that mounts (createInstance), and a host
\* text that mounts (createTextInstance), read the root container and the
\* host context.
CompleteWork(w, s, n) ==
  LET s1    == PopFor(s, n)
      reads == \/ Tag[n] \in {"HostComponent", "HostText"} /\ cur[n] = Nil
               \/ Tag[n] = "HostComponent" /\ w[n].fresh
  IN [w |-> IF reads THEN [w EXCEPT ![n].seen = SeenBy(s1)] ELSE w, s |-> s1]

\* Complete n, recompute its child work (resetChildExpirationTime), then go
\* to the next sibling, or complete the parent.
RECURSIVE CompleteUnitOfWork(_, _)
CompleteUnitOfWork(st, n) ==
  LET cw  == \E c \in Kids(n) : ChildFiber(st.w, c) # Nil /\
                               (ChildFiber(st.w, c).work \/ ChildFiber(st.w, c).childWork)
      c1  == CompleteWork([st.w EXCEPT ![n].childWork = cw], st.s, n)
      st2 == [st EXCEPT !.w = c1.w, !.s = c1.s]
  IN IF n = Root THEN [st2 EXCEPT !.next = Nil]
     ELSE IF NextSibling(n) # Nil THEN [st2 EXCEPT !.next = NextSibling(n)]
     ELSE CompleteUnitOfWork(st2, Parent(n))

\* performUnitOfWork after beginWork(n) returned `child`, with stack state s.
Continue(n, w, s, child) ==
  LET st == IF child # Nil THEN [w |-> w, s |-> s, next |-> child]
            ELSE CompleteUnitOfWork([w |-> w, s |-> s, next |-> Nil], n)
  IN /\ wip' = st.w /\ next' = st.next
     /\ ctx' = st.s.ctx /\ cursor' = st.s.cursor /\ stack' = st.s.stack

\* unwindInterruptedWork from nextUnitOfWork.return up to the root.
RECURSIVE Unwind(_, _)
Unwind(s, n) ==
  LET s1 == PopFor(s, n)
  IN IF n = Root THEN s1 ELSE Unwind(s1, Parent(n))

-----------------------------------------------------------------------------
(* ReactFiberBeginWork.js: one action per beginWork path.                  *)

\* beginWork's fast path: a current fiber, oldProps === newProps and no
\* work of its own at this priority.
CanBailout(n) == cur[n] # Nil /\ ~wip[n].fresh /\ ~wip[n].work

\* Before entering the begin phase the fiber's own work is cleared.
Cleared(n) == [wip EXCEPT ![n].work = FALSE]

\* Mutant: a portal on the fast path does not push its container.
BailoutPushNoPortal(s, n) ==
  CASE Tag[n] = "HostRoot"      -> PushHostContainer(s, n)
    [] Tag[n] = "HostComponent" -> PushHostContext(s, n)
    [] IsProvider(n)            -> PushProvider(s, wip[n].d)
    [] OTHER                    -> s

\* The bookkeeping of the fast path, so that the fibers below see a
\* consistent stack: the root and a portal push their container, a host
\* component its host context, a provider its memoized value.
BailoutPush(s, n) ==
  CASE IsContainer(n)           -> PushHostContainer(s, n)
    [] Tag[n] = "HostComponent" -> PushHostContext(s, n)
    [] IsProvider(n)            -> PushProvider(s, wip[n].d)
    [] OTHER                    -> s

\* The fast path, then bailoutOnAlreadyFinishedWork.
BeginBailout(n) ==
  /\ next = n
  /\ CanBailout(n)
  /\ LET b == BailoutOnAlreadyFinishedWork(wip, n)
     IN Continue(n, b.w, BailoutPush(Frame, n), b.child)
  /\ UNCHANGED <<cur, container, events>>

\* updateHostRoot: pushHostRootContext, then process the update queue; the
\* same element as before bails out, a new one is reconciled as the
\* root's child.
UpdateHostRoot(n) ==
  /\ next = n
  /\ Tag[n] = "HostRoot" /\ ~CanBailout(n)
  /\ LET s == PushHostContainer(Frame, n)
     IN IF container = Same
        THEN LET b == BailoutOnAlreadyFinishedWork(Cleared(n), n)
             IN Continue(n, b.w, s, b.child)
        ELSE LET w1 == [Cleared(n) EXCEPT ![n].d = container.d]
                 w2 == ReconcileChildren(w1, n, TRUE, container.d)
                 c  == FirstChild(n)
             IN Continue(n, [w2 EXCEPT ![c].kids = container.kids \/ cur[c] = Nil], s, c)
  /\ UNCHANGED <<cur, container, events>>

\* updateHostComponent: push the host context and reconcile the children
\* (no host component here has a direct text child or a hidden subtree).
UpdateHostComponent(n) ==
  /\ next = n
  /\ Tag[n] = "HostComponent" /\ ~CanBailout(n)
  /\ Continue(n, ReconcileChildren(Cleared(n), n, wip[n].kids, wip[n].d),
              PushHostContext(Frame, n), FirstChild(n))
  /\ UNCHANGED <<cur, container, events>>

\* updateHostText: memoize the text; it completes at once.
UpdateHostText(n) ==
  /\ next = n
  /\ Tag[n] = "HostText" /\ ~CanBailout(n)
  /\ Continue(n, Cleared(n), Frame, Nil)
  /\ UNCHANGED <<cur, container, events>>

\* updatePortalComponent: push the portal's container and reconcile its
\* children (reconcileChildFibers on mount: same children here).
UpdatePortalComponent(n) ==
  /\ next = n
  /\ Tag[n] = "HostPortal" /\ ~CanBailout(n)
  /\ Continue(n, ReconcileChildren(Cleared(n), n, wip[n].kids, wip[n].d),
              PushHostContainer(Frame, n), FirstChild(n))
  /\ UNCHANGED <<cur, container, events>>

\* Mutant: the new props object is pushed instead of its value.
UpdateContextProviderPushProps(n) ==
  /\ next = n
  /\ IsProvider(n) /\ ~CanBailout(n)
  /\ LET r == ReconcileChildren(Cleared(n), n, wip[n].kids, wip[n].d)
     IN Continue(n, r, PushProvider(Frame, [value |-> wip[n].d]), FirstChild(n))
  /\ UNCHANGED <<cur, container, events>>

\* Mutant: oldProps is read after memoizedProps was set to newProps.
UpdateContextProviderLateOldProps(n) ==
  /\ next = n
  /\ IsProvider(n) /\ ~CanBailout(n)
  /\ LET newValue == wip[n].d
         s  == PushProvider(Frame, newValue)
         w1 == Cleared(n)
     IN IF ~wip[n].kids
        THEN LET b == BailoutOnAlreadyFinishedWork(w1, n)
             IN Continue(n, b.w, s, b.child)
        ELSE Continue(n, ReconcileChildren(w1, n, TRUE, newValue), s, FirstChild(n))
  /\ UNCHANGED <<cur, container, events>>

\* updateContextProvider: push the new value; with unchanged value and
\* children bail out, with a changed value mark the consumers below
\* (propagateContextChange), then reconcile the children.
UpdateContextProvider(n) ==
  /\ next = n
  /\ IsProvider(n) /\ ~CanBailout(n)
  /\ LET newValue == wip[n].d
         oldProps == cur[n]
         changed  == oldProps # Nil /\ oldProps.d # newValue
         s  == PushProvider(Frame, newValue)
         w1 == Cleared(n)
     IN IF oldProps # Nil /\ ~changed /\ ~wip[n].kids
        THEN LET b == BailoutOnAlreadyFinishedWork(w1, n)
             IN /\ Continue(n, b.w, s, b.child)
                /\ UNCHANGED cur
        ELSE LET cf == IF changed THEN PropagateContextChange(n) ELSE cur
             IN /\ cur' = cf
                /\ Continue(n, ReconcileChildrenFrom(cf, w1, n, wip[n].kids, newValue),
                            s, FirstChild(n))
  /\ UNCHANGED <<container, events>>

\* updateContextConsumer: read the provider's value and render it.
UpdateContextConsumer(n) ==
  /\ next = n
  /\ Tag[n] = "ContextConsumer" /\ ~CanBailout(n)
  /\ Continue(n, [Cleared(n) EXCEPT ![n].shown = ctx], Frame, Nil)
  /\ UNCHANGED <<cur, container, events>>

\* A class component without lifecycles (processUpdateQueue and render are
\* not under src/): apply the pending setState and render its child with
\* the state.
UpdateClassComponent(n) ==
  /\ next = n
  /\ Tag[n] = "ClassComponent" /\ ~CanBailout(n)
  /\ LET st == IF wip[n].pending # Nil THEN wip[n].pending ELSE wip[n].state
         w1 == [Cleared(n) EXCEPT ![n].state = st, ![n].pending = Nil]
     IN Continue(n, ReconcileChildren(w1, n, TRUE, st), Frame, FirstChild(n))
  /\ UNCHANGED <<cur, container, events>>

\* updateMode: reconcile the children held in pendingProps.
UpdateMode(n) ==
  /\ next = n
  /\ Tag[n] = "Mode" /\ ~CanBailout(n)
  /\ Continue(n, ReconcileChildren(Cleared(n), n, wip[n].kids, wip[n].d),
              Frame, FirstChild(n))
  /\ UNCHANGED <<cur, container, events>>

\* updateProfiler: the same (its Update effect tag is not modelled).
UpdateProfiler(n) ==
  /\ next = n
  /\ Tag[n] = "Profiler" /\ ~CanBailout(n)
  /\ Continue(n, ReconcileChildren(Cleared(n), n, wip[n].kids, wip[n].d),
              Frame, FirstChild(n))
  /\ UNCHANGED <<cur, container, events>>

\* updatePureComponent: with no own work and shallowly equal props (and
\* the same ref) bail out; otherwise render the children anew.
UpdatePureComponent(n) ==
  /\ next = n
  /\ Tag[n] = "PureComponent" /\ ~CanBailout(n)
  /\ IF cur[n] # Nil /\ ~wip[n].work /\ cur[n].d = wip[n].d
     THEN LET b == BailoutOnAlreadyFinishedWork(Cleared(n), n)
          IN Continue(n, b.w, Frame, b.child)
     ELSE Continue(n, ReconcileChildren(Cleared(n), n, TRUE, wip[n].d),
                   Frame, FirstChild(n))
  /\ UNCHANGED <<cur, container, events>>

\* updateForwardRef: memoizedProps === nextProps (and the same ref) bails
\* out; otherwise call render(props, ref).
UpdateForwardRef(n) ==
  /\ next = n
  /\ Tag[n] = "ForwardRef" /\ ~CanBailout(n)
  /\ IF ~wip[n].fresh
     THEN LET b == BailoutOnAlreadyFinishedWork(Cleared(n), n)
          IN Continue(n, b.w, Frame, b.child)
     ELSE Continue(n, ReconcileChildren(Cleared(n), n, TRUE, wip[n].d),
                   Frame, FirstChild(n))
  /\ UNCHANGED <<cur, container, events>>

-----------------------------------------------------------------------------
(* The work loop, the commit and the updates (not under src/; spec.md 2, 5 *)
(* and 4.1).                                                               *)

Idle == wip[Root] = Nil

\* createWorkInProgress(root.current): a render starts at the root.  The
\* value stack is not reset: it is empty only if every earlier render
\* popped what it pushed.
StartRender ==
  /\ Idle /\ (cur[Root].work \/ cur[Root].childWork)
  /\ wip' = [NoWip EXCEPT ![Root] = [cur[Root] EXCEPT !.fresh = FALSE, !.kids = FALSE]]
  /\ next' = Root
  /\ UNCHANGED <<cur, ctx, cursor, stack, container, events>>

\* performUnitOfWork(next): beginWork dispatched on the fiber's tag, or its
\* fast path.
PerformUnitOfWork(n) ==
  \/ BeginBailout(n)
  \/ UpdateHostRoot(n)
  \/ UpdateHostComponent(n)
  \/ UpdateHostText(n)
  \/ UpdatePortalComponent(n)
  \/ UpdateContextProvider(n)
  \/ UpdateContextConsumer(n)
  \/ UpdateClassComponent(n)
  \/ UpdateMode(n)
  \/ UpdateProfiler(n)
  \/ UpdatePureComponent(n)
  \/ UpdateForwardRef(n)

\* A yield followed by a restart from the root: resetStack unwinds the
\* interrupted fibers, popping what each of them pushed.
Abandon ==
  /\ next # Nil
  /\ LET un == IF next = Root THEN Frame ELSE Unwind(Frame, Parent(next))
     IN ctx' = un.ctx /\ cursor' = un.cursor /\ stack' = un.stack
  /\ wip' = NoWip /\ next' = Nil
  /\ UNCHANGED <<cur, container, events>>

\* commitRoot: the finished work-in-progress fibers become current; a
\* subtree that was skipped keeps its current fibers.
Commit ==
  /\ ~Idle /\ next = Nil
  /\ cur' = [n \in Node |-> IF wip[n] = Nil THEN cur[n]
                            ELSE [wip[n] EXCEPT !.fresh = FALSE, !.kids = FALSE]]
  /\ wip' = NoWip /\ container' = Nil
  /\ UNCHANGED <<next, ctx, cursor, stack, events>>

\* root.render(e) (updateContainer, scheduleWork on the root), between
\* renders.
UpdateContainer(e) ==
  /\ Idle /\ events < MaxEvents
  /\ container' = e /\ events' = events + 1
  /\ cur' = [cur EXCEPT ![Root].work = TRUE]
  /\ UNCHANGED <<wip, next, ctx, cursor, stack>>

\* setState(v) on a mounted class component (enqueueUpdate, scheduleWork:
\* the fiber gets work, each ancestor child work), between renders.
SetState(n, v) ==
  /\ Idle /\ events < MaxEvents
  /\ Tag[n] = "ClassComponent" /\ cur[n] # Nil
  /\ events' = events + 1
  /\ cur' = [m \in Node |->
               IF m = n THEN [cur[m] EXCEPT !.pending = v, !.work = TRUE]
               ELSE IF m \in Ancestors(n) THEN [cur[m] EXCEPT !.childWork = TRUE]
               ELSE cur[m]]
  /\ UNCHANGED <<wip, next, ctx, cursor, stack, container>>

Init ==
  /\ cur = [n \in Node |-> IF n = Root
                           THEN [Blank(n) EXCEPT !.fresh = FALSE, !.kids = FALSE]
                           ELSE Nil]
  /\ wip = NoWip /\ next = Nil
  /\ ctx = Default /\ cursor = [c \in CursorNames |-> Nil] /\ stack = <<>>
  /\ container = Nil /\ events = 0

Next ==
  \/ StartRender
  \/ \E n \in Node : PerformUnitOfWork(n)
  \/ Abandon
  \/ Commit
  \/ \E e \in Elements : UpdateContainer(e)
  \/ \E n \in Node, v \in Data : SetState(n, v)

Spec == Init /\ [][Next]_vars

-----------------------------------------------------------------------------
(* Properties.                                                             *)

TypeOK ==
  /\ cur \in [Node -> Fiber \cup {Nil}] /\ wip \in [Node -> Fiber \cup {Nil}]
  /\ next \in Node \cup {Nil} /\ ctx \in Data \cup {Default}
  /\ cursor \in [CursorNames -> StackValues]
  /\ Len(stack) <= 3 * Cardinality(Node) /\ Range(stack) \subseteq StackValues
  /\ container \in Elements \cup {Nil} /\ events \in 0..MaxEvents

\* The closest ancestor of n among the fibers P, if there is one.
Nearest(n, P) ==
  LET above == Ancestors(n) \cap P
  IN CHOOSE p \in above : \A q \in above : q = p \/ q \in Ancestors(p)

\* The host context a fiber's children render in.
RECURSIVE NsBelow(_)
NsBelow(n) ==
  IF IsContainer(n) THEN ContainerNs[ContainerInfo[n]]
  ELSE IF Tag[n] = "HostComponent" THEN ChildNs(NsBelow(Parent(n)), HostType[n])
  ELSE NsBelow(Parent(n))

\* What a committed consumer must show: its nearest provider's committed
\* value, or the default with no provider above it.
ExpectedValue(n) ==
  IF \E p \in Ancestors(n) : IsProvider(p)
  THEN cur[Nearest(n, {p \in Node : IsProvider(p)})].d ELSE Default

\* What a committed host instance must have been prepared against: the
\* container of its nearest portal or root, and its parent's host context.
ExpectedSeen(n) ==
  [root |-> ContainerInfo[Nearest(n, {p \in Node : IsContainer(p)})],
   ns   |-> NsBelow(Parent(n))]

\* Every fiber that reads the value stack reads what its ancestors put
\* there: a committed consumer shows the committed value of its nearest
\* provider, and a committed host instance was created or last updated
\* for the container of its nearest portal or root and in its parent's
\* namespace.  It takes the whole begin phase to keep: the pushes on the
\* bailout fast path, the conditional push and pop of the host context,
\* the pops in completeWork and in the unwind of an abandoned render,
\* updateContextProvider comparing the old props before memoizing the new
\* ones, and the marked consumers found under bailed-out pure and
\* forwardRef fibers.
ReadersSeeNearestAncestor ==
  /\ \A c \in Consumers : cur[c] # Nil => cur[c].shown = ExpectedValue(c)
  /\ \A h \in HostInstances : cur[h] # Nil => cur[h].seen = ExpectedSeen(h)

====
