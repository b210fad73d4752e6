--------------------------- MODULE StatelessComponent ---------------------------
(***************************************************************************)
(* Stateless function components in the stack reconciler.                  *)
(*                                                                         *)
(* Source: src/renderers/shared/reconciler/ReactStatelessComponent.js: the *)
(* internal instance's mountComponent, unmountComponent, receiveComponent, *)
(* updateComponent, _performComponentUpdate, _updateRenderedComponent,     *)
(* _renderValidatedComponent and _replaceNodeWithMarkupByID.  Its          *)
(* collaborators are not in this repository and are the environment:      *)
(* instantiateReactComponent, shouldUpdateReactComponent, ReactReconciler  *)
(* (dispatch), host and empty components (a leaf that renders markup),    *)
(* and ReactMount, which renders a top-level element into a container or  *)
(* unmounts it.                                                            *)
(*                                                                         *)
(* A render function is the table Render(type, props); it returns an       *)
(* element, Nil (null: an empty component) or Invalid (undefined or an     *)
(* array, rejected by the invariant of _renderValidatedComponent).  All    *)
(* components of one top-level render share one root node, so the DOM is  *)
(* the markup of that node.  Every call is synchronous: one top-level      *)
(* render or unmount is one step, and a thrown invariant or TypeError      *)
(* ends it with the writes made before the throw in place.                 *)
(***************************************************************************)
EXTENDS Integers, FiniteSets

CONSTANTS
  Nil,            \* null
  Invalid,        \* a render result that is not null, false or an element
  StatelessTypes, \* stateless function component types
  HostTypes,      \* host (DOM) component types
  Keys,           \* element keys (Nil: no key)
  Props,          \* props objects
  Render(_, _),   \* the render function of each stateless type
  MaxIds,         \* size of the internal instance heap
  MaxOps          \* bound on top-level renders and unmounts

Ids == 1..MaxIds
Elem(t, k, p) == [type |-> t, key |-> k, props |-> p]
Elements == {Elem(t, k, p) : t \in StatelessTypes \cup HostTypes, k \in Keys \cup {Nil}, p \in Props}

\* The container's content: nothing, an empty component's placeholder, or
\* a host node with its props.
NoMarkup == [tag |-> "none", props |-> Nil]
Markup(e) == IF e = Nil THEN [tag |-> "empty", props |-> Nil] ELSE [tag |-> e.type, props |-> e.props]

Node == [elem: Elements \cup {Nil}, kind: {"stateless", "host", "empty"},
         rendered: Ids \cup {Nil}, order: Nat]
FreeNode == [elem |-> Nil, kind |-> "free", rendered |-> Nil, order |-> 0]

VARIABLES
  heap,         \* internal instances: Ids -> Node or FreeNode
  root,         \* the top-level internal instance in the container, or Nil
  nextMountID,  \* the module-level counter nextMountID
  imap,         \* ReactInstanceMap: internal instances whose public instance maps back
  dom,          \* the container's markup
  failed,       \* some top-level call threw (React makes no promise after it)
  ops           \* top-level calls so far (model bound only)

vars == <<heap, root, nextMountID, imap, dom, failed, ops>>

-----------------------------------------------------------------------------
(* The environment's pieces (not in this repository).                      *)

NewId(h) == CHOOSE i \in Ids : h[i].kind = "free"

\* instantiateReactComponent: an internal instance for an element.
Instantiate(e) ==
  [elem |-> e, rendered |-> Nil, order |-> 0,
   kind |-> CASE e = Nil -> "empty"
              [] e.type \in HostTypes -> "host"
              [] OTHER -> "stateless"]

\* shouldUpdateReactComponent: both empty, or same type and key.
ShouldUpdateReactComponent(prev, next) ==
  IF prev = Nil \/ next = Nil THEN prev = next
  ELSE prev.type = next.type /\ prev.key = next.key

\* The heap seen from the top-level component: the chain of rendered
\* components below it.
RECURSIVE Chain(_, _)
Chain(h, i) == IF i = Nil THEN {} ELSE {i} \cup Chain(h, h[i].rendered)

\* The internals no longer referenced are garbage.
Collect(h, r) ==
  LET live == Chain(h, r) IN [i \in Ids |-> IF i \in live THEN h[i] ELSE FreeNode]

-----------------------------------------------------------------------------
(* ReactStatelessComponent.js.  Each operator takes and returns the call's *)
(* state: the heap, nextMountID, the instance map, the container markup,   *)
(* the markup a mount returns, the new top-level instance, and "ok" or    *)
(* the error that was thrown.                                              *)

\* _renderValidatedComponent: call the render function with inst.props
\* (with ReactContext.current and ReactCurrentOwner.current set around it
\* and restored in finally: no state of this model); the invariant rejects
\* anything but null, false or an element.
RenderValidatedComponent(e) == Render(e.type, e.props)

\* Mutant: _mountOrder is taken after the rendered child was mounted.
RECURSIVE MountComponentLateOrder(_, _)
MountComponentLateOrder(s, i) ==
  LET n == s.heap[i]
  IN IF n.kind # "stateless" THEN [s EXCEPT !.markup = Markup(n.elem)]
     ELSE LET s1 == [s EXCEPT !.imap = @ \cup {i}]
              r  == RenderValidatedComponent(n.elem)
              c  == NewId(s1.heap)
              s2 == MountComponentLateOrder([s1 EXCEPT !.heap[c] = Instantiate(r),
                                                       !.heap[i].rendered = c], c)
          IN IF r = Invalid THEN [s1 EXCEPT !.ok = "invariant"]
             ELSE [s2 EXCEPT !.heap[i].order = s2.nextID, !.nextID = @ + 1]

\* Mutant: _mountOrder is never assigned.
RECURSIVE MountComponentNoOrder(_, _)
MountComponentNoOrder(s, i) ==
  LET n == s.heap[i]
  IN IF n.kind # "stateless" THEN [s EXCEPT !.markup = Markup(n.elem)]
     ELSE LET s1 == [s EXCEPT !.imap = @ \cup {i}]
              r  == RenderValidatedComponent(n.elem)
              c  == NewId(s1.heap)
          IN IF r = Invalid THEN [s1 EXCEPT !.ok = "invariant"]
             ELSE MountComponentNoOrder([s1 EXCEPT !.heap[c] = Instantiate(r),
                                                   !.heap[i].rendered = c], c)

\* mountComponent (ReactReconciler.mountComponent dispatching to it): take
\* the next mount order, register the public instance in the instance map,
\* render, instantiate the rendered element and mount it with the same
\* root ID; its markup is the result.  Host and empty components return
\* their markup.
RECURSIVE MountComponent(_, _)
MountComponent(s, i) ==
  LET n == s.heap[i]
  IN IF n.kind # "stateless" THEN [s EXCEPT !.markup = Markup(n.elem)]
     ELSE LET s1 == [s EXCEPT !.heap[i].order = s.nextID, !.nextID = @ + 1,
                              !.imap = @ \cup {i}]
              r  == RenderValidatedComponent(n.elem)
              c  == NewId(s1.heap)
          IN IF r = Invalid THEN [s1 EXCEPT !.ok = "invariant"]
             ELSE MountComponent([s1 EXCEPT !.heap[c] = Instantiate(r),
                                            !.heap[i].rendered = c], c)

\* Mutant: the instance map entry is not removed.
RECURSIVE UnmountComponentKeepMap(_, _)
UnmountComponentKeepMap(s, i) ==
  IF s.heap[i].kind # "stateless" THEN s
  ELSE IF s.heap[i].rendered = Nil THEN [s EXCEPT !.ok = "typeError"]
  ELSE LET s1 == UnmountComponentKeepMap(s, s.heap[i].rendered)
       IN IF s1.ok # "ok" THEN s1 ELSE [s1 EXCEPT !.heap[i].rendered = Nil]

\* unmountComponent: unmount the rendered component (a TypeError when there
\* is none, after a mount that threw), drop it, remove the instance map
\* entry.  Host and empty components leave the markup to their parent.
RECURSIVE UnmountComponent(_, _)
UnmountComponent(s, i) ==
  IF s.heap[i].kind # "stateless" THEN s
  ELSE IF s.heap[i].rendered = Nil THEN [s EXCEPT !.ok = "typeError"]
  ELSE LET s1 == UnmountComponent(s, s.heap[i].rendered)
       IN IF s1.ok # "ok" THEN s1
          ELSE [s1 EXCEPT !.heap[i].rendered = Nil, !.imap = @ \ {i}]

RECURSIVE ReceiveComponent(_, _, _)

\* Mutant: the new markup is not written over the old node.
UpdateRenderedComponentNoReplace(s, i) ==
  LET prev == s.heap[i].rendered
      next == RenderValidatedComponent(s.heap[i].elem)
      s1   == UnmountComponent(s, prev)
      c    == NewId(s1.heap)
      s2   == MountComponent([s1 EXCEPT !.heap[c] = Instantiate(next),
                                        !.heap[i].rendered = c], c)
  IN CASE prev = Nil -> [s EXCEPT !.ok = "typeError"]
       [] next = Invalid -> [s EXCEPT !.ok = "invariant"]
       [] ShouldUpdateReactComponent(s.heap[prev].elem, next) -> ReceiveComponent(s, prev, next)
       [] s1.ok # "ok" -> s1
       [] OTHER -> s2

\* Mutant: the previous rendered component is not unmounted.
UpdateRenderedComponentNoUnmount(s, i) ==
  LET prev == s.heap[i].rendered
      next == RenderValidatedComponent(s.heap[i].elem)
      c    == NewId(s.heap)
      s2   == MountComponent([s EXCEPT !.heap[c] = Instantiate(next),
                                       !.heap[i].rendered = c], c)
  IN CASE prev = Nil -> [s EXCEPT !.ok = "typeError"]
       [] next = Invalid -> [s EXCEPT !.ok = "invariant"]
       [] ShouldUpdateReactComponent(s.heap[prev].elem, next) -> ReceiveComponent(s, prev, next)
       [] s2.ok # "ok" -> s2
       [] OTHER -> [s2 EXCEPT !.dom = s2.markup]

\* _updateRenderedComponent: render; if shouldUpdateReactComponent, the
\* rendered component receives the new element, else it is unmounted, a
\* new one is instantiated and mounted with the same root ID, and its
\* markup replaces the old node.  A thrown render or mount stops it.
UpdateRenderedComponent(s, i) ==
  LET prev == s.heap[i].rendered
      next == RenderValidatedComponent(s.heap[i].elem)
      s1   == UnmountComponent(s, prev)
      c    == NewId(s1.heap)
      s2   == MountComponent([s1 EXCEPT !.heap[c] = Instantiate(next),
                                        !.heap[i].rendered = c], c)
  IN CASE prev = Nil -> [s EXCEPT !.ok = "typeError"]
       [] next = Invalid -> [s EXCEPT !.ok = "invariant"]
       [] ShouldUpdateReactComponent(s.heap[prev].elem, next) -> ReceiveComponent(s, prev, next)
       [] s1.ok # "ok" -> s1
       [] s2.ok # "ok" -> s2
       [] OTHER -> [s2 EXCEPT !.dom = s2.markup]

\* receiveComponent / updateComponent / _performComponentUpdate: the new
\* element's props become inst.props (shouldUpdate is always true) before
\* the rendered component is updated.  A host component updates its node;
\* an empty component has nothing to update.
ReceiveComponent(s, i, nextElement) ==
  CASE s.heap[i].kind = "stateless" ->
         UpdateRenderedComponent([s EXCEPT !.heap[i].elem = nextElement], i)
    [] s.heap[i].kind = "host" ->
         [s EXCEPT !.heap[i].elem = nextElement, !.dom = Markup(nextElement)]
    [] OTHER -> s

-----------------------------------------------------------------------------
(* ReactMount (environment): top-level render and unmount.                 *)

Start == [heap |-> heap, nextID |-> nextMountID, imap |-> imap, dom |-> dom,
          markup |-> Nil, top |-> Nil, ok |-> "ok"]

\* The outcome of a call: the heap without garbage, and a thrown error
\* recorded.
Finish(s, r) ==
  /\ heap' = Collect(s.heap, r)
  /\ nextMountID' = s.nextID
  /\ imap' = s.imap
  /\ failed' = (failed \/ s.ok # "ok")
  /\ ops' = ops + 1

\* Mount e as a new root: the markup is inserted only if the mount returns.
MountNewRoot(s, e) ==
  LET i  == NewId(s.heap)
      s1 == MountComponent([s EXCEPT !.heap[i] = Instantiate(e)], i)
  IN IF s1.ok = "ok" THEN [s1 EXCEPT !.dom = s1.markup, !.top = i] ELSE s1

\* ReactMount.render(e, container).
RenderTop(e) ==
  /\ ops < MaxOps
  /\ IF root # Nil /\ ShouldUpdateReactComponent(heap[root].elem, e)
     THEN LET s == ReceiveComponent(Start, root, e)
          IN /\ Finish(s, root)
             /\ dom' = s.dom
             /\ root' = root
     ELSE LET s0 == IF root = Nil THEN Start ELSE UnmountComponent(Start, root)
              s  == IF s0.ok = "ok" THEN MountNewRoot([s0 EXCEPT !.dom = NoMarkup], e) ELSE s0
              r  == IF s0.ok = "ok" THEN s.top ELSE root
          IN /\ Finish(s, r)
             /\ dom' = s.dom
             /\ root' = r

\* ReactMount.unmountComponentAtNode(container).
UnmountTop ==
  /\ ops < MaxOps
  /\ root # Nil
  /\ LET s == UnmountComponent(Start, root)
     IN /\ Finish(s, IF s.ok = "ok" THEN Nil ELSE root)
        /\ dom' = IF s.ok = "ok" THEN NoMarkup ELSE dom
        /\ root' = IF s.ok = "ok" THEN Nil ELSE root

TopElements == {Elem(t, Nil, p) : t \in StatelessTypes, p \in Props}

Init ==
  /\ heap = [i \in Ids |-> FreeNode]
  /\ root = Nil
  /\ nextMountID = 1
  /\ imap = {}
  /\ dom = NoMarkup
  /\ failed = FALSE
  /\ ops = 0

Next ==
  \/ \E e \in TopElements : RenderTop(e)
  \/ UnmountTop

Spec == Init /\ [][Next]_vars

-----------------------------------------------------------------------------
(* Properties.                                                             *)

Mounted == Chain(heap, root)

TypeOK ==
  /\ heap \in [Ids -> Node \cup {FreeNode}]
  /\ root \in Ids \cup {Nil}
  /\ imap \subseteq Ids
  /\ ops \in 0..MaxOps
  /\ \A i \in Mounted : heap[i].kind = "stateless" => heap[i].order \in 1..(nextMountID - 1)

\* The leaf (host or empty component) at the end of the mounted chain.
RECURSIVE LeafElem(_)
LeafElem(i) == IF heap[i].kind = "stateless" THEN LeafElem(heap[i].rendered) ELSE heap[i].elem

\* As long as no call threw, each mounted stateless component's rendered
\* component holds what its render returns for its current props, and the
\* container shows the markup of the leaf: props updates, key and type
\* changes (unmount + remount + replace) and top-level remounts keep the
\* DOM in step with the tree.
TreeMatchesRender ==
  ~failed =>
    /\ \A i \in Mounted : heap[i].kind = "stateless" =>
         heap[heap[i].rendered].elem = RenderValidatedComponent(heap[i].elem)
    /\ dom = IF root = Nil THEN NoMarkup ELSE Markup(LeafElem(root))

\* As long as no call threw, the instance map holds exactly the mounted
\* stateless components: every component unmounted, directly or with a
\* replaced subtree, has its entry removed.
InstanceMapMatchesMounted ==
  ~failed => imap = {i \in Mounted : heap[i].kind = "stateless"}

\* A component's mount order is smaller than that of every component it
\* rendered, including ones remounted later ("used to enforce the order
\* in which ReactUpdates updates dirty components").
MountOrderTopDown ==
  \A i \in Mounted :
    heap[i].kind = "stateless" /\ heap[i].rendered # Nil
      /\ heap[heap[i].rendered].kind = "stateless"
      => heap[heap[i].rendered].order > heap[i].order

=============================================================================
