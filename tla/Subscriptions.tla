----------------------------- MODULE Subscriptions -----------------------------
(***************************************************************************)
(* A component made by createComponent (create-component-with-            *)
(* subscriptions) with one subscribable property, rendered by React.       *)
(*                                                                         *)
(* Source: packages/create-component-with-subscriptions/src/               *)
(* createComponentWithSubscriptions.js.                                    *)
(*                                                                         *)
(* React's class lifecycle is the environment: a render processes the      *)
(* queued state updates, then getDerivedStateFromProps, and may be         *)
(* discarded; a commit installs the rendered props and state and runs      *)
(* componentDidMount or componentDidUpdate; updates stay queued until a    *)
(* commit consumes them.  The parent may re-render with any subscribable.  *)
(*                                                                         *)
(* Subscribables are of two kinds, as the config allows: Readable ones     *)
(* whose getDataFor returns the current value, and the others (promise-    *)
(* like) whose getDataFor returns undefined and which resolve once and     *)
(* call every subscriber, including late ones, with their value.           *)
(* subscribeTo returns a handle; unsubscribeFrom removes the subscription  *)
(* only if given its handle.                                               *)
(***************************************************************************)
EXTENDS Integers, Sequences, FiniteSets

CONSTANTS
  Nil,        \* null / no subscription
  Undef,      \* undefined (no value read yet)
  Sources,    \* subscribables
  Readable,   \* the subscribables getDataFor can read synchronously
  Values,     \* values a subscribable can hold
  MaxEvents   \* bound on emissions, parent re-renders and discards

ASSUME Readable \subseteq Sources /\ MaxEvents \in Nat

Wrapper == [subscribable: Sources, value: Values \cup {Undef}, subscription: Sources \cup {Nil}]
Update == [kind: {"callback"}, subscribable: Sources, value: Values]
            \cup [kind: {"object"}, wrapper: Wrapper]

VARIABLES
  phase,       \* "unmounted", "mounted" or "unmounted_after" (after componentWillUnmount)
  parent,      \* the subscribable the parent renders the component with
  parentDirty, \* the parent re-rendered since the last render
  props,       \* this.props[propertyName] of the committed component
  st,          \* this.state[propertyName]: a wrapper, or Undef before mount
  wip,         \* a rendered, not yet committed [props, st, consumed] or Nil
  queue,       \* the component's pending setState updates, in order
  ext,         \* the current value of each subscribable
  subs,        \* number of live subscriptions on each subscribable
  events       \* environment events so far (model bound only)

vars == <<phase, parent, parentDirty, props, st, wip, queue, ext, subs, events>>

-----------------------------------------------------------------------------

\* config.getDataFor
GetDataFor(s) == IF s \in Readable THEN ext[s] ELSE Undef

\* getDerivedStateFromProps for the one property: prevSubscribable is
\* prevState[propertyName], the wrapper, compared with the subscribable.
\* Returns the new wrapper, or Nil for "no update".
GetDerivedStateFromProps(nextSubscribable, prevWrapper) ==
  IF prevWrapper # nextSubscribable
  THEN [subscribable |-> nextSubscribable,
        value        |-> GetDataFor(nextSubscribable),
        subscription |-> IF prevWrapper = Undef THEN Nil ELSE prevWrapper.subscription]
  ELSE Nil

\* Mutant: the updater without the check for an old subscribable.
ApplyUpdateNoStaleCheck(w, u) ==
  IF u.kind = "object" THEN u.wrapper
  ELSE IF w.value = u.value THEN w
  ELSE [w EXCEPT !.value = u.value]

\* One queued update applied to the state: the valueChangedCallback
\* updater (skip an equal value, ignore an old subscribable) or an object.
ApplyUpdate(w, u) ==
  IF u.kind = "object" THEN u.wrapper
  ELSE IF w.value = u.value THEN w
  ELSE IF u.subscribable # w.subscribable THEN w
  ELSE [w EXCEPT !.value = u.value]

RECURSIVE ProcessUpdateQueue(_, _)
ProcessUpdateQueue(w, q) ==
  IF q = <<>> THEN w ELSE ProcessUpdateQueue(ApplyUpdate(w, Head(q)), Tail(q))

\* Mutant: the handle is stored on a copy of the wrapper, not on the state.
SubscribeToHandleOnCopy(s, w, q, sb) ==
  LET w1    == [w EXCEPT !.subscription = s]
      value == GetDataFor(s)
      q1    == IF value # w.value
               THEN Append(q, [kind |-> "object", wrapper |-> [w1 EXCEPT !.value = value]])
               ELSE q
      q2    == IF s \notin Readable /\ ext[s] # Undef
               THEN Append(q1, [kind |-> "callback", subscribable |-> s, value |-> ext[s]])
               ELSE q1
  IN [st |-> w, queue |-> q2, subs |-> [sb EXCEPT ![s] = @ + 1]]

\* subscribeTo: subscribe, store the handle on the state's wrapper, and
\* queue a state update if the value changed since render.  A resolved
\* promise-like subscribable calls the new subscriber with its value.
\* [st, queue, subs] after the call.
SubscribeTo(s, w, q, sb) ==
  LET w1    == [w EXCEPT !.subscription = s]
      value == GetDataFor(s)
      q1    == IF value # w.value
               THEN Append(q, [kind |-> "object", wrapper |-> [w1 EXCEPT !.value = value]])
               ELSE q
      q2    == IF s \notin Readable /\ ext[s] # Undef
               THEN Append(q1, [kind |-> "callback", subscribable |-> s, value |-> ext[s]])
               ELSE q1
  IN [st |-> w1, queue |-> q2, subs |-> [sb EXCEPT ![s] = @ + 1]]

\* unsubscribeFrom: hand the stored handle to config.unsubscribeFrom and
\* clear it.  [st, subs] after the call.
UnsubscribeFrom(s, w, sb) ==
  [st   |-> [w EXCEPT !.subscription = Nil],
   subs |-> IF w.subscription = s THEN [sb EXCEPT ![s] = @ - 1] ELSE sb]

-----------------------------------------------------------------------------
(* Actions.                                                                *)

\* React renders the component: the queued updates, then
\* getDerivedStateFromProps with the parent's props.
Render ==
  /\ phase # "unmounted_after"
  /\ wip = Nil
  /\ phase = "unmounted" \/ queue # <<>> \/ parentDirty
  /\ LET base  == IF phase = "unmounted" THEN Undef ELSE ProcessUpdateQueue(st, queue)
         deriv == GetDerivedStateFromProps(parent, base)
     IN wip' = [props |-> parent, st |-> IF deriv = Nil THEN base ELSE deriv,
                consumed |-> Len(queue)]
  /\ parentDirty' = FALSE
  /\ UNCHANGED <<phase, parent, props, st, queue, ext, subs, events>>

\* React discards a render that has not committed.
Discard ==
  /\ wip # Nil
  /\ events < MaxEvents
  /\ wip' = Nil
  /\ parentDirty' = TRUE
  /\ events' = events + 1
  /\ UNCHANGED <<phase, parent, props, st, queue, ext, subs>>

\* componentDidMount: subscribe to the rendered subscribable.
ComponentDidMount(w, q, sb) == SubscribeTo(wip.props, w, q, sb)

\* Mutant: subscribes to the next subscribable without unsubscribing.
ComponentDidUpdateNoUnsubscribe(prevProps, w, q, sb) ==
  IF prevProps # wip.props
  THEN SubscribeTo(wip.props, w, q, sb)
  ELSE [st |-> w, queue |-> q, subs |-> sb]

\* componentDidUpdate: if the subscribable changed, unsubscribe from the
\* previous one and subscribe to the next one.
ComponentDidUpdate(prevProps, w, q, sb) ==
  IF prevProps # wip.props
  THEN LET u == UnsubscribeFrom(prevProps, w, sb)
       IN SubscribeTo(wip.props, u.st, q, u.subs)
  ELSE [st |-> w, queue |-> q, subs |-> sb]

\* React commits the render and runs the lifecycle method.
Commit ==
  /\ wip # Nil
  /\ LET q == SubSeq(queue, wip.consumed + 1, Len(queue))
         r == IF phase = "unmounted" THEN ComponentDidMount(wip.st, q, subs)
              ELSE ComponentDidUpdate(props, wip.st, q, subs)
     IN /\ st' = r.st
        /\ queue' = r.queue
        /\ subs' = r.subs
  /\ props' = wip.props
  /\ phase' = "mounted"
  /\ wip' = Nil
  /\ UNCHANGED <<parent, parentDirty, ext, events>>

\* componentWillUnmount: unsubscribe from the current subscribable.
ComponentWillUnmount ==
  /\ phase = "mounted"
  /\ wip = Nil
  /\ LET u == UnsubscribeFrom(props, st, subs)
     IN /\ st' = u.st
        /\ subs' = u.subs
  /\ phase' = "unmounted_after"
  /\ queue' = <<>>
  /\ UNCHANGED <<parent, parentDirty, props, wip, ext, events>>

\* The parent re-renders the component with subscribable s.
ParentRender(s) ==
  /\ phase # "unmounted_after"
  /\ events < MaxEvents
  /\ parent' = s
  /\ parentDirty' = TRUE
  /\ events' = events + 1
  /\ UNCHANGED <<phase, props, st, wip, queue, ext, subs>>

\* Subscribable s takes value v and calls every live subscription's
\* valueChangedCallback, which queues an updater (a no-op once unmounted).
\* A promise-like subscribable resolves only once.
Emit(s, v) ==
  /\ events < MaxEvents
  /\ ext[s] # v
  /\ s \notin Readable => ext[s] = Undef
  /\ ext' = [ext EXCEPT ![s] = v]
  /\ queue' = IF phase = "mounted"
              THEN queue \o [i \in 1..subs[s] |->
                               [kind |-> "callback", subscribable |-> s, value |-> v]]
              ELSE queue
  /\ events' = events + 1
  /\ UNCHANGED <<phase, parent, parentDirty, props, st, wip, subs>>

Init ==
  /\ phase = "unmounted"
  /\ parent \in Sources
  /\ parentDirty = FALSE
  /\ props = Nil
  /\ st = Undef
  /\ wip = Nil
  /\ queue = <<>>
  /\ ext \in [Sources -> Values \cup {Undef}]
  /\ \A s \in Sources : (ext[s] = Undef) <=> (s \notin Readable)
  /\ subs = [s \in Sources |-> 0]
  /\ events = 0

Next ==
  \/ Render
  \/ Discard
  \/ Commit
  \/ ComponentWillUnmount
  \/ \E s \in Sources : ParentRender(s)
  \/ \E s \in Sources, v \in Values : Emit(s, v)

Spec == Init /\ [][Next]_vars

-----------------------------------------------------------------------------
(* Properties.                                                             *)

TypeOK ==
  /\ phase \in {"unmounted", "mounted", "unmounted_after"}
  /\ parent \in Sources
  /\ parentDirty \in BOOLEAN
  /\ props \in Sources \cup {Nil}
  /\ st \in Wrapper \cup {Undef}
  /\ queue \in Seq(Update)
  /\ ext \in [Sources -> Values \cup {Undef}]
  /\ subs \in [Sources -> 0..2]
  /\ events \in 0..MaxEvents

\* While mounted the component holds exactly one subscription, to the
\* subscribable of its committed props; after componentWillUnmount it holds
\* none (the handle copied through getDerivedStateFromProps must reach
\* unsubscribeFrom in componentDidUpdate and componentWillUnmount).
SubscribedExactlyToProps ==
  \A s \in Sources :
    subs[s] = IF phase = "mounted" /\ s = props THEN 1 ELSE 0

\* When nothing is pending (no render in flight, no queued update, no
\* parent re-render), the value the component renders is the current value
\* of the subscribable it is subscribed to.
Settled == phase = "mounted" /\ wip = Nil /\ queue = <<>> /\ ~parentDirty
RenderedValueIsCurrent ==
  Settled => st.value = ext[props]

=============================================================================
