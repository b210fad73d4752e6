# TLA+ models of the reconcilers, event replaying, subscriptions and error-code tooling

This directory holds TLA+ models of the stateful parts of this repository. It
also holds the TLC configurations that check them. `PROJECT.json` lists:

- every component, modelled or not;
- every run and the mutant that each property must catch;
- the map from each TLA+ definition to the source lines it translates;
- the findings;
- the hazards the code is exposed to.

## 1. Inventory

### Components and their state

| Component | Source | State it keeps |
|---|---|---|
| Begin phase of the fiber reconciler | `packages/react-reconciler/src/ReactFiberBeginWork.js` | Per fiber: `pendingProps`, `memoizedProps`, `memoizedState`, `child`, `sibling`, `alternate`, `expirationTime`, `childExpirationTime`, `effectTag` (with `DidCapture` and `Ref`), `ref`, `stateNode`. For a Suspense boundary, `memoizedState` is `{alreadyCaptured, didTimeout, timedOutAt}` or null; for a class, the instance's state. |
| Mutable source bookkeeping | `packages/react-reconciler/src/ReactMutableSource.js` | Per root: the pending range `mutableSourceFirst/LastPendingUpdateTime`. Module-level: the stacks of sources given a work-in-progress version during this render. |
| Event replaying during hydration | `packages/react-dom/src/events/ReactDOMEventReplaying.js` | A FIFO of blocked discrete events. The latest focus, drag and mouse events. Per-pointer maps. The flag `hasScheduledReplayAttempt`. |
| Subscription components | `packages/create-component-with-subscriptions/src/createComponentWithSubscriptions.js` | Per property, a wrapper `{subscribable, value, subscription}` in component state, plus the external subscription. |
| Stateless component wrapper (stack reconciler) | `src/renderers/shared/reconciler/ReactStatelessComponent.js` | Per internal instance: `_currentElement`, `_renderedComponent`, `_mountOrder`, `_rootNodeID`, `_instance` (registered in `ReactInstanceMap`). Module-level: the `nextMountID` counter. The context and owner globals are set only during a render. |
| Fizz browser entry | `packages/react-dom/src/server/ReactDOMFizzServerBrowserImpl.js` | The request, the shell and all-ready promises, and the abort listener. |
| External runtime | `packages/react-dom-bindings/src/server/ReactDOMServerExternalRuntime.js` | Two MutationObservers (one waiting for `<body>`, one on body's children) and a `DOMContentLoaded` listener; the DOM's instruction templates, which it removes as it runs them. |
| Fabric event emitter | `packages/react-native-renderer/src/ReactFabricEventEmitter.js` | None: it dispatches into the plugin system. |
| Error-code tooling | `scripts/error-codes/*.js` | The message→id map and `currentID`. |
| Constants, configuration, tests, site | the remaining files | None of interest. |

### Operations and interactions

- **Render of a root.** The work loop (`ReactFiberScheduler`, not under
  `src/`) creates a work-in-progress copy of the root with
  `createWorkInProgress`. It then calls `beginWork` on one fiber at a time.
  - `beginWork` either bails out or dispatches on the fiber's tag.
  - A bailout clones the children with `cloneChildFibers` if the fiber's
    `childExpirationTime` shows work below it.
  - Otherwise `updateSuspenseComponent`, `updateFragment`,
    `updateFunctionComponent`, ... compute the next children and
    reconcile them with `reconcileChildFibers`.
  - When `beginWork` returns null, `completeUnitOfWork` walks to the next
    sibling or back up.
  - A component that throws a not-ready signal unwinds to the nearest
    Suspense boundary. The boundary is marked `alreadyCaptured`, and work
    restarts at it.
  - At a yield the driver may discard the work-in-progress tree.
  - At the end it commits: deletions, placements, and the swap of
    `current`.
- **Class error boundary.** `updateClassComponent` mounts or updates the
  instance and gets `shouldUpdate`; `finishClassComponent` marks the ref,
  bails out, or renders and reconciles. A child that throws unwinds to the
  nearest class boundary, which is marked `DidCapture` and begun again: it
  renders its fallback (through `getDerivedStateFromError`) or null (a
  legacy boundary, whose `componentDidCatch` then calls `setState`), and
  `forceUnmountCurrentAndReconcile` never reuses the children that threw.
- **Stateless components (stack reconciler).** `ReactMount` mounts or
  updates a top-level element synchronously. `mountComponent` renders and
  mounts the rendered element with the same root ID;
  `_updateRenderedComponent` either passes the new rendered element down
  (same type and key) or unmounts the old child, mounts a new one and
  replaces the node's markup.
- **Suspense boundary.** Its state machine is Idle → (suspend) → TimedOut → (retry)
  → Idle. The state is stored in `memoizedState`.
  - While timed out, the primary children are kept mounted and hidden
    under a primary fragment, next to a fallback fragment.
  - `updateSuspenseComponent` has six branches:
    - mount, timed out or not;
    - update, for each pair (previous didTimeout, next didTimeout).
- **Mutable sources.** `setPendingExpirationTime` folds each dirty update
  into the root's range. `clearPendingUpdates` clears it after a render.
  Versions read during a render are pushed onto a stack, and
  `resetWorkInProgressVersions` resets them.
- **Event replaying.** During hydration a blocked discrete event is queued.
  `retryIfBlockedOn(container)` is called when a boundary hydrates. It
  unblocks the entries and schedules one `replayUnblockedEvents` callback.
  That callback replays the queue head-first, stopping at the first blocked
  entry.
- **Subscriptions.**
  - `getDerivedStateFromProps` reads the value of a new subscribable.
  - The commit lifecycles subscribe and unsubscribe.
  - A value callback `setState`s the new value unless it is stale.

### Hard behaviours

- Two copies of every fiber (current and work-in-progress) that share
  children and state objects until cloned. A write during render to a shared
  object corrupts the committed tree.
- Renders that are discarded at any yield and restarted, re-using stale
  alternates.
- Suspension in the middle of a render, unwinding to the boundary and
  re-rendering it with different children while preserving the hidden ones.
- Reparenting a committed child under a new fragment.
- Interleaving of user updates (setState, new props, retries) with renders.
- Event replay ordering under head-of-line blocking, and a single scheduled
  callback flag reset by a synchronous replay.
- Subscription callbacks arriving after the subscribable changed.
- Expiration-time sentinels (NoWork = 0) inside min/max folds.

### What makes each component correct

- **Suspense boundary:**
  - the committed tree shows the fallback exactly when the state says it
    timed out;
  - the primary children keep their instances across suspending and
    resuming;
  - mounted instances are exactly those in the committed tree;
  - rendering never writes the committed tree;
  - the work-in-progress is a tree;
  - a retried boundary eventually commits.
- **Event replaying:** discrete events replay in arrival order. An event
  whose container hydrates is eventually replayed. No replay happens while
  the head is blocked.
- **Subscriptions:**
  - once quiescent, the state value equals the current value of the current
    subscribable;
  - exactly the current subscribable is subscribed while mounted, and none
    after unmount;
  - stale callbacks never overwrite a newer source's value.
- **Class error boundary:** the mounted child is the committed one; no
  instance that threw is committed; the boundary's ref follows the
  committed element even when `shouldComponentUpdate` bails out; a caught
  error eventually shows the fallback.
- **Stateless components:** the rendered chain and the DOM follow the
  renders, the instance map holds exactly the mounted components, and a
  parent's mount order precedes its children's.
- **Mutable source:**
  - the pending range is empty or well-formed (`first <= last`, both set),
    and its ends are the earliest and latest unserviced updates;
  - a render never reads two versions of a source;
  - no work-in-progress version outlives its render.
- **Context:** every committed consumer shows the committed value of its
  nearest provider, or the default value with no provider above it. This
  must hold through bailouts of the providers and of the fibers between a
  provider and its consumers. Likewise every host instance is created or
  prepared against its nearest host container (the root's or a portal's)
  and the namespace its ancestors give it, although providers, containers
  and host contexts share one value stack.

## 2. Plan

Modules, in the order they are built:

1. `SuspenseBoundary` (done) with `MCSuspenseBoundary`: the begin phase of a
   Suspense boundary with its work loop, unwind and commit.
2. `SuspenseAbstract` (done): the boundary as the user sees it (nothing,
   primary or fallback, the props shown, and the primary and fallback
   instances). `SuspenseBoundary` implements it through a refinement
   mapping, checked as the `PROPERTY` `ImplementsAbstract`.
3. `EventReplaying` (done): the discrete queue, the continuous slots, the
   scheduled-callback flag, `retryIfBlockedOn`, and hydration as the
   environment. Ordering invariants and replay liveness under fairness of
   the scheduler callback.
4. `Subscriptions` (done): the component lifecycles against external sources, with
   callbacks delivered asynchronously through the update queue.
5. `MutableSourcePending` and `MutableSourceVersions` (done): the pending
   range, and the version fields and stacks of two renderers, composed in
   `MutableSource` (mutations schedule updates on the root, the primary
   renderer's commit clears its range).
6. `ClassErrorBoundary` (done): `updateClassComponent` /
   `finishClassComponent`, the `didCapture` path, `markRef` and
   `forceUnmountCurrentAndReconcile`.
7. `ErrorCodes` (done): id assignment in `gulp-extract-errors`, checked
   against a reference definition, and the lookups of the build transform.
8. `StatelessComponent` (done): mount, update (receive or remount and
   replace markup) and unmount of stateless components in the stack
   reconciler, with thrown render invariants.
9. `ExternalRuntime` (done): the Fizz external runtime's script, observers
   and instruction dispatch against a streaming HTML parser.
10. `RenderFinishes` (done), a liveness property of `SuspenseBoundary`.
11. `ContextPropagation` (done): the context provider and consumer, with
   the host root, host component, host text, portal, pure, forwardRef,
   mode, profiler and bailout paths of `beginWork` that carry a context
   change, a host container or a namespace through the tree.
12. Still open: the indeterminate and lazy handlers (section 12 says why).

   The Fizz browser entry and the Fabric emitter are not modelled
   (section 12).

## 3. `SuspenseBoundary`

### State

| Variable | Code |
|---|---|
| `fiber` | The fiber objects, as a heap `Fid -> record`. `alternate` is the double-buffer link. `work` stands for `expirationTime <= renderExpirationTime`. `dels` are the deletion effects recorded on a work-in-progress fiber. `fresh` marks `pendingProps` that are a newly created element, which can never be `===` to what current memoized. |
| `sstate` | The `SuspenseState` objects. They are a separate heap, so that `nextState === current.memoizedState` keeps its identity meaning. |
| `curRoot` / `wipRoot` | The root's `current` and work-in-progress boundary. |
| `next` | `nextUnitOfWork`. |
| `rootProps` | The props object the root renders the boundary with. |
| `mounted` | The instances whose mount is committed. |
| `events` | A count of external updates, used only to bound the model. |

The boundary's children are two function components, `Primary` and
`Fallback`, each a leaf with an instance identity.

### Actions

Each action does the whole step, including the garbage collection of
unreachable slots (`Settle`).

| Action | Code |
|---|---|
| `PerformUnitOfWork` | `beginWork` (`BeginWork`: the bailout, with the Suspense case at lines 1491-1508, or the dispatch to `UpdateSuspenseComponent`, `UpdateFragment` or `UpdateFunctionComponent`), then `completeUnitOfWork` if it returned null. |
| `SuspendPrimary` | The primary component throws. The unwind marks the boundary `alreadyCaptured`, cloning a state shared with current, and restarts at the boundary. |
| `Commit` | Runs the deletions, mounts the new instances, clears `alreadyCaptured` of a timed-out state, and swaps current. |
| `Abandon` | The driver discards the work-in-progress at a yield. |
| `StartRender` | `createWorkInProgress` of the boundary, or its creation on mount. |
| `UpdateContainer`, `SetState`, `ScheduleRetry` | The three sources of work: new props, an update of a content component, and the retry of a timed-out boundary. |

### Runs

- `suspense_safety`. A pass run, with line 1119 corrected in
  `MCSuspenseBoundary!FixedUpdateStillTimedOut`. It checks:
  - `TypeOK`;
  - `MountedMatchesCommittedTree`;
  - `VisibleMatchesState`;
  - `WorkInProgressIsTree`;
  - `CurrentUntouchedByRender`, an action property;
  - `PrimaryNeverRemounted`, an action property;
  - `ImplementsAbstract`: the boundary implements `SuspenseAbstract`
    (below);
  - `RenderFinishes`, a liveness property under `FairSpec`: every render
    that starts is committed or abandoned. A primary child that suspends on
    every pass is sent to the fallback on the second pass only because
    `updateSuspenseComponent` reads `alreadyCaptured` (line 1008). Read as
    `didTimeout`, which is still false on a first suspend, the loop retries
    the primary forever.

  Under the bounds below TLC explores about 78,000 states in about 30 s. All
  six branches of `updateSuspenseComponent`, the Suspense bailout, both
  clone paths, discards and commits are reached.
- `suspense_still_timed_out_alias`. A violation run of the code as written,
  checking `WorkInProgressIsTree`. It takes 13 steps:
  1. mount with the primary suspended;
  2. commit the fallback;
  3. new props;
  4. the primary suspends again.

  Then `createWorkInProgress(currentFallbackChildFragment, ...)` is called
  twice and returns the same alternate, whose `sibling` becomes itself. The
  hidden primary children drop out of the work-in-progress. The work loop
  would revisit the fallback fragment forever.

### Refinement: `SuspenseAbstract`

`SuspenseAbstract` says what a boundary promises with no fibers at all.
The container asks for props (`Request`); a commit shows the primary
children (`ShowPrimary`) or the fallback (`ShowFallback`) with the props
last asked for. The instances are what a user can observe:
- the primary instance survives timing out and comes back on unsuspend;
- the fallback instance survives a re-suspend while timed out;
- the fallback is gone once the primary children show.

`SuspenseBoundary!Abstract` instantiates it with this mapping:

| Abstract | Detailed |
|---|---|
| `requested` | `rootProps` |
| `view` | `"none"` before the first commit, else `"fallback"` when the committed state says `didTimeout`, else `"primary"` |
| `shown` | `memoizedProps` of the committed boundary |
| `primary`, `fallback` | the instances of the `Primary` / `Fallback` fibers in the committed tree |

Every render, suspension, discard, setState and retry must map to a
stutter, and every commit to one of the two abstract steps. The mutant
`UpdateSuspenseComponentKeepProps` (line 1202 dropped) breaks it at the
first commit after new props.

### Bounds

| Bound | Value | Why it is enough |
|---|---|---|
| `MaxFibers` | 12 | A timed-out boundary has 5 logical fibers, each with an alternate, and a render allocates up to 2 more. Running out of slots is an error in TLC, not a silent cut, so the bound is never hit. |
| `MaxInsts` | 4 | Instance ids are recycled once unmounted. |
| `MaxStates` | 3 | At most the current state, a work-in-progress state and a fresh clone. |
| `MaxEvents` | 3 | Three updates reach every transition pair of the boundary (Idle→TimedOut→TimedOut→Idle) with a setState in either state. |
| `Props` | `{p1, p2}` | Two props objects separate "same props" (bailout) from "new props". |

`CHECK_DEADLOCK FALSE` is set because an idle root with no pending work
waits for external events, and the events are bounded.

### Fairness

`FairSpec` assumes weak fairness of `PerformUnitOfWork` and `Commit`,
because the scheduler always continues an unfinished render and commits a
finished one. It assumes no fairness of `Abandon`, `SuspendPrimary`, the
retry or the user events. Those are the environment, and a render may be
abandoned forever.

The weak fairness is written out as `<>[](guard) => []<><<A>>_vars`
(`WorkLoopRuns`, `CommitRuns`), where `guard` is the action's enabling
condition. TLC would otherwise evaluate `ENABLED` of the whole action in
every state; this form gives the same fairness for these two actions at a
small fraction of the cost.

No fairness the code justifies makes suspended data arrive. So "an update
in hidden primary children is eventually rendered" (the line 1503 hazard)
is not checked.

## 4. `EventReplaying`

`EventReplaying` models `ReactDOMEventReplaying.js`. Its environment is the
listener (`ReactDOMEventListener`, which is not in this repository) and the
hydration of nested dehydrated containers.

### State

| Variable | Code |
|---|---|
| `queuedDiscreteEvents` | `queuedDiscreteEvents`, entries `[id, depth, blockedOn]`. `id` is the arrival number and `depth` places the target inside `Containers[1..depth]`. |
| `queuedCont` | `queuedFocus`, `queuedDrag`, `queuedMouse` and the pointer maps, one slot each (`ContSlots`). |
| `hasScheduledReplayAttempt` | The module flag of the same name. |
| `scheduled` | Replay callbacks handed to `scheduleCallback` and not yet run. |
| `hydrated` | How many containers have hydrated. Containers hydrate outermost first, so the dehydrated ones are a suffix. |
| `nextEvent`, `dispatched` | The arrival counter and the ids of discrete events dispatched, in dispatch order. |

### Actions

| Action | Code |
|---|---|
| `DiscreteEvent(depth)` | The listener's discrete path. Behind a non-empty queue the event is queued unattempted (`blockedOn` null). Otherwise it is dispatched, or queued with its blocking container by `queueDiscreteEvent` (156-175). |
| `ContinuousEvent(s, depth)` | `clearIfContinuousEvent` when the event dispatches, `queueIfContinuousEvent` when it is blocked (178-311). |
| `Hydrate` | The next container hydrates, and its commit calls `retryIfBlockedOn` (392-423). |
| `RunReplayCallback` | The scheduler runs `replayUnblockedEvents` (340-374). The callback resets the flag, replays the queue head-first until an entry is blocked, then retries every continuous slot. |

### Runs

- `event_replay`. A pass run with a root and one nested boundary, two
  continuous slots and four events in every order. TLC explores 8,845
  states. It checks:
  - `TypeOK`. At most one callback is ever pending, because of the flag.
  - `DiscreteInOrder`. Discrete events dispatch in arrival order, whether
    dispatched directly or replayed.
  - `BlockedOnDehydrated`. No entry stays blocked on a container that has
    hydrated, whether it is discrete or continuous, at the head of the queue
    or behind it.
  - `UnblockedHasCallback`. An unblocked head or continuous entry always
    has a replay callback pending.
  - `DiscreteEventuallyDispatched` and `ContinuousEventuallyCleared`
    (liveness). Every queued event is eventually replayed or superseded.

`hasAnyQueuedContinuousEvents` is never assigned after its declaration
(line 84). `hasQueuedContinuousEvents()` is therefore false even while a
blocked focus event is queued, although the comment on the flag says it
tracks whether any continuous target is non-null. The model keeps the
operator as the constant `FALSE`. No run checks it: reading the module
shows it, and there is nothing for a model checker to add.

Under the listener contract two paths are dead: the synchronous replay in
`queueDiscreteEvent`, and unblocking entries behind the head in
`retryIfBlockedOn`. In both cases the later entries are always queued with
a null `blockedOn`. Both paths are still modelled as the code has them.

### Bounds and fairness

Two containers are enough for an event to be blocked on a container that is
neither the outermost nor hydrated. It also lets one hydration leave another
container dehydrated. Four events let a discrete event queue behind a
blocked head, be re-blocked on the inner boundary, and race a continuous
event. Fairness is weak fairness of `RunReplayCallback`, because the
scheduler runs every callback it was given. There is also weak fairness of
`Hydrate`, because the liveness claims are about containers that do
hydrate. No fairness is assumed for arriving events. The run sets
`CHECK_DEADLOCK FALSE` because a fully hydrated, empty system waits for
events.

## 5. `Subscriptions`

`Subscriptions` models `createComponentWithSubscriptions.js` for one
subscribable property. The loop over `subscribablePropertiesMap` runs
independent iterations. The React class lifecycle is the environment:
- a render applies the queued updates, then `getDerivedStateFromProps`;
- a render may be discarded;
- a commit installs the rendered state and runs `componentDidMount` or
  `componentDidUpdate`;
- updates queued during a render stay queued past its commit.

There are two kinds of subscribable:
- `store` is readable: `getDataFor` returns its current value.
- `promise` is promise-like: `getDataFor` returns `undefined`, it resolves
  once, and it calls late subscribers with its value.

A subscription handle unsubscribes only the subscription it came from.

| Definition | Code |
|---|---|
| `GetDerivedStateFromProps` | Lines 59-84, as written: `prevSubscribable` is the state wrapper. |
| `ApplyUpdate` | The `valueChangedCallback` updater (117-137). It skips an equal value and a callback of another subscribable. |
| `SubscribeTo`, `UnsubscribeFrom` | Lines 113-162 and 164-172. They include the mutation of the wrapper's `subscription` and the re-read and `setState` after subscribing. |
| `ComponentDidMount`, `ComponentDidUpdate`, `ComponentWillUnmount` | Lines 86-109. They are called by the `Commit` and `ComponentWillUnmount` actions. |
| `Render`, `Discard`, `Commit`, `ParentRender`, `Emit` | The environment: React's class-component update path and the sources. |

### Runs

- `subscriptions`. A pass run in which `MCSubscriptions` substitutes
  `FixedGetDerivedStateFromProps`, which compares
  `prevState[propertyName].subscribable`. It checks:
  - `TypeOK`.
  - `SubscribedExactlyToProps`. While mounted there is exactly one
    subscription, to the committed subscribable. After unmount there is
    none.
  - `RenderedValueIsCurrent`. When nothing is pending, the rendered value is
    the current value of the committed subscribable.

  Between them, the properties cover stale callbacks (line 127) and a
  source changing between render and subscribe (152).
- `subscriptions_gdsfp_wrapper`. The code as written violates
  `RenderedValueIsCurrent` in 5 steps:
  1. mount on the promise;
  2. commit;
  3. the promise resolves;
  4. a render applies the callback's value, and `getDerivedStateFromProps`
     then overwrites it with `getDataFor(promise)`, which is `undefined`;
  5. commit.

  For a readable store the always-true comparison only costs a new state
  object per render.

### Bounds

`MaxEvents = 5` bounds parent re-renders, emissions and discards together.
That allows:
- a switch from the store to the promise and back;
- an emission between a render and its commit, which is the stale-callback
  case;
- a discarded render.

No fairness is needed, because the properties are invariants.

## 6. Mutable sources

### `MutableSourcePending`

This module covers `setPendingExpirationTime` (lines 49-69) and
`clearPendingUpdates` (29-39) over the root's two times. The ghost set
`pending` holds the updates folded in and not yet cleared. An update counts
as cleared by the test the code applies to the two ends: its time is
`<= expirationTime`.

It defines two properties. `LastIsMaxPending`: the last end is the latest
uncleared update, and `NoWork` exactly when none is left; it holds.
`FirstIsMinPending`, the same for the first end, does not hold:
`tlc -config MCMutableSourcePending_first.cfg MutableSourcePending` finds
it violated in 3 steps (updates at times 1 and 2, then a clear at 1).
- After them, `first` is `NoWork` while `last` is 2.
- The next update sets `first` to its own time, even if an earlier update
  is still pending.

spec.md §4.5 describes a range that is cleared once fully serviced. The
callers that read `first` are not in this repository, so this is a
divergence from the spec rather than an observed failure, and it is not
one of the runs in `PROJECT.json`.

### `MutableSourceVersions`

This module covers `setWorkInProgressVersion`, `getWorkInProgressVersion`,
`markSourceAsDirty` and `resetWorkInProgressVersions`.
- There are two renderers, `"primary"` and `"secondary"`. Each is its own
  bundle, with its own stack and a constant `isPrimaryRenderer`.
- The source objects are shared, with one version field per kind of
  renderer.

The environment (the mutable-source hook and the work loop) does four
things:
- it starts renders;
- it reads a source through its work-in-progress version, recording the
  current version when it has none;
- a read that finds the source changed since the recorded version restarts
  the render, which resets;
- it resets at the end of a render.

### `MutableSource`: the two together

`MutableSource` extends `MutableSourceVersions` and instantiates
`MutableSourcePending` for the primary renderer's root. The callers that
join them are outside this repository and follow spec.md §4.5:
- `MutateAndSchedule`: a source mutation notifies its subscription, which
  schedules an update on the root at one of the expiration times
  (`setPendingExpirationTime`);
- `CommitPrimary`: the primary renderer's commit at the render's time
  clears the range (`clearPendingUpdates`).

`mutable_source` is a pass run with two sources, up to 2 mutations each,
3 pushes per render and expiration times `1..3`, giving 678,212 states in
about 20 s. It checks:
- `TypeOK`, including that a stack is empty outside a render (line 85);
- `NoTearing`: one render never reads two versions of a source while the
  other renderer interleaves;
- `VersionsResetBetweenRenders`;
- `LastIsMaxPending`, now with updates arriving between reads and
  restarts of both renderers.

No fairness is needed, because all properties are invariants. Deadlock is
checked: some action is always enabled.

## 7. `ErrorCodes`

`ErrorCodes` models `scripts/error-codes/gulp-extract-errors.js` and
`transform-error-messages.js`, the two halves of production error codes.
- The source tree is a sequence of calls. Each call is an `invariant`, a
  `warning` or an `Error` call with a message.
- `codes.json` is a function from ids to messages.

| Definition | Code |
|---|---|
| `FirstNewId` | `currentID`: 0, or the largest existing id + 1 (58-65). |
| `ExtractCall`, `Assign` | The `CallExpression` exit visitor (86-111). It assigns `currentID++` to an invariant message without an id, and collects warnings. |
| `ExtractErrors` | The whole plugin: invert, fold over the calls, invert back at `flush`. |
| `InvertObject`, `KeyOrder`, `InvertKeyed` | `invertObject`, which is not in this repository, with JavaScript key order: integer keys ascend, message keys are in insertion order. |
| `TransformErrorCall`, `TransformInvariantCall`, `TransformCall` | `CallOrNewExpression`, the `invariant` branch, and the visitor that dispatches with `noMinify`. |
| `TransformErrorMessages` | A build: it loads the inverted `codes.json` and transforms every call. |

Developers can `Edit` the tree. `Extract` and `Build` steps interleave
with the edits.

- `error_codes`. A pass run with 465,296 states in 25 s. The initial
  `codes.json` is any injective map on ids `0..2`, gaps included. Trees have
  two calls, and there are up to two edits. It checks:
  - `TypeOK`.
  - `ExtractMatchesReference`, an action property. Every extraction
    writes exactly the reference definition: the existing ids unchanged,
    and new invariant messages with consecutive ids after the largest id,
    in order of first occurrence. It implies that a shipped id never
    changes meaning, so that is not checked separately.
  - `ExtractedInvariantsMinified`. A production build after extracting the
    same tree flags no `invariant` message.
- Finding, with no run of its own: `MCErrorCodes_error_calls.cfg` checks
  `ExtractedErrorsMinified`, and TLC finds it violated in 3 steps. The
  extractor only collects `invariant(...)` messages
  (`gulp-extract-errors.js` line 89), but the transform also minifies
  `Error(...)` calls. An `Error` message therefore never gets a code and
  is always flagged as an unminified production error. Run it with
  `tlc -config MCErrorCodes_error_calls.cfg MCErrorCodes`.

Two messages are enough for both effects:
- a gap in the ids, where a count-based next id would collide;
- a repeated message, which must not get a second id.

The file writes of `flush` are not modelled, and neither are their
failures; see the hazards in `PROJECT.json`. Two more paths are left out:
- the `try`/`catch` around the `require` of `codes.json`
  (`gulp-extract-errors.js` lines 50-56). An unreadable or malformed file
  silently becomes `{}`, so `currentID` restarts at 0 and the flush
  overwrites the shipped codes. The model always reads the file it wrote;
  the hazard is listed with no property;
- the build error for an `invariant` call in expression context
  (`transform-error-messages.js` lines 179-184). It stops the build and
  changes no state; the model's calls are all statements.

## 8. `ClassErrorBoundary`

`ClassErrorBoundary` models the class-component half of
`ReactFiberBeginWork.js` for one class used as an error boundary around
one child. The boundary renders the child with normal props while its
state is `ok`, and with fallback props while it is `error`. Both child sets
have the same type and key, which is exactly the case
`forceUnmountCurrentAndReconcile` is written for.

The child throws when it renders normal props and either of these holds:
- the data it reads is `broken` (it then throws on mount, the spec's
  `Boundary{Broken}` scenario);
- its own state went `bad` through a `setState`.

Two static choices about the boundary class are picked in `Init`:
- `gdsfe`: whether it defines `getDerivedStateFromError`. Without it, it is
  a legacy boundary whose `componentDidCatch` calls `setState`.
- `scu`: its `shouldComponentUpdate`, either none or one that re-renders
  only when the state changed.

| Definition | Code |
|---|---|
| `UpdateClassComponent` | `updateClassComponent` (385-447). It mounts, or runs `updateClassInstance`, which is modelled from spec.md: it processes the boundary's update queue and asks `shouldComponentUpdate` when props or state changed. |
| `FinishClassComponent`, `RenderAndReconcile` | `finishClassComponent` (449-544). |
| `MarkRef` | `markRef` (341-350). |
| `ForceUnmountCurrentAndReconcile` | Lines 161-191: delete every current child, then mount as if there were no current child. |
| `ReconcileChildren` | Lines 128-159. |
| `BailoutOnAlreadyFinishedWork` | Lines 1387-1420. |
| `BeginBoundary` | The `ClassComponent` case of `beginWork` (1557-1567). |
| `ThrowException`, `Commit`, `StartRender`, `RenderChild` | The unwind, the commit and the work loop, modelled from spec.md. `ThrowException` marks the boundary `DidCapture`, adds the `getDerivedStateFromError` update and restarts at the boundary. `Commit` runs deletions, mounts, the Ref effect, and the `setState` of `componentDidCatch`. |

The environment consists of the parent rendering a new element (possibly
with another ref), the child's `setState`, and the fallback's reset button.

Run `class_error_boundary` is a pass run with 8,166 states, covering all
four boundary classes. It checks:
- `TypeOK`.
- `MountedMatchesCommitted`: the mounted child instances are exactly the
  committed child.
- `ThrownInstancesUnmounted`, an action property: no commit leaves an
  instance that threw mounted. This covers both cases:
  - the fallback is not given the old instance after a capture;
  - a child that threw on mount never mounts.
- `RefAttachedToCommitted`: the boundary is attached to the ref of the
  committed element, also when `shouldComponentUpdate` returned false.
- `CaughtErrorShowsFallback`, a liveness property: a caught error
  eventually commits the fallback. For a legacy boundary this happens after
  the null children and the `setState` of `componentDidCatch`.

Each property has its own mutant, a plausible slip in the code:

| Mutant | Property it breaks |
|---|---|
| Dropping the first pass of `forceUnmountCurrentAndReconcile` | `MountedMatchesCommitted` |
| Reconciling normally after a capture | `ThrownInstancesUnmounted` |
| Calling `markRef` after the bailout | `RefAttachedToCommitted` |
| Letting `shouldComponentUpdate` bail out a captured render | `CaughtErrorShowsFallback`: the child throws again forever |

Fairness: weak fairness of `StartRender`, `BeginBoundary`, `RenderChild`,
`ThrowException` and `Commit`. The modelled mode is synchronous, and a
pending render runs to completion. The parent, the `setState` calls and the
reset have no fairness.

Bounds:
- Three instance ids: one mounted, one that threw and one new.
- Two refs plus null.
- Three environment events. That is enough for a mount, a bad `setState`,
  a ref change and a reset in one behaviour.

Not modelled here: legacy context (`push`/`invalidateContextProvider`), the
profiler timer, and a second throw from the fallback, which would
propagate to the root.

## 9. `StatelessComponent`

`StatelessComponent` models `ReactStatelessComponent.js`: the internal
instance of a stateless function component in the stack reconciler. Its
collaborators are not in this repository and form the environment:
`instantiateReactComponent`, `shouldUpdateReactComponent` (same type and
key, or both empty), host and empty leaf components, and `ReactMount`.

A render function is a table `Render(type, props)` given by the MC module.
It returns an element, `Nil` (an empty component) or `Invalid` (rejected by
the invariant of `_renderValidatedComponent`). A whole top-level render or
unmount is one step, as the code is synchronous. A thrown invariant, or the
TypeError of unmounting a half-mounted component, ends the step with the
writes made before it in place; `failed` records that a call threw.

| Definition | Code |
|---|---|
| `MountComponent` | `construct`, `nextMountID` and `mountComponent` (27-111): the mount order, the instance map entry, the render, then instantiate and mount the rendered element. |
| `UnmountComponent` | `unmountComponent` (113-134). |
| `ReceiveComponent` | `receiveComponent`, `updateComponent`, `_performComponentUpdate` (136-228). |
| `UpdateRenderedComponent` | `_updateRenderedComponent` and `_replaceNodeWithMarkupByID` (230-275). |
| `RenderValidatedComponent` | `_renderValidatedComponent` and its helper (277-335). Context and owner are set and restored around the render and keep no state between calls. |
| `RenderTop`, `UnmountTop`, `MountNewRoot` | `ReactMount` (environment). |

Run `stateless_component` is a pass run with 1,051 states. In its MC
module, `Outer` passes its props to an unkeyed `Inner`, to a keyed `Inner`
(a key change), or renders a span (a type change). `Inner` renders a span,
null, or an invalid value. Up to four top-level renders and unmounts are
allowed, and six heap slots are enough for a remount, which briefly holds
two chains. It checks:
- `TypeOK`, including that every mounted component has a mount order.
- `TreeMatchesRender`: until a call throws, each component's rendered child
  is what its render returns, and the container shows the leaf's markup.
- `InstanceMapMatchesMounted`: until a call throws, the instance map holds
  exactly the mounted stateless components.
- `MountOrderTopDown`: a component's mount order is smaller than that of
  what it rendered.

Each property has its own mutant:

| Mutant | Property it breaks |
|---|---|
| Not assigning the mount order | `TypeOK` |
| Taking the mount order after mounting the child | `MountOrderTopDown` |
| Not unmounting the previous child | `InstanceMapMatchesMounted` |
| Not replacing the markup | `TreeMatchesRender` |

The model reaches the state after a throw, but React makes no promise
about it, so no property constrains it. After a failed remount, the
component's `_renderedComponent` is half-mounted, and the next update or
unmount throws a TypeError. Both are listed as hazards.

## 10. `ExternalRuntime`

The external runtime is a script the Fizz server can send instead of
inline `<script>` instructions. It runs the instruction templates
(`<template data-ri=...>`) the server streams into `<body>`, and leaves
the placeholder templates (`<template id="B:0">`, no `data-ri`) alone.

### State and actions

| Variable | Code / browser |
|---|---|
| `sent`, `toParse` | The order the server sent `<body>` and the templates in; what the parser has not appended yet. |
| `readyState`, `hasBody`, `dclFired` | `document.readyState`, `document.body != null`, `DOMContentLoaded` has fired. |
| `body` | The templates in `<body>`, in document order. |
| `script` | Whether the runtime script has run. |
| `bodyObs`, `instrObs`, `dclListener` | `domBodyObserver` and `fizzInstrObserver` are connected; the `DOMContentLoaded` listener is registered. |
| `bodyRecord`, `records` | Mutation records waiting for delivery to each observer. |
| `log` | Ghost: the instructions run, in order. |

| Action | Code |
|---|---|
| `RunScript` | The top level, lines 19-41: install an observer (or wait for body), then `handleExistingNodes`. |
| `BodyObserverCallback` | Lines 25-34. |
| `InstrObserverCallback` | Lines 51-60, through `HandleAdded` and `HandleNode` (71-117). |
| `ParseChunk(k)`, `FinishParsing`, `FireDOMContentLoaded` | The browser: the parser appends the next `k` streamed nodes in one task; parsing ends; the event fires. |

A task action is enabled only when no mutation record is waiting: records
are delivered in a microtask before the next task. `disconnect` drops
records not yet delivered. What an instruction does (`completeBoundary`,
`completeSegment`, ...) lives in `fizz-instruction-set`, which is not in
this repository; running one is appending it to `log`.

### Runs

- `external_runtime`. A pass run with `handleExistingNodes` scanning a
  static list (`MCExternalRuntime!FixedHandleExistingNodes`, as
  `querySelectorAll` would). It checks:
  - `TypeOK`;
  - `InstructionsInStreamOrder`: `log` is always a prefix of the
    instructions in the order sent (none skipped, none twice);
  - `EveryInstructionRuns`: eventually every instruction sent has run;
  - `ObserversReleased`: both observers end disconnected for good.
- `external_runtime_live_collection`. A violation run of the code as
  written, checking `EveryInstructionRuns`. `handleExistingNodes` walks
  `document.getElementsByTagName('template')`, a live collection, with
  `i++` while `handleNode` removes each instruction template. The template
  after a removed one moves to index `i` and is stepped over. The observer
  reports only nodes added after it was installed, so a skipped
  instruction never runs. TLC's trace has 5 steps: the parser appends
  `<body>` and three instruction templates, then the script runs; it runs
  the first and third and never the second.

### Bounds and fairness

- Three instruction templates and one placeholder, in all 24 orders after
  `<body>`. Three instructions make a skipped one land between two that
  run; the placeholder shows that a template without `data-ri` is
  neither run nor removed.
- `MaxChunk = 3`: the parser appends up to three nodes per task. So
  `<body>` and templates arrive in one task before `domBodyObserver`'s
  microtask runs, and one callback gets several records.
- The script runs at any point: before `<body>` (from `<head>`), during
  the stream, after parsing ends, or after `DOMContentLoaded`, as an
  async script can.
- Every action is weakly fair. The parser and the event loop progress,
  microtasks always run, and the script the server sent eventually loads.
  `CHECK_DEADLOCK FALSE` is set because a loaded page has nothing left to
  do.

## 11. `ContextPropagation`

`ContextPropagation` models one context threaded through the begin phase of
`ReactFiberBeginWork.js`. The pieces outside `src/` are modelled from
`spec.md` sections 2, 4.1, 4.2 and 5:
- the shared value stack of `ReactFiberStack` (`push` saves a cursor's
  value, `pop` restores the top value into the given cursor and does
  nothing on an empty stack);
- the cursors on it: the provider value, and the host container,
  host-context fiber and host context (`pushHostContainer`,
  `pushHostContext`, which pushes only when `getChildNamespace` changes
  the namespace, `popHostContext`, which pops only when the cursor names
  this fiber, and `getChildNamespace` itself: `svg` enters SVG, a
  `foreignObject` inside SVG returns to HTML);
- `completeWork`: the pops by tag, and the reads of the root container and
  host context by a host component (on mount, or on an update whose props
  changed) and a host text (on mount);
- `propagateContextChange`;
- `completeUnitOfWork`;
- the unwind of an abandoned render;
- the commit;
- `scheduleWork`.

### State and actions

The application is a constant tree (`Tag`, `Children`). Reconciliation
therefore always reuses the current fiber, and `cur[n]` and `wip[n]` are
the two alternates of fiber `n`. A fiber keeps only these fields:
- the datum `d` its props carry (a provider's `value`, a pure component's
  prop);
- `fresh`: `pendingProps !== memoizedProps`;
- `kids`: `props.children` is a new object;
- the class `state` and a pending `setState`;
- the value a consumer `shown`;
- the container and namespace a host instance `seen` when it was created
  or prepared;
- `work` and `childWork`, the expiration times at one priority.

`ctx` is `_currentValue`, `cursor` the four cursors and `stack` the one
value stack they all push onto. `StartRender` does not reset them: as in
the code, only the pops of the previous render or of the unwind leave the
stack empty, so a missing pop shows up in the next render.

The actions are:
- one action per `beginWork` path: the fast-path bailout (line 1447, which
  still pushes the root's container, a host component's context, a
  portal's container and a provider's value), `updateHostRoot` (with
  `pushHostRootContext`), `updateHostComponent`, `updateHostText`,
  `updatePortalComponent`, `updateContextProvider`, `updateContextConsumer`, a class component
  without lifecycles, `updateMode`, `updateProfiler`,
  `updatePureComponent` and `updateForwardRef`. Each one includes the
  `completeUnitOfWork` that follows a fiber with no child: it pops by
  tag, records what host instances read, and recomputes child work;
- the environment: `StartRender`, `Abandon` (the unwind pops every
  provider, container and host context on the path), `Commit`, `UpdateContainer` (`root.render`) and
  `SetState`.

`updateContextProvider` reads `oldProps` before line 1252 overwrites
`memoizedProps`. When the value changed, it marks the consumers below it on
the current fibers. Marks stop at a nested provider. Its children are then
reconciled from those marked fibers, since `workInProgress.child` is still
the current child when the propagation runs.

### Run

- `context_propagation`. A pass run: about 5,000 distinct states in 30 s,
  with every action taken. It checks:
  - `TypeOK`;
  - `ReadersSeeNearestAncestor`: every committed consumer shows its
    nearest provider's value, and every committed host instance saw its
    nearest container and the namespace computed down its ancestors.

  Breaking the property takes several steps by different fibers: a root
  render or a `setState`, a bailout of a pure component, forwardRef or
  provider, the propagation, the cloning of marked children, the pops, and
  the commit. The mutants show that the properties catch four bugs:
  - pushing the props object instead of the value (`TypeOK`);
  - a bailed-out portal that does not push its container: the svg under
    the portal, updated after the class's setState, is prepared against
    the root container;
  - a `popHostContext` that pops whether or not its fiber pushed: it
    consumes a provider's or container's saved value and every later
    reader is off by one;
  - comparing against `memoizedProps` after it was overwritten. No change
    is then seen, and consumers behind a bailout keep the old value.

### Bounds

The tree is HostRoot 0 > Provider 1 > Class 2 > HostComponent 3 (`svg`)
> Pure 4. Pure 4 renders Consumer 5, Provider 6 > Profiler 7 >
ForwardRef 8 > Consumer 9, and Portal 10 into a second container whose
namespace is SVG. The portal holds HostComponent 11 (`svg`) > Mode 12 >
{HostComponent 13 (`foreignObject`) > HostComponent 16 (`div`),
Consumer 14, HostText 15}.
- The two containers and the namespaces cover each branch of
  `getChildNamespace`: pushes that change the namespace (3 enters SVG,
  13 returns to HTML) and host components that push nothing (11 inside an
  SVG container, 16 inside HTML).
- Provider 1 takes its value from `root.render`. Provider 6 takes its value
  from the class state, passed down through the svg element 3 and Pure 4.
- Consumer 9 sits under a nested provider, so propagation from 1 must stop
  there.
- Consumer 5 sits under a pure component that bails out whenever its prop
  is unchanged.
- Two values and `MaxEvents = 4` renders or setStates cover these cases:
  - a value change with the same children (propagation through bailouts);
  - an unchanged value with new children;
  - a setState below an unchanged provider (the fast-path push);
  - renders abandoned at every fiber.

`CHECK_DEADLOCK FALSE` is set because an idle root waits for events.

## 12. Not modelled

- The Fizz browser entry (`ReactDOMFizzServerBrowserImpl.js`). Its three
  functions pass options to `createRequest` and wire its callbacks to a
  promise, a `ReadableStream` and an `AbortSignal`. Every state change
  happens in `ReactFizzServer`, which is not in this repository; what is
  left of the entry is the promise and listener wiring, with no step a
  model of its own could check.
- The Fabric event emitter. `dispatchEvent` is one synchronous pass: it
  reads the target's `stateNode`, emits two telemetry events and runs the
  plugins in a batch. The plugin registry, batching and event queue it
  calls live outside this repository, so no state of its own remains.
- Effect lists and their order. Placement effects and return pointers are
  left out: the commit only needs deletions and the resulting tree.
- Expiration times as numbers, beyond pending or not.
- In `SuspenseBoundary`: context, refs, class components and host
  components. Class components and refs are in `ClassErrorBoundary`;
  context is in `ContextPropagation`.
- In `ContextPropagation`:
  - `changedBits` and `observedBits`, so every change reaches every
    consumer of the context;
  - several contexts;
  - legacy context;
  - updates scheduled during a render (setState and `root.render()` happen
    between renders);
  - the direct-text-child optimisation and `ContentReset` of
    `updateHostComponent`, and the deprioritisation of hidden subtrees;
  - hydration;
  - the DEV host context objects (the model uses the production
    namespace strings, as model values);
  - `updateIndeterminateComponent` and the lazy handlers: they resolve a
    component's type, which the constant tree never changes, so only
    their calls to the handlers already modelled would remain.
- `timedOutAt`. The render-prop form of `children`, where `children` is a
  function (line 1036).
- The components listed as `not_modelled` in `PROJECT.json`: pure
  configuration, tests, the documentation site, and I/O glue.
