---------------------------- MODULE EventReplaying ----------------------------
(***************************************************************************)
(* Replaying of events that arrived while their target was not hydrated.   *)
(*                                                                         *)
(* Source: packages/react-dom/src/events/ReactDOMEventReplaying.js.        *)
(*                                                                         *)
(* Dehydrated containers are nested: Containers[1] is outermost and a      *)
(* container hydrates only after the ones around it, so the dehydrated     *)
(* ones are always a suffix of Containers.  An event's target is given by  *)
(* its depth d: it lies inside Containers[1..d].  attemptToDispatchEvent   *)
(* (ReactDOMEventListener, not in this repository) dispatches the event    *)
(* when all those containers are hydrated and otherwise returns the        *)
(* outermost dehydrated one.  The listener that calls into this module is  *)
(* the environment: it queues a discrete event behind any already queued   *)
(* one, and otherwise tries to dispatch and queues it only when blocked.   *)
(*                                                                         *)
(* The continuous slots stand for queuedFocus, queuedDrag, queuedMouse and *)
(* the entries of the pointer maps, which the code treats alike.  Event    *)
(* types, flags and native events are abstracted to an arrival number.     *)
(***************************************************************************)
EXTENDS Integers, Sequences, SequencesExt, FiniteSets

CONSTANTS
  Nil,
  Containers,  \* sequence of the nested dehydrated containers, outermost first
  ContSlots,   \* continuous-event slots (focus, drag, mouse, pointer ids)
  MaxEvents    \* number of native events that arrive

ASSUME MaxEvents \in Nat /\ Nil \notin ContSlots

Depths == 0..Len(Containers)
BlockedOnVal == {Containers[i] : i \in 1..Len(Containers)} \cup {Nil}
Entry == [id: 1..MaxEvents, depth: Depths, blockedOn: BlockedOnVal]

VARIABLES
  queuedDiscreteEvents,       \* the FIFO of discrete events
  queuedCont,                 \* ContSlots -> Entry or Nil
  hasScheduledReplayAttempt,
  scheduled,                  \* replay callbacks pending in the scheduler
  hydrated,                   \* number of hydrated containers, outermost first
  nextEvent,                  \* arrival number of the next native event
  dispatched                  \* ids of dispatched discrete events, in order

vars == <<queuedDiscreteEvents, queuedCont, hasScheduledReplayAttempt,
          scheduled, hydrated, nextEvent, dispatched>>

-----------------------------------------------------------------------------

\* attemptToDispatchEvent: Nil when dispatched, else the container it is
\* still blocked on.
AttemptToDispatch(depth) ==
  IF depth <= hydrated THEN Nil ELSE Containers[hydrated + 1]

\* hasQueuedDiscreteEvents
HasQueuedDiscreteEvents == Len(queuedDiscreteEvents) > 0

\* hasQueuedContinuousEvents: returns hasAnyQueuedContinuousEvents, which
\* is initialised to false and assigned nowhere else in the module.
HasQueuedContinuousEvents == FALSE

\* createQueuedReplayableEvent
CreateQueuedReplayableEvent(blockedOn, id, depth) ==
  [id |-> id, depth |-> depth, blockedOn |-> blockedOn]

\* Mutant: a blocked head is skipped and the entries behind it replayed.
RECURSIVE ReplayDiscreteSkipBlocked(_, _)
ReplayDiscreteSkipBlocked(q, out) ==
  IF q = <<>> THEN [queue |-> q, out |-> out]
  ELSE IF Head(q).blockedOn # Nil
  THEN LET r == ReplayDiscreteSkipBlocked(Tail(q), out)
       IN [queue |-> <<Head(q)>> \o r.queue, out |-> r.out]
  ELSE LET nextBlockedOn == AttemptToDispatch(Head(q).depth)
       IN IF nextBlockedOn # Nil
          THEN ReplayDiscreteSkipBlocked([q EXCEPT ![1].blockedOn = nextBlockedOn], out)
          ELSE ReplayDiscreteSkipBlocked(Tail(q), Append(out, Head(q).id))

\* Mutant: the head is shifted off even when the attempt found it blocked.
RECURSIVE ReplayDiscreteDropBlocked(_, _)
ReplayDiscreteDropBlocked(q, out) ==
  IF q = <<>> \/ Head(q).blockedOn # Nil THEN [queue |-> q, out |-> out]
  ELSE IF AttemptToDispatch(Head(q).depth) # Nil
       THEN ReplayDiscreteDropBlocked(Tail(q), out)
       ELSE ReplayDiscreteDropBlocked(Tail(q), Append(out, Head(q).id))

\* The loop of replayUnblockedEvents over the discrete queue: dispatch heads
\* until one is blocked; an attempt that finds it blocked records where.
\* Returns the new queue and the ids it dispatched.
RECURSIVE ReplayDiscrete(_, _)
ReplayDiscrete(q, out) ==
  IF q = <<>> \/ Head(q).blockedOn # Nil THEN [queue |-> q, out |-> out]
  ELSE LET nextBlockedOn == AttemptToDispatch(Head(q).depth)
       IN IF nextBlockedOn # Nil
          THEN ReplayDiscrete([q EXCEPT ![1].blockedOn = nextBlockedOn], out)
          ELSE ReplayDiscrete(Tail(q), Append(out, Head(q).id))

\* attemptReplayQueuedEvent for a continuous slot: the new slot value
\* (Nil once dispatched).
AttemptReplayQueuedEvent(e) ==
  IF e = Nil THEN Nil
  ELSE IF e.blockedOn # Nil THEN e
  ELSE IF AttemptToDispatch(e.depth) # Nil
       THEN [e EXCEPT !.blockedOn = AttemptToDispatch(e.depth)]
  ELSE Nil

\* Mutant: the scheduled-attempt flag is not reset.
ReplayUnblockedEventsKeepFlag ==
  LET r == ReplayDiscrete(queuedDiscreteEvents, <<>>)
  IN /\ hasScheduledReplayAttempt' = hasScheduledReplayAttempt
     /\ queuedDiscreteEvents' = r.queue
     /\ dispatched' = dispatched \o r.out
     /\ queuedCont' = [s \in ContSlots |-> AttemptReplayQueuedEvent(queuedCont[s])]

\* replayUnblockedEvents: reset the flag, replay the discrete queue, then
\* every continuous slot.  Expressed over the current state; callers add
\* the rest of their own step.
ReplayUnblockedEvents ==
  LET r == ReplayDiscrete(queuedDiscreteEvents, <<>>)
  IN /\ hasScheduledReplayAttempt' = FALSE
     /\ queuedDiscreteEvents' = r.queue
     /\ dispatched' = dispatched \o r.out
     /\ queuedCont' = [s \in ContSlots |-> AttemptReplayQueuedEvent(queuedCont[s])]

\* scheduleCallbackIfUnblocked over an entry: the entry after it and
\* whether a callback is to be scheduled.
UnblockIf(e, unblocked) ==
  IF e # Nil /\ e.blockedOn = unblocked THEN [e EXCEPT !.blockedOn = Nil] ELSE e
WantsCallback(e, unblocked) == e # Nil /\ e.blockedOn = unblocked

\* Mutant: a callback is scheduled without looking at the flag.
RetryIfBlockedOnNoFlagCheck(unblocked) ==
  LET q  == queuedDiscreteEvents
      sched == (Len(q) > 0 /\ WantsCallback(q[1], unblocked))
               \/ \E s \in ContSlots : WantsCallback(queuedCont[s], unblocked)
  IN /\ queuedDiscreteEvents' = [i \in 1..Len(q) |-> UnblockIf(q[i], unblocked)]
     /\ queuedCont' = [s \in ContSlots |-> UnblockIf(queuedCont[s], unblocked)]
     /\ hasScheduledReplayAttempt' = (hasScheduledReplayAttempt \/ sched)
     /\ scheduled' = IF sched THEN scheduled + 1 ELSE scheduled

\* Mutant: returns early when no discrete event is queued.
RetryIfBlockedOnDiscreteOnly(unblocked) ==
  LET q  == queuedDiscreteEvents
      sched == Len(q) > 0 /\ WantsCallback(q[1], unblocked)
  IN IF Len(q) = 0 THEN UNCHANGED <<queuedDiscreteEvents, queuedCont, hasScheduledReplayAttempt, scheduled>>
     ELSE /\ queuedDiscreteEvents' = [i \in 1..Len(q) |-> UnblockIf(q[i], unblocked)]
          /\ queuedCont' = [s \in ContSlots |-> UnblockIf(queuedCont[s], unblocked)]
          /\ hasScheduledReplayAttempt' = (hasScheduledReplayAttempt \/ sched)
          /\ scheduled' = IF sched /\ ~hasScheduledReplayAttempt THEN scheduled + 1 ELSE scheduled

\* Mutant: only the discrete head can schedule the callback.
RetryIfBlockedOnHeadOnly(unblocked) ==
  LET q  == queuedDiscreteEvents
      sched == Len(q) > 0 /\ WantsCallback(q[1], unblocked)
  IN /\ queuedDiscreteEvents' = [i \in 1..Len(q) |-> UnblockIf(q[i], unblocked)]
     /\ queuedCont' = [s \in ContSlots |-> UnblockIf(queuedCont[s], unblocked)]
     /\ hasScheduledReplayAttempt' = (hasScheduledReplayAttempt \/ sched)
     /\ scheduled' = IF sched /\ ~hasScheduledReplayAttempt THEN scheduled + 1 ELSE scheduled

\* retryIfBlockedOn: the head and the continuous entries blocked on
\* `unblocked` are unblocked with a callback scheduled (once); the other
\* discrete entries are only unblocked.
RetryIfBlockedOn(unblocked) ==
  LET q  == queuedDiscreteEvents
      sched == (Len(q) > 0 /\ WantsCallback(q[1], unblocked))
               \/ \E s \in ContSlots : WantsCallback(queuedCont[s], unblocked)
      newSchedule == sched /\ ~hasScheduledReplayAttempt
  IN /\ queuedDiscreteEvents' = [i \in 1..Len(q) |-> UnblockIf(q[i], unblocked)]
     /\ queuedCont' = [s \in ContSlots |-> UnblockIf(queuedCont[s], unblocked)]
     /\ hasScheduledReplayAttempt' = (hasScheduledReplayAttempt \/ sched)
     /\ scheduled' = IF newSchedule THEN scheduled + 1 ELSE scheduled

-----------------------------------------------------------------------------
(* Actions.                                                                *)

\* A discrete event arrives (the listener's discrete path): queued behind
\* a non-empty queue with no target; otherwise dispatched, or queued with
\* the container it is blocked on (queueDiscreteEvent).  queueDiscreteEvent
\* replays at once when it queues an unblocked event as the only entry.
DiscreteEvent(depth) ==
  /\ nextEvent <= MaxEvents
  /\ LET id == nextEvent
         blockedOn == IF HasQueuedDiscreteEvents THEN Nil ELSE AttemptToDispatch(depth)
         dispatchedNow == ~HasQueuedDiscreteEvents /\ blockedOn = Nil
         q == Append(queuedDiscreteEvents, CreateQueuedReplayableEvent(blockedOn, id, depth))
     IN IF dispatchedNow
        THEN /\ dispatched' = Append(dispatched, id)
             /\ UNCHANGED <<queuedDiscreteEvents, queuedCont, hasScheduledReplayAttempt, scheduled>>
        ELSE IF blockedOn = Nil /\ Len(q) = 1
        THEN /\ LET r == ReplayDiscrete(q, <<>>)
                IN /\ queuedDiscreteEvents' = r.queue
                   /\ dispatched' = dispatched \o r.out
             /\ hasScheduledReplayAttempt' = FALSE
             /\ queuedCont' = [s \in ContSlots |-> AttemptReplayQueuedEvent(queuedCont[s])]
             /\ UNCHANGED scheduled
        ELSE /\ queuedDiscreteEvents' = q
             /\ UNCHANGED <<dispatched, queuedCont, hasScheduledReplayAttempt, scheduled>>
  /\ nextEvent' = nextEvent + 1
  /\ UNCHANGED hydrated

\* A continuous event of slot s arrives: dispatched (clearIfContinuousEvent
\* drops the queued one of its kind) or queued in place of the queued one
\* (queueIfContinuousEvent; a new native event, so no accumulation).
ContinuousEvent(s, depth) ==
  /\ nextEvent <= MaxEvents
  /\ LET blockedOn == AttemptToDispatch(depth)
     IN queuedCont' = [queuedCont EXCEPT ![s] =
                         IF blockedOn = Nil THEN Nil
                         ELSE CreateQueuedReplayableEvent(blockedOn, nextEvent, depth)]
  /\ nextEvent' = nextEvent + 1
  /\ UNCHANGED <<queuedDiscreteEvents, hasScheduledReplayAttempt, scheduled,
                 hydrated, dispatched>>

\* The next container finishes hydrating and its commit calls
\* retryIfBlockedOn on it.
Hydrate ==
  /\ hydrated < Len(Containers)
  /\ hydrated' = hydrated + 1
  /\ RetryIfBlockedOn(Containers[hydrated + 1])
  /\ UNCHANGED <<nextEvent, dispatched>>

\* The scheduler runs a pending replayUnblockedEvents callback.
RunReplayCallback ==
  /\ scheduled > 0
  /\ scheduled' = scheduled - 1
  /\ ReplayUnblockedEvents
  /\ UNCHANGED <<hydrated, nextEvent>>

Init ==
  /\ queuedDiscreteEvents = <<>>
  /\ queuedCont = [s \in ContSlots |-> Nil]
  /\ hasScheduledReplayAttempt = FALSE
  /\ scheduled = 0
  /\ hydrated = 0
  /\ nextEvent = 1
  /\ dispatched = <<>>

Next ==
  \/ \E d \in Depths : DiscreteEvent(d)
  \/ \E s \in ContSlots, d \in Depths : ContinuousEvent(s, d)
  \/ Hydrate
  \/ RunReplayCallback

\* The scheduler runs every callback it was given, and hydration of the
\* remaining containers is eventually scheduled and completes.
Fairness == WF_vars(RunReplayCallback) /\ WF_vars(Hydrate)

Spec == Init /\ [][Next]_vars /\ Fairness

-----------------------------------------------------------------------------
(* Properties.                                                             *)

TypeOK ==
  /\ queuedDiscreteEvents \in Seq(Entry)
  /\ queuedCont \in [ContSlots -> Entry \cup {Nil}]
  /\ hasScheduledReplayAttempt \in BOOLEAN
  /\ scheduled \in 0..1
  /\ hydrated \in Depths
  /\ nextEvent \in 1..MaxEvents + 1
  /\ dispatched \in Seq(1..MaxEvents)

QueuedEntries ==
  {queuedDiscreteEvents[i] : i \in 1..Len(queuedDiscreteEvents)}
    \cup {queuedCont[s] : s \in {t \in ContSlots : queuedCont[t] # Nil}}

\* Discrete events are dispatched in the order they arrived, whether
\* directly or by replay: a blocked head holds back every later event.
DiscreteInOrder == IsSorted(dispatched, <)

\* No queued event records a container that has already hydrated:
\* retryIfBlockedOn clears every entry blocked on it, not only the head.
BlockedOnDehydrated ==
  \A e \in QueuedEntries :
    e.blockedOn # Nil => \E i \in hydrated + 1..Len(Containers) : Containers[i] = e.blockedOn

\* An unblocked queued event always has a replay callback pending, unless a
\* blocked discrete head is what holds it back.
UnblockedHasCallback ==
  LET q == queuedDiscreteEvents
      headWaits == Len(q) > 0 /\ q[1].blockedOn = Nil
      contWaits == \E s \in ContSlots : queuedCont[s] # Nil /\ queuedCont[s].blockedOn = Nil
  IN (headWaits \/ contWaits) => scheduled > 0

\* Every discrete event that arrives is eventually dispatched.
DiscreteEventuallyDispatched ==
  \A i \in 1..MaxEvents :
    (\E k \in 1..Len(queuedDiscreteEvents) : queuedDiscreteEvents[k].id = i)
      ~> (\E k \in 1..Len(dispatched) : dispatched[k] = i)

\* Every queued continuous event is eventually replayed or superseded.
ContinuousEventuallyCleared ==
  \A s \in ContSlots : queuedCont[s] # Nil ~> queuedCont[s] = Nil

=============================================================================
