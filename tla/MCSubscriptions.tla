--------------------------- MODULE MCSubscriptions ---------------------------
(***************************************************************************)
(* Instance of Subscriptions for TLC: a readable subscribable (a store     *)
(* whose getDataFor reads its current value) and a promise-like one        *)
(* (getDataFor returns undefined until it resolves), two values.           *)
(***************************************************************************)
EXTENDS Subscriptions

CONSTANTS store, promise, v1, v2

MCSources == {store, promise}
MCReadable == {store}
MCValues == {v1, v2}

\* getDerivedStateFromProps with prevSubscribable taken as the subscribable
\* the previous wrapper holds (prevState[propertyName].subscribable), which
\* is what the loop's names and the comment "Read value (if sync read is
\* possible)" describe.
FixedGetDerivedStateFromProps(nextSubscribable, prevWrapper) ==
  IF prevWrapper = Undef \/ prevWrapper.subscribable # nextSubscribable
  THEN [subscribable |-> nextSubscribable,
        value        |-> GetDataFor(nextSubscribable),
        subscription |-> IF prevWrapper = Undef THEN Nil ELSE prevWrapper.subscription]
  ELSE Nil

=============================================================================
