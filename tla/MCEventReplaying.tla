------------------------- MODULE MCEventReplaying --------------------------
(* Model-checking instance of EventReplaying: a root container with one    *)
(* nested dehydrated Suspense boundary, and two continuous slots.          *)
EXTENDS EventReplaying

CONSTANTS root, boundary, focus, pointer

MCContainers == <<root, boundary>>
MCContSlots == {focus, pointer}
====
