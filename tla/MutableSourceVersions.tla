------------------------ MODULE MutableSourceVersions ------------------------
(***************************************************************************)
(* Work-in-progress versions of mutable sources, for a primary and a       *)
(* secondary renderer rendering concurrently over the same sources.        *)
(*                                                                         *)
(* Source: packages/react-reconciler/src/ReactMutableSource.js.            *)
(*                                                                         *)
(* Each renderer is its own bundle, so it has its own copy of the module's *)
(* stacks and a constant isPrimaryRenderer; the source object is shared    *)
(* and has one version field per kind of renderer.  The callers (the       *)
(* mutable-source hook and the work loop, not in this repository) are the  *)
(* environment: a render reads a source by taking its work-in-progress     *)
(* version, or, if none, the source's current version, which it records    *)
(* with setWorkInProgressVersion; a read that finds the source changed     *)
(* since that version is unsafe and restarts the render; a finished or     *)
(* restarted render calls resetWorkInProgressVersions.                     *)
(***************************************************************************)
EXTENDS Integers, Sequences, FiniteSets

CONSTANTS
  Null,
  Sources,
  MaxMutations,   \* bound on source mutations
  MaxStack        \* bound on pushes to a renderer's stack in one render

Renderers == {"primary", "secondary"}
IsPrimaryRenderer(r) == r = "primary"

VARIABLES
  version,     \* the source's current version (its getVersion())
  wipVersion,  \* Sources -> [_workInProgressVersionPrimary/Secondary]
  stack,       \* Renderers -> workInProgressPrimary/SecondarySources
  rendering,   \* Renderers -> a render is in progress
  reads        \* ghost: Renderers -> Sources -> versions read this render

vars == <<version, wipVersion, stack, rendering, reads>>

-----------------------------------------------------------------------------

\* Mutant: the version field is chosen without isPrimaryRenderer.
GetWorkInProgressVersionPrimaryOnly(r, s) == wipVersion[s]["primary"]

\* getWorkInProgressVersion
GetWorkInProgressVersion(r, s) ==
  IF IsPrimaryRenderer(r) THEN wipVersion[s]["primary"] ELSE wipVersion[s]["secondary"]

\* Mutant: the version is set but the source is not pushed.
SetWorkInProgressVersionNoPush(r, s, v) ==
  /\ wipVersion' = [wipVersion EXCEPT ![s][IF IsPrimaryRenderer(r) THEN "primary" ELSE "secondary"] = v]
  /\ UNCHANGED stack

\* setWorkInProgressVersion: set the renderer's field and push the source.
SetWorkInProgressVersion(r, s, v) ==
  /\ wipVersion' = [wipVersion EXCEPT ![s][IF IsPrimaryRenderer(r) THEN "primary" ELSE "secondary"] = v]
  /\ stack' = [stack EXCEPT ![r] = Append(@, s)]

\* markSourceAsDirty: push the source.
MarkSourceAsDirty(r, s) ==
  stack' = [stack EXCEPT ![r] = Append(@, s)]

\* Mutant: the fields are nulled but the stack is not truncated.
ResetWorkInProgressVersionsKeepStack(r) ==
  LET field == IF IsPrimaryRenderer(r) THEN "primary" ELSE "secondary"
      onStack == {stack[r][i] : i \in 1..Len(stack[r])}
  IN /\ wipVersion' = [s \in Sources |->
                         IF s \in onStack THEN [wipVersion[s] EXCEPT ![field] = Null]
                         ELSE wipVersion[s]]
     /\ UNCHANGED stack

\* resetWorkInProgressVersions: null the renderer's field of every source
\* on its stack, then empty the stack.
ResetWorkInProgressVersions(r) ==
  LET field == IF IsPrimaryRenderer(r) THEN "primary" ELSE "secondary"
      onStack == {stack[r][i] : i \in 1..Len(stack[r])}
  IN /\ wipVersion' = [s \in Sources |->
                         IF s \in onStack THEN [wipVersion[s] EXCEPT ![field] = Null]
                         ELSE wipVersion[s]]
     /\ stack' = [stack EXCEPT ![r] = <<>>]

-----------------------------------------------------------------------------
(* Actions.                                                                *)

StartRender(r) ==
  /\ ~rendering[r]
  /\ rendering' = [rendering EXCEPT ![r] = TRUE]
  /\ UNCHANGED <<version, wipVersion, stack, reads>>

\* A render reads source s: the version it renders with is its recorded
\* work-in-progress version, or the current one, which it then records.
Read(r, s) ==
  /\ rendering[r]
  /\ Len(stack[r]) < MaxStack
  /\ LET wv == GetWorkInProgressVersion(r, s)
     IN IF wv = Null
        THEN /\ SetWorkInProgressVersion(r, s, version[s])
             /\ reads' = [reads EXCEPT ![r][s] = @ \cup {version[s]}]
        ELSE /\ wv = version[s]
             /\ reads' = [reads EXCEPT ![r][s] = @ \cup {wv}]
             /\ UNCHANGED <<wipVersion, stack>>
  /\ UNCHANGED <<version, rendering>>

\* A read finds the source changed since the version this render recorded:
\* the render throws and restarts (the unwind of the root resets).
RestartOnTear(r, s) ==
  /\ rendering[r]
  /\ GetWorkInProgressVersion(r, s) \notin {Null, version[s]}
  /\ ResetWorkInProgressVersions(r)
  /\ reads' = [reads EXCEPT ![r] = [t \in Sources |-> {}]]
  /\ UNCHANGED <<version, rendering>>

\* The render marks a source it depends on as dirty.
MarkDirty(r, s) ==
  /\ rendering[r]
  /\ Len(stack[r]) < MaxStack
  /\ MarkSourceAsDirty(r, s)
  /\ UNCHANGED <<version, wipVersion, rendering, reads>>

\* The render completes (completeWork of the root resets the versions).
FinishRender(r) ==
  /\ rendering[r]
  /\ ResetWorkInProgressVersions(r)
  /\ rendering' = [rendering EXCEPT ![r] = FALSE]
  /\ reads' = [reads EXCEPT ![r] = [t \in Sources |-> {}]]
  /\ UNCHANGED version

\* The source's data changes, outside any render.
Mutate(s) ==
  /\ version[s] < MaxMutations
  /\ version' = [version EXCEPT ![s] = @ + 1]
  /\ UNCHANGED <<wipVersion, stack, rendering, reads>>

Init ==
  /\ version = [s \in Sources |-> 0]
  /\ wipVersion = [s \in Sources |-> [primary |-> Null, secondary |-> Null]]
  /\ stack = [r \in Renderers |-> <<>>]
  /\ rendering = [r \in Renderers |-> FALSE]
  /\ reads = [r \in Renderers |-> [s \in Sources |-> {}]]

Next ==
  \/ \E r \in Renderers : StartRender(r) \/ FinishRender(r)
  \/ \E r \in Renderers, s \in Sources :
       Read(r, s) \/ RestartOnTear(r, s) \/ MarkDirty(r, s)
  \/ \E s \in Sources : Mutate(s)

Spec == Init /\ [][Next]_vars

-----------------------------------------------------------------------------

\* The variables have their types, and a renderer's stack of sources lives
\* only for one render: it is empty whenever the renderer is not rendering.
TypeOK ==
  /\ \A r \in Renderers : ~rendering[r] => stack[r] = <<>>
  /\ version \in [Sources -> 0..MaxMutations]
  /\ wipVersion \in [Sources -> [{"primary", "secondary"} -> 0..MaxMutations \cup {Null}]]
  /\ stack \in [Renderers -> Seq(Sources)]
  /\ rendering \in [Renderers -> BOOLEAN]
  /\ reads \in [Renderers -> [Sources -> SUBSET (0..MaxMutations)]]

\* One render of a renderer never reads two versions of one source, even
\* while the other renderer records its own versions of the same source.
NoTearing ==
  \A r \in Renderers, s \in Sources : Cardinality(reads[r][s]) <= 1

\* A renderer that is not rendering has no work-in-progress version left on
\* any source: resetWorkInProgressVersions reaches every source the render
\* recorded, so the next render starts fresh (the comment at lines 17-19).
VersionsResetBetweenRenders ==
  \A r \in Renderers, s \in Sources :
    ~rendering[r] => GetWorkInProgressVersion(r, s) = Null

=============================================================================
