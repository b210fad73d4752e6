--------------------------- MODULE ExternalRuntime ---------------------------
(***************************************************************************)
(* The Fizz external runtime on a page that is still streaming in.         *)
(*                                                                         *)
(* Source: packages/react-dom-bindings/src/server/                          *)
(* ReactDOMServerExternalRuntime.js.  The server streams instruction       *)
(* templates (<template data-ri=...>) and placeholder templates (no        *)
(* data-ri) into <body>; the runtime script, loaded asynchronously, runs   *)
(* the instructions it finds when it starts and those a MutationObserver   *)
(* reports while the document is loading.  What an instruction does        *)
(* (completeBoundary, completeSegment, ...; fizz-instruction-set is not in *)
(* this repository) is abstracted to appending it to the ghost `log`.      *)
(*                                                                         *)
(* The browser is the environment: the parser appends the streamed nodes   *)
(* in tasks of up to MaxChunk nodes, ends parsing, and fires               *)
(* DOMContentLoaded; mutation records are delivered in a microtask before  *)
(* the next task runs, and a disconnected observer's records are dropped.  *)
(***************************************************************************)
EXTENDS Integers, SequencesExt

CONSTANTS
  Instr,     \* templates carrying a data-ri instruction
  Plain,     \* placeholder templates (no data-ri)
  Streams,   \* the orders the server may send <body> and the templates in
  MaxChunk   \* most nodes the parser appends in one task

Body == "body"
Templates == Instr \cup Plain

ASSUME /\ Instr \cap Plain = {} /\ MaxChunk \in Nat \ {0}
       /\ \A s \in Streams : s[1] = Body /\ ToSet(Tail(s)) = Templates

VARIABLES
  sent,        \* the stream the server sent (fixed; ghost)
  toParse,     \* what the parser has not appended yet
  readyState,  \* document.readyState: "loading" or "interactive"
  hasBody,     \* document.body != null
  body,        \* the templates in <body>, in document order
  script,      \* the runtime script: "pending" or "ran"
  bodyObs,     \* domBodyObserver observes documentElement
  instrObs,    \* fizzInstrObserver observes body
  dclListener, \* the DOMContentLoaded listener is registered
  dclFired,    \* DOMContentLoaded has fired
  bodyRecord,  \* a record for domBodyObserver awaits delivery
  records,     \* records for fizzInstrObserver: the nodes each one added
  log          \* the instructions run, in order (ghost)

vars == <<sent, toParse, readyState, hasBody, body, script, bodyObs, instrObs,
          dclListener, dclFired, bodyRecord, records, log>>

\* A microtask checkpoint is due: no task runs before the records are
\* delivered.
MicrotasksPending == bodyRecord \/ records # <<>>

-----------------------------------------------------------------------------
(* The runtime.  Each operator maps [body, log] to its new value.          *)

\* Mutant: any template is removed and run, data-ri or not.
HandleNodeAnyTemplate(st, t) ==
  [body |-> Remove(st.body, t), log |-> Append(st.log, t)]

\* handleNode: a template with data-ri is removed and its instruction run;
\* any other node is left alone.
HandleNode(st, t) ==
  IF t \in Instr THEN [body |-> Remove(st.body, t), log |-> Append(st.log, t)]
  ELSE st

\* handleExistingNodes: index i walks document.getElementsByTagName
\* ('template'), a live collection, so removing the node at i moves the
\* next one to i before i++ steps over it.
RECURSIVE ScanLive(_, _)
ScanLive(st, i) ==
  IF i > Len(st.body) THEN st
  ELSE ScanLive(HandleNode(st, st.body[i]), i + 1)

HandleExistingNodes(st) == ScanLive(st, 1)

\* The fizzInstrObserver callback's loop: handle each added node that is
\* still attached (addedNodes.item(j).parentNode).
RECURSIVE HandleAdded(_, _)
HandleAdded(st, nodes) ==
  IF nodes = <<>> THEN st
  ELSE HandleAdded(IF Head(nodes) \in ToSet(st.body) THEN HandleNode(st, Head(nodes)) ELSE st,
                   Tail(nodes))

\* Mutant: the observer is never disconnected on DOMContentLoaded.
InstallFizzInstrObserverNoListener ==
  /\ instrObs' = TRUE
  /\ UNCHANGED dclListener

\* installFizzInstrObserver: observe body's children and disconnect on
\* DOMContentLoaded.
InstallFizzInstrObserver ==
  /\ instrObs' = TRUE
  /\ dclListener' = TRUE

Current == [body |-> body, log |-> log]
Store(st) == body' = st.body /\ log' = st.log

\* The script's top level (lines 19-41).
RunScript ==
  /\ script = "pending" /\ ~MicrotasksPending
  /\ script' = "ran"
  /\ IF readyState = "loading" /\ hasBody
     THEN InstallFizzInstrObserver
     ELSE UNCHANGED <<instrObs, dclListener>>
  /\ bodyObs' = (readyState = "loading" /\ ~hasBody)
  /\ Store(HandleExistingNodes(Current))
  /\ UNCHANGED <<sent, toParse, readyState, hasBody, dclFired, bodyRecord, records>>

\* Mutant: the callback does not look for templates already in the body.
BodyObserverCallbackNoScan ==
  /\ bodyRecord
  /\ bodyRecord' = FALSE
  /\ IF hasBody
     THEN /\ IF readyState = "loading" THEN InstallFizzInstrObserver
             ELSE UNCHANGED <<instrObs, dclListener>>
          /\ bodyObs' = FALSE
     ELSE UNCHANGED <<instrObs, dclListener, bodyObs>>
  /\ UNCHANGED <<body, log>>
  /\ UNCHANGED <<sent, toParse, readyState, hasBody, script, dclFired, records>>

\* domBodyObserver's callback (lines 25-34): once body exists, install the
\* instruction observer if still loading, handle what is there, disconnect.
BodyObserverCallback ==
  /\ bodyRecord
  /\ bodyRecord' = FALSE
  /\ IF hasBody
     THEN /\ IF readyState = "loading" THEN InstallFizzInstrObserver
             ELSE UNCHANGED <<instrObs, dclListener>>
          /\ Store(HandleExistingNodes(Current))
          /\ bodyObs' = FALSE
     ELSE UNCHANGED <<instrObs, dclListener, bodyObs, body, log>>
  /\ UNCHANGED <<sent, toParse, readyState, hasBody, script, dclFired, records>>

\* Mutant: the records are walked newest first.
InstrObserverCallbackReversed ==
  /\ records # <<>>
  /\ Store(HandleAdded(Current, FlattenSeq(Reverse(records))))
  /\ records' = <<>>
  /\ UNCHANGED <<sent, toParse, readyState, hasBody, script, bodyObs, instrObs,
                 dclListener, dclFired, bodyRecord>>

\* fizzInstrObserver's callback (lines 51-60): every added node of every
\* record, in order.
InstrObserverCallback ==
  /\ records # <<>>
  /\ Store(HandleAdded(Current, FlattenSeq(records)))
  /\ records' = <<>>
  /\ UNCHANGED <<sent, toParse, readyState, hasBody, script, bodyObs, instrObs,
                 dclListener, dclFired, bodyRecord>>

-----------------------------------------------------------------------------
(* The browser.                                                            *)

\* The parser appends the next k streamed nodes in one task; each append
\* queues a record for each observer watching the parent it changes.
ParseChunk(k) ==
  /\ readyState = "loading" /\ ~MicrotasksPending
  /\ k \in 1..Len(toParse)
  /\ LET chunk == SubSeq(toParse, 1, k)
         tmpls == SelectSeq(chunk, LAMBDA n : n # Body)
     IN /\ hasBody' = (hasBody \/ Body \in ToSet(chunk))
        /\ body' = body \o tmpls
        /\ bodyRecord' = (bodyObs /\ Body \in ToSet(chunk))
        /\ records' = IF instrObs THEN [i \in 1..Len(tmpls) |-> <<tmpls[i]>>] ELSE <<>>
  /\ toParse' = SubSeq(toParse, k + 1, Len(toParse))
  /\ UNCHANGED <<sent, readyState, script, bodyObs, instrObs, dclListener, dclFired, log>>

\* The parser reaches the end of the stream.
FinishParsing ==
  /\ readyState = "loading" /\ ~MicrotasksPending
  /\ toParse = <<>>
  /\ readyState' = "interactive"
  /\ UNCHANGED <<sent, toParse, hasBody, body, script, bodyObs, instrObs,
                 dclListener, dclFired, bodyRecord, records, log>>

\* DOMContentLoaded fires; the runtime's listener disconnects its observer.
FireDOMContentLoaded ==
  /\ readyState = "interactive" /\ ~dclFired /\ ~MicrotasksPending
  /\ dclFired' = TRUE
  /\ instrObs' = (instrObs /\ ~dclListener)
  /\ UNCHANGED <<sent, toParse, readyState, hasBody, body, script, bodyObs,
                 dclListener, bodyRecord, records, log>>

-----------------------------------------------------------------------------

Init ==
  /\ sent \in Streams
  /\ toParse = sent
  /\ readyState = "loading"
  /\ hasBody = FALSE
  /\ body = <<>>
  /\ script = "pending"
  /\ bodyObs = FALSE
  /\ instrObs = FALSE
  /\ dclListener = FALSE
  /\ dclFired = FALSE
  /\ bodyRecord = FALSE
  /\ records = <<>>
  /\ log = <<>>

Next ==
  \/ \E k \in 1..MaxChunk : ParseChunk(k)
  \/ FinishParsing
  \/ FireDOMContentLoaded
  \/ RunScript
  \/ BodyObserverCallback
  \/ InstrObserverCallback

\* Every step is bound to happen once enabled: the parser and the event
\* loop make progress, microtasks always run, and the async script the
\* server sent eventually loads and executes.
Fairness ==
  /\ WF_vars(\E k \in 1..MaxChunk : ParseChunk(k))
  /\ WF_vars(FinishParsing)
  /\ WF_vars(FireDOMContentLoaded)
  /\ WF_vars(RunScript)
  /\ WF_vars(BodyObserverCallback)
  /\ WF_vars(InstrObserverCallback)

Spec == Init /\ [][Next]_vars /\ Fairness

-----------------------------------------------------------------------------
(* Properties.                                                             *)

TypeOK ==
  /\ sent \in Streams
  /\ IsSuffix(toParse, sent)
  /\ readyState \in {"loading", "interactive"}
  /\ script \in {"pending", "ran"}
  /\ {hasBody, bodyObs, instrObs, dclListener, dclFired, bodyRecord} \subseteq BOOLEAN
  /\ body \in Seq(Templates)
  /\ records \in Seq(Seq(Templates))
  /\ log \in Seq(Instr)

\* The order the server sent the instructions in.
SentInstructions == SelectSeq(sent, LAMBDA n : n \in Instr)

\* Instructions run in the order the server sent them, none skipped and none
\* twice: the log is always a prefix of the sent instructions (a segment is
\* completed before the boundary that reveals it).
InstructionsInStreamOrder == IsPrefix(log, SentInstructions)

\* Every instruction the server sent is eventually run, wherever the async
\* script happens to run relative to the parser.
EveryInstructionRuns == <>(log = SentInstructions)

\* The runtime does not leave its observers connected: both are eventually
\* disconnected for good once the document has loaded.
ObserversReleased == <>[](~bodyObs /\ ~instrObs)

=============================================================================
