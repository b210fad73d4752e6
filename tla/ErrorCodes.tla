------------------------------ MODULE ErrorCodes ------------------------------
(***************************************************************************)
(* Production error codes: extraction into codes.json and the build        *)
(* transform that looks messages up in it.                                 *)
(*                                                                         *)
(* Sources: scripts/error-codes/gulp-extract-errors.js (the extraction     *)
(* run) and scripts/error-codes/transform-error-messages.js (the Babel     *)
(* transform of a production build).                                      *)
(*                                                                         *)
(* The source tree is a sequence of calls, each an invariant(...),        *)
(* warning(...) or Error(...) call with a message; string evaluation of    *)
(* the message argument is abstracted to the message itself.  codes.json   *)
(* is a function from ids to messages.  An extraction run reads codes.json *)
(* and the whole tree and writes codes.json and the warning list; a build  *)
(* loads codes.json and transforms the whole tree.  Developers edit the    *)
(* tree between runs.                                                      *)
(***************************************************************************)
EXTENDS Integers, Sequences, SequencesExt, FiniteSets, FiniteSetsExt, Functions

CONSTANTS
  Nil,
  Messages,   \* error and warning messages
  MaxEdits    \* bound on edits of the source tree

Kinds == {"invariant", "warning", "Error"}
Call == [kind: Kinds, msg: Messages]

VARIABLES
  codes,         \* scripts/error-codes/codes.json: ids -> messages
  warningList,   \* the warning list file
  src,           \* the source tree's calls, in traversal order
  extractedSrc,  \* the tree as the last extraction saw it (Nil before one)
  built,         \* the last build's output, or Nil
  edits          \* edits so far (model bound only)

vars == <<codes, warningList, src, extractedSrc, built, edits>>

-----------------------------------------------------------------------------

\* invertObject over codes.json (integer keys, visited in ascending
\* order): each message maps to its last id.
InvertObject(f) == [m \in Range(f) |-> Max({k \in DOMAIN f : f[k] = m})]

\* The inverted map as a JavaScript object keyed by messages: a message's
\* key sits where it was first inserted (its smallest id).
KeyOrder(f) ==
  SetToSortSeq(Range(f), LAMBDA a, b : Min({k \in DOMAIN f : f[k] = a})
                                       < Min({k \in DOMAIN f : f[k] = b}))

\* invertObject over a message-keyed object with keys in insertion order:
\* each id maps to the last message inserted with it.
InvertKeyed(keys, map) ==
  [k \in Range(map) |-> keys[Max({i \in DOMAIN keys : map[keys[i]] = k})]]

\* Mutant: the last id string concatenated with 1 ("2" + 1 = "21").
FirstNewIdConcat(ids) == IF ids = {} THEN 0 ELSE Max(ids) * 10 + 1

\* currentID before the run: 0 for an empty map, else the largest id + 1.
FirstNewId(ids) == IF ids = {} THEN 0 ELSE Max(ids) + 1

\* Assignment existingErrorMap[msg] = id: a new key goes last.
Assign(st, m) ==
  [st EXCEPT !.map = (m :> st.currentID) @@ st.map,
             !.keys = IF m \in DOMAIN st.map THEN @ ELSE Append(@, m),
             !.currentID = @ + 1]

\* Mutant: an invariant message gets a new id even if it has one.
ExtractCallNoLookup(st, c) ==
  IF c.kind = "invariant" THEN Assign(st, c.msg)
  ELSE IF c.kind = "warning" THEN [st EXCEPT !.warnings = @ \cup {c.msg}]
  ELSE st

\* The CallExpression exit visitor of transform(): an invariant message
\* without an id gets currentID++; a warning message joins warningSet.
ExtractCall(st, c) ==
  IF c.kind = "invariant"
  THEN IF c.msg \in DOMAIN st.map THEN st ELSE Assign(st, c.msg)
  ELSE IF c.kind = "warning" THEN [st EXCEPT !.warnings = @ \cup {c.msg}]
  ELSE st

\* The plugin over the whole stream: the existing map inverted, currentID
\* from its ids, every call of every file in order; flush inverts back.
ExtractErrors(existing, calls) ==
  LET init == [map |-> InvertObject(existing), keys |-> KeyOrder(existing),
               currentID |-> FirstNewId(DOMAIN existing), warnings |-> {}]
      r == FoldLeft(ExtractCall, init, calls)
  IN [codes |-> InvertKeyed(r.keys, r.map), warnings |-> r.warnings]

\* Outcomes of the transform for one call: left as written ("plain"),
\* flagged with the FIXME comment as an unminified production error
\* ("fixme"), or minified to formatProdErrorMessage(id, ...) ("code").
Plain == [tag |-> "plain", id |-> Nil]
Fixme == [tag |-> "fixme", id |-> Nil]
Code(id) == [tag |-> "code", id |-> id]

\* CallOrNewExpression on Error(msg) / new Error(msg) (the eslint-disable
\* comment that suppresses the flag is not modelled).
TransformErrorCall(errorMap, c) ==
  IF c.msg \notin DOMAIN errorMap THEN Fixme ELSE Code(errorMap[c.msg])

\* The invariant(cond, msg) branch of the CallExpression visitor.
TransformInvariantCall(errorMap, c, noMinify) ==
  CASE noMinify -> Plain
    [] c.msg \notin DOMAIN errorMap -> Fixme
    [] OTHER -> Code(errorMap[c.msg])

\* The visitor: Error calls only when minifying, invariant calls always.
TransformCall(errorMap, c, noMinify) ==
  CASE c.kind = "Error" /\ ~noMinify -> TransformErrorCall(errorMap, c)
    [] c.kind = "invariant" -> TransformInvariantCall(errorMap, c, noMinify)
    [] OTHER -> Plain

\* Mutant: codes.json is used without invertObject.
TransformErrorMessagesUninverted(calls, noMinify) ==
  [i \in 1..Len(calls) |-> TransformCall(codes, calls[i], noMinify)]

\* A production or development build: the plugin loads codes.json once
\* (errorMap) and visits every call.
TransformErrorMessages(calls, noMinify) ==
  LET errorMap == InvertObject(codes)
  IN [i \in 1..Len(calls) |-> TransformCall(errorMap, calls[i], noMinify)]

-----------------------------------------------------------------------------
(* Actions.                                                                *)

\* A run of the extract-errors task over the tree.
Extract ==
  LET r == ExtractErrors(codes, src)
  IN /\ codes' = r.codes
     /\ warningList' = r.warnings
     /\ extractedSrc' = src
     /\ UNCHANGED <<src, built, edits>>

\* A build, with or without error minification.
Build(noMinify) ==
  /\ built' = [src |-> src, noMinify |-> noMinify, extracted |-> extractedSrc = src,
               out |-> TransformErrorMessages(src, noMinify)]
  /\ UNCHANGED <<codes, warningList, src, extractedSrc, edits>>

\* A developer replaces call i of the tree.
Edit(i, c) ==
  /\ edits < MaxEdits
  /\ src' = [src EXCEPT ![i] = c]
  /\ edits' = edits + 1
  /\ UNCHANGED <<codes, warningList, extractedSrc, built>>

\* codes.json as checked in: an injective map whose ids may have gaps.
InitialCodes ==
  {f \in UNION {[D -> Messages] : D \in SUBSET (0..2)} : IsInjective(f)}

Init ==
  /\ codes \in InitialCodes
  /\ warningList = {}
  /\ src \in [1..2 -> Call]
  /\ extractedSrc = Nil
  /\ built = Nil
  /\ edits = 0

Next ==
  \/ Extract
  \/ \E b \in BOOLEAN : Build(b)
  \/ \E i \in DOMAIN src, c \in Call : Edit(i, c)

Spec == Init /\ [][Next]_vars

-----------------------------------------------------------------------------
(* Properties.                                                             *)

TypeOK ==
  /\ \E D \in SUBSET (0..8) : codes \in [D -> Messages]
  /\ warningList \subseteq Messages
  /\ src \in [1..2 -> Call]
  /\ extractedSrc \in [1..2 -> Call] \cup {Nil}
  /\ edits \in 0..MaxEdits

\* Reference definition of an extraction: the new invariant messages, in
\* order of first occurrence, get consecutive ids after the largest
\* existing id.
FirstIndex(m, calls) ==
  Min({i \in DOMAIN calls : calls[i].kind = "invariant" /\ calls[i].msg = m})
NewMessages(existing, calls) ==
  {calls[i].msg : i \in {j \in DOMAIN calls : calls[j].kind = "invariant"}} \ Range(existing)
ReferenceCodes(existing, calls) ==
  LET new == NewMessages(existing, calls)
      base == IF DOMAIN existing = {} THEN 0 ELSE Max(DOMAIN existing) + 1
      id(m) == base + Cardinality({n \in new : FirstIndex(n, calls) < FirstIndex(m, calls)})
  IN existing @@ [k \in {id(m) : m \in new} |-> CHOOSE m \in new : id(m) = k]

\* Every extraction writes exactly the codes of the reference definition.
ExtractMatchesReference ==
  [][Extract => codes' = ReferenceCodes(codes, src)]_vars

\* A production build run after an extraction of the same tree minifies
\* every invariant(...) message: none is left flagged as unminified.
ExtractedInvariantsMinified ==
  built # Nil /\ built.extracted /\ ~built.noMinify =>
    \A i \in DOMAIN built.src :
      built.src[i].kind = "invariant" => built.out[i].tag # "fixme"

\* A production build run after an extraction of the same tree minifies
\* every error message it rewrites, invariant(...) and Error(...) alike.
ExtractedErrorsMinified ==
  built # Nil /\ built.extracted /\ ~built.noMinify =>
    \A i \in DOMAIN built.src : built.out[i].tag # "fixme"

=============================================================================
