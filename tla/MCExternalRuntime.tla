-------------------------- MODULE MCExternalRuntime --------------------------
(* Model-checking instance of ExternalRuntime.                             *)
EXTENDS ExternalRuntime

CONSTANTS i1, i2, i3, p1

MCInstr == {i1, i2, i3}
MCPlain == {p1}

\* <body> first, then the templates in every order.
MCStreams == {<<Body>> \o s : s \in SetToSeqs(MCInstr \cup MCPlain)}

\* handleExistingNodes over a static snapshot of the templates
\* (querySelectorAll instead of the live getElementsByTagName, line 44):
\* every template present when the scan starts is visited once, in
\* document order.  The passing run substitutes it for HandleExistingNodes
\* so that the rest of the runtime is checked past that defect; the
\* violation run keeps the code as written.
FixedHandleExistingNodes(st) == HandleAdded(st, st.body)

=============================================================================
