------------------------- MODULE MCSuspenseBoundary -------------------------
(* Model-checking instance of SuspenseBoundary.                            *)
EXTENDS SuspenseBoundary

CONSTANTS p1, p2

MCProps == {p1, p2}

\* updateSuspenseComponent's TimedOut -> TimedOut branch with the primary
\* fragment cloned from currentPrimaryChildFragment (ReactFiberBeginWork.js
\* line 1119 clones currentFallbackChildFragment instead).  The passing runs
\* substitute it for UpdateStillTimedOut so that the rest of the boundary is
\* checked past that defect; the violation run keeps the code as written.
FixedUpdateStillTimedOut(h, c, w, nextChildren) ==
  LET cpf == h[c].child
      cff == h[cpf].sibling
      pf  == CWIPId(h, cpf)
      h1  == CreateWorkInProgress(h, cpf, h[cpf].pendingProps)
      ff  == CWIPId(h1, cff)
      h2  == CreateWorkInProgress(h1, cff, nextChildren)
  IN [heap |-> [h2 EXCEPT ![pf].sibling = ff, ![ff].fresh = TRUE],
      child |-> pf, next |-> ff]

====
