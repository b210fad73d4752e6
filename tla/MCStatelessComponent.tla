------------------------ MODULE MCStatelessComponent ------------------------
EXTENDS StatelessComponent

CONSTANTS Outer, Inner, div, span, k1, p1, p2, p3, p4

MCStatelessTypes == {Outer, Inner}
MCHostTypes == {div, span}
MCKeys == {k1}
MCProps == {p1, p2, p3, p4}

\* Outer passes its props to an unkeyed Inner, a keyed Inner (a key change
\* remounts it) or renders a host node (a type change); Inner renders a
\* span, null, or an invalid value.
MCRender(t, p) ==
  CASE t = Outer /\ p = p1 -> Elem(Inner, Nil, p1)
    [] t = Outer /\ p = p2 -> Elem(Inner, k1, p2)
    [] t = Outer /\ p = p3 -> Elem(Inner, k1, p3)
    [] t = Outer /\ p = p4 -> Elem(span, Nil, p4)
    [] t = Inner /\ p = p1 -> Elem(span, Nil, p1)
    [] t = Inner /\ p = p2 -> Nil
    [] t = Inner /\ p = p3 -> Invalid
    [] OTHER               -> Elem(span, Nil, p4)

=============================================================================
