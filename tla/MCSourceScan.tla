---------------------------- MODULE MCSourceScan ----------------------------
(***************************************************************************)
(* SourceScan on small instances.  "inner" is a directory inside "outer",  *)
(* so that a request to add or relocate can be refused for an overlap.     *)
(***************************************************************************)
EXTENDS SourceScan

CONSTANTS outer, inner, other

TwoRoots   == {outer, other}
ThreeRoots == {outer, inner, other}

NestedOverlap ==
    {p \in Roots \X Roots : p[1] = p[2] \/ {p[1], p[2]} = {outer, inner}}

Symmetric == Permutations(Sources)

=============================================================================
