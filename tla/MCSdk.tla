------------------------------- MODULE MCSdk --------------------------------
(* Two sessions.  Both requests are on the first, where they may overlap.  *)
EXTENDS Sdk

CONSTANTS ann, bob, a1, a2

OnAnn == [r \in Reqs |-> ann]
=============================================================================
