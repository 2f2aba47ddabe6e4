----------------------------- MODULE MCIceQueue -----------------------------
(* Names of the candidates.                                                *)
EXTENDS IceQueue

CONSTANTS c1, c2, c3
=============================================================================
