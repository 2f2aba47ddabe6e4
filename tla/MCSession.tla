----------------------------- MODULE MCSession -----------------------------
(* The session model with the bounds of the Session*.cfg files.            *)
EXTENDS Session
=============================================================================
