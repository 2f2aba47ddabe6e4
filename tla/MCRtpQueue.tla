----------------------------- MODULE MCRtpQueue -----------------------------
(* One subscriber that takes its packets and one that may not.             *)
EXTENDS RtpQueue

CONSTANTS fast, slow
=============================================================================
