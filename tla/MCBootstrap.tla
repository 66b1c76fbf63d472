----------------------------- MODULE MCBootstrap -----------------------------
(* Instances that start a corpus together; a may stop or be paused.        *)
EXTENDS Bootstrap

CONSTANTS a, b, typo
=============================================================================
