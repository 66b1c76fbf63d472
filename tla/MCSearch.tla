------------------------------ MODULE MCSearch ------------------------------
(* Chunks under a heading and chunks under none, for a walk compares the   *)
(* two as it compares two headings.                                        *)
EXTENDS Search

CONSTANTS heading, none
=============================================================================
