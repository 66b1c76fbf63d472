----------------------------- MODULE MCStartup -----------------------------
(* Two models of one width, which only their names tell apart, and one of  *)
(* another width.                                                          *)
EXTENDS Startup, TLC

CONSTANTS m1, m2, m3

Widths3 == m1 :> 1 @@ m2 :> 1 @@ m3 :> 2
=============================================================================
