----------------------------- MODULE MCChunking -----------------------------
(* A short heading and a longer one; a small unit and a large one, which   *)
(* fits the cap without a heading or under the short one and is divided    *)
(* under the other.                                                        *)
EXTENDS Chunking

CONSTANTS h1, h2, small, large

Costs == h1 :> 1 @@ h2 :> 2 @@ small :> 1 @@ large :> 3
Splits == small :> <<small>> @@ large :> <<small, small>>
=============================================================================
