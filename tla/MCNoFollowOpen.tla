--------------------------- MODULE MCNoFollowOpen ---------------------------
(* Two names; two objects that entries lead to and one below them.          *)
EXTENDS NoFollowOpen, TLC

MCSymmetry == Permutations(Names) \cup Permutations(Inside \ {Below})
=============================================================================
