------------------------------ MODULE MCErrors ------------------------------
EXTENDS Errors, TLC
CONSTANTS s1, s2, s3
\* Two subscriptions share a destination; the third is a neighbour.
TwoDests == s1 :> "a" @@ s2 :> "b" @@ s3 :> "a"
=============================================================================
