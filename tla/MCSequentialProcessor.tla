------------------------- MODULE MCSequentialProcessor -------------------------
(* Model-checking instance of SequentialProcessor. *)
EXTENDS SequentialProcessor, TLC

CONSTANTS a1, b1, b2, c1, A, B, C

\* a1 is message A; b1 and b2 are two deliveries of B; c1 is C.
MCDeliveries == {a1, b1, b2, c1}
MCMessageId == a1 :> A @@ b1 :> B @@ b2 :> B @@ c1 :> C

\* A chain, C depending on B which depends on A; and a fan, both depending on A.
Chain == A :> None @@ B :> A @@ C :> B
Fan == A :> None @@ B :> A @@ C :> A
MCHeaders == {Chain, Fan}
=============================================================================
