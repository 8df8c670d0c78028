-------------------------------- MODULE Coins --------------------------------
(***************************************************************************)
(* Sums of natural numbers as sizes of sets: a place x that holds f[x]     *)
(* units holds the coins <<x, 1>> to <<x, f[x]>>.                          *)
(***************************************************************************)
EXTENDS Naturals, FiniteSets

Coins(S, f) == UNION {{x} \X (1 .. f[x]) : x \in S}

\* What the places of S hold together.
Worth(S, f) == Cardinality(Coins(S, f))
=============================================================================
