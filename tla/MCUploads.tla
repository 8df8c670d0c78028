------------------------------ MODULE MCUploads ------------------------------
EXTENDS Uploads, TLC

CONSTANTS a, p, q

\* In bulk: all numbers, under names of the user's.
MCAll == [i \in 1 .. MaxSupply |-> [id |-> i, name |-> i - 1, pic |-> q]]
MCBatches == {MCAll}

\* Bound: with a second address, nothing is refused, nothing is uploaded in bulk
\* and one row is made.
Focus ==
    (\E u \in User \ {a} : session[u] # "none") =>
        /\ refused = 0 /\ Rows \subseteq {1}
        /\ \A t \in Tab : Len(page[t].items) <= 1

Symmetry == Permutations(Tab)
=============================================================================
