---------------------------- MODULE MCBuyDialog ----------------------------
EXTENDS BuyDialog

CONSTANTS l1, l2

MCOp == [kind: {"deposit", "buy"}, listing: Listing, royalty: BOOLEAN]

\* Bounds: listings that nobody has reserved are shown one at a time, with blocks
\* and signatures, of which a fault leaves two.  Of those that the user holds
\* both are shown, so that either step may be the first; one signature is asked
\* for, and once the user has moved from one to the other none.
Focus ==
    IF market[l2].by = "nobody" /\ ~market[l2].gone
    THEN /\ prop # l2
         /\ Len(tx) <= 2 \/ faults.errors + faults.fails + faults.lost = 0
    ELSE /\ height = 0 /\ faults.errors = 0
         /\ IF Stays THEN Len(tx) <= 1 ELSE tx = <<>> /\ validating = NoClick
=============================================================================
