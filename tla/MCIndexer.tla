------------------------------ MODULE MCIndexer ------------------------------
EXTENDS Indexer, TLC, SequencesExt

CONSTANTS MCHeights, MCBlock, MCTotal, Amounts, ListAmounts

\* Deployments, in halves of a base unit: with and without a pre-mint.
Supplies == {[cap |-> 8, lim |-> 4, pre |-> 0, open |-> 0],
               [cap |-> 6, lim |-> 2, pre |-> 4, open |-> 3]}

MCTxId == (1 .. MCHeights) \X (1 .. MCBlock)

\* Positions a transaction may name: one that a block after the deployment's
\* transaction opened.
Orders == {i \in MCTxId : i[1] \in 2 .. MCHeights - 1 /\ i # <<2, 1>>}

\* Blank fields are fixed, so that transactions differ only in what their
\* operation reads.
Blank(op, a, t) ==
    [op |-> op, sender |-> a, tick |-> t, dst |-> a, amount |-> 0,
     order |-> <<1, 1>>, paid |-> FALSE, lim |-> 0, pre |-> 0, open |-> 0]

MCSubmissions ==
    UNION {
      {[Blank("deploy", a, t) EXCEPT !.amount = s.cap, !.lim = s.lim,
                                     !.pre = s.pre, !.open = s.open] : s \in Supplies}
      \cup {Blank("mint", a, t)}
      \cup {[Blank("transfer", a, t) EXCEPT !.dst = b, !.amount = n] :
                b \in Addr, n \in Amounts}
      \cup {[Blank("burn", a, t) EXCEPT !.amount = 2 * n] : n \in Amounts}
      \cup {[Blank("list", a, t) EXCEPT !.amount = n] : n \in ListAmounts}
      \cup {[Blank("buy", a, t) EXCEPT !.order = i, !.paid = p] :
                i \in Orders, p \in BOOLEAN}
      \cup {[Blank("delist", a, t) EXCEPT !.order = i] : i \in Orders}
      : a \in Addr, t \in Ticker}

\* Bound on the behaviours explored: at most MCTotal transactions, of which
\* the first deploys the token (before that, everything else fails).
Focus ==
    /\ FoldLeft(LAMBDA n, b : n + Len(b), 0, chain) <= MCTotal
    /\ Len(chain) > 1 => chain[2] # <<>> /\ chain[2][1].op = "deploy"

Symmetry == Permutations(Addr)
=============================================================================
