---------------------------- MODULE MCMarketplace ----------------------------
EXTENDS Marketplace, TLC

CONSTANTS Sellers, Prices

\* Fields an operation ignores are fixed.  n is the first MsgSend to everyone.
MCBlank(op, a, n) ==
    [op |-> op, sender |-> a, hashes |-> <<1>>, item |-> Lot, amount |-> 2,
     total |-> 3, deposit |-> 1, timeout |-> 0, dst |-> a,
     sent |-> [x \in Addr |-> n], fee |-> TRUE, funds |-> TRUE]

MCListings ==
    UNION {{[MCBlank("list.cft20", a, NoSend) EXCEPT !.deposit = p]}
           \cup {[MCBlank("list.inscription", a, NoSend) EXCEPT !.deposit = p, !.item = i] :
                    i \in Insc}
           : a \in Sellers, p \in Prices}

MCLists == {<<1>>, <<1, 2>>}

MCDeals ==
    UNION {{[MCBlank("deposit", a, 1) EXCEPT !.hashes = h] : h \in MCLists}
           \cup {[MCBlank("buy.cft20", a, 2) EXCEPT !.hashes = h] : h \in MCLists}
           \cup {[MCBlank("buy.inscription", a, 1) EXCEPT !.hashes = <<l>>] : l \in {1, 2}}
           : a \in Addr}

MCOthers ==
    UNION {{[MCBlank("delist", a, NoSend) EXCEPT !.hashes = <<l>>] : l \in {1, 2}}
           \cup {[MCBlank("transfer", a, NoSend) EXCEPT !.item = i, !.dst = b] :
                    i \in Insc, b \in Addr \ {a}}
           : a \in Addr}

MCSubmissions == MCListings \cup MCDeals \cup MCOthers

\* Bounds on the behaviours explored: every user has one unit, the first
\* transaction is a listing,
Focus ==
    /\ sent = 0 => \A x \in Addr : bal[x] = 1
    /\ sent = 1 /\ tail # <<>> => tail[1].tx \in MCListings
\* a transaction that fails when it is first run, or that the process stops
\* before, is left out, and so are blocks before the first and after the last.
Effective ==
    /\ pc = "run" /\ fresh /\ pos = 1 /\ (at' = at + 1 \/ stops' # stops)
           => tables' # tables
    /\ height' # height => sent \in 1 .. MaxTx - 1

Symmetry == Permutations(Addr \ {RoyaltyTo})
=============================================================================
