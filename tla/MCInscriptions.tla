--------------------------- MODULE MCInscriptions ---------------------------
EXTENDS Inscriptions

CONSTANTS a, x

MCReserved == [s \in Symbol |-> IF s = x THEN a ELSE NoAddr]

Base(op, s) ==
    [op |-> op, sender |-> s, v2 |-> TRUE, symbol |-> NoSymbol, content |-> 1,
     traits |-> FALSE, coll |-> 0, hash |-> 1, to |-> s, rows |-> {}, royalty |-> 0]

\* Bound: the first transactions make what the later ones refer to.
Ones(s) ==
    {[Base("inscribe", s) EXCEPT !.content = k, !.v2 = v, !.coll = p] :
        k \in Content, v \in BOOLEAN, p \in {0, 2}}
    \cup {[Base("inscribe", s) EXCEPT !.symbol = y, !.royalty = 1,
                                     !.content = IF y = x THEN 1 ELSE 2] : y \in Symbol}

Moves(s) ==
    {[Base("migrate", s) EXCEPT !.rows = r, !.coll = p] :
        r \in {{1}, {1, 3}}, p \in {0, 2, 3}}
    \cup {[Base("grant", s) EXCEPT !.to = t] : t \in Addr \ {s}}
    \cup {[Base("transfer", s) EXCEPT !.to = t] : t \in Addr \ {s}}
    \cup {[Base("update", s) EXCEPT !.hash = 2, !.royalty = 2]}

MCSubmissions == UNION {Ones(s) \cup Moves(s) : s \in Addr}

\* Bound: an inscription comes first, then a collection, then either.
Order ==
    /\ Len(chain) >= 1 => chain[1].op = "inscribe" /\ chain[1].symbol = NoSymbol
                          /\ chain[1].coll = 0 /\ chain[1].content = 1
    /\ Len(chain) >= 2 => chain[2].op # "migrate"
    /\ Len(chain) - pos < 1

\* Of the chain, only what may still be processed again tells states apart.
Ahead ==
    <<Len(chain), [k \in {j \in DOMAIN chain : j >= pos - 1} |-> chain[k]],
      pos, seen, inscription, collection, grant, stops>>
=============================================================================
