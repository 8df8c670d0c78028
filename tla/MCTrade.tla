------------------------------ MODULE MCTrade ------------------------------
EXTENDS Trade, TLC

CONSTANTS Sellers, Items, Totals, Deposits, Units

MCBlank(op, a) ==
    [op |-> op, sender |-> a, hashes |-> <<1>>, item |-> Lot, amount |-> 2,
     total |-> 3, deposit |-> 1, timeout |-> 0, dst |-> a,
     sent |-> [x \in Addr |-> NoSend], fee |-> TRUE, funds |-> TRUE]

MCLists ==
    {[MCBlank(IF i = Lot THEN "list.cft20" ELSE "list.inscription", a)
        EXCEPT !.item = i, !.total = n, !.deposit = d, !.timeout = 1] :
       a \in Sellers, i \in Items, n \in Totals, d \in Deposits}

MCDelists == {[MCBlank("delist", a) EXCEPT !.hashes = <<1>>] : a \in Sellers}

MCSubmissions == MCLists \cup MCDelists

MCBaskets == {<<1>>, <<1, 2>>}

\* Bounds on the behaviours explored: listings come first, everyone has so
\* many units to start with, a page shows listings that are there, and nothing
\* is prepared in vain or submitted that has no effect.
Focus ==
    /\ \A p \in prepared :
          Offers(p.left, Insc \cup {Lot}) /\ (p.left = <<>> => p.tx.hashes # <<>>)
    /\ sent = 0 => \A x \in Addr : bal[x] = Units
    /\ sent = 1 /\ tail # <<>> => tail[1].tx \in MCLists
Effective ==
    pc = "run" /\ pos = 1 /\ at' = at + 1 /\ tx \in Submissions => tables' # tables

\* The SDK reads listings only, which no other save of a handler changes.
Reads == prepared' # prepared => pc \in {"idle", "detail"} \/ pos > 1
=============================================================================
