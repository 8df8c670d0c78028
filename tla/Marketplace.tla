----------------------------- MODULE Marketplace -----------------------------
(***************************************************************************)
(* The marketplace processor (metaprotocol/marketplace.go) and the         *)
(* transfer of an inscription (metaprotocol/inscription.go), as the block  *)
(* loop of module Indexer drives them: one transaction after another, each *)
(* save a database transaction of its own, and after a stop the last       *)
(* processed block and what was done of the next are run again, their      *)
(* transactions now without an ID.                                         *)
(*                                                                         *)
(* An action is the checks of an operation together with its first save,   *)
(* or one later save.  Saves of history rows whose failure the code        *)
(* ignores are left out; the one that ends a delisting is kept.            *)
(***************************************************************************)
EXTENDS Integers, Sequences

CONSTANTS
    Addr,            \* users
    Insc,            \* inscriptions
    Market,          \* virtualAddress: the owner of what is on sale
    NoAddr, NoItem, NoListing,
    Lot,             \* the item of a listing of CFT-20 tokens
    Submissions,     \* transactions users submit
    MinTimeout,      \* MARKET_MIN_TIMEOUT
    MinTrade,        \* MARKET_MIN_TRADE
    Wide,            \* 2^64
    RoyaltyTo,       \* payment address of the collection the inscriptions are in
    RoyaltyNum, RoyaltyDen,   \* its royalty percentage
    MaxTx,           \* bound: transactions
    MaxHeight,       \* bound: height of the chain
    MaxStops         \* bound: stops of the process

ASSUME MarketplaceAssumption ==
    /\ Market \notin Addr /\ NoAddr \notin Addr /\ Market # NoAddr
    /\ Lot \notin Insc /\ NoItem \notin Insc \cup {Lot}
    /\ MinTimeout \in Nat /\ MinTrade \in Nat /\ Wide \in Nat \ {0} /\ RoyaltyTo \in Addr
    /\ RoyaltyNum \in Nat /\ RoyaltyDen \in Nat \ {0}
    /\ MaxTx \in Nat /\ MaxHeight \in Nat \ {0} /\ MaxStops \in Nat

VARIABLES
    owner,     \* inscription.current_owner
    bal,       \* token_holder.amount of the one token
    listing,   \* marketplace_listing and its detail, by listing transaction
    receipt,   \* history variable: what was paid for a listing, and by whom
    tail,      \* transactions of the last processed block and of the current one
    mark,      \* how many of them are of the last processed block
    at,        \* the one being run
    sent,      \* transactions received so far
    height,    \* the current block
    pc,        \* the next save of the running handler
    pos,       \* the hash of the transaction's list it is at
    fresh,     \* the transaction's row was inserted by this run
    stops      \* stops of the process

tables == <<owner, bal, listing, receipt>>
loop == <<tail, mark, at, sent, height, fresh, stops>>
vars == <<tables, loop, pc, pos>>
-----------------------------------------------------------------------------
Id == 1 .. MaxTx
Ops == {"list.cft20", "list.inscription", "deposit", "delist", "buy.cft20",
        "buy.inscription", "transfer"}

NoSend == -1   \* no MsgSend to an address

\* hashes: the listings named (the inscription of an inscription operation is
\* item); sent: the amount of the first MsgSend to each address; fee: the IBC
\* transfer to the receiver of fees covers the fee asked; funds: the sender's
\* balance covers the rest of the price.  Amounts of tokens are in halves of a
\* base unit.
Tx == [op: Ops, sender: Addr, hashes: Seq(Id), item: Insc \cup {Lot},
       amount: Nat, total: Nat, deposit: Nat, timeout: Nat, dst: Addr,
       sent: [Addr -> Nat \cup {NoSend}], fee: BOOLEAN, funds: BOOLEAN]

Listing == [seller: Addr, item: Insc \cup {Lot, NoItem}, amount: Nat,
            total: Nat, deposit: Nat, timeout: Nat, depositor: Addr \cup {NoAddr},
            until: Nat, filled: BOOLEAN, cancelled: BOOLEAN]

\* What is stored of a total is uint64, an operation is of what it handles, and
\* a list of no listings has no effect.
Wellformed ==
    {t \in Tx :
        /\ t.total < Wide
        /\ t.op = "list.cft20" => t.item = Lot
        /\ t.op \in {"list.inscription", "transfer"} => t.item \in Insc
        /\ t.op \in {"deposit", "delist", "buy.cft20", "buy.inscription"} => t.hashes # <<>>}

ASSUME SubmissionsAssumption ==
    NoListing \notin Listing /\ \A t \in Submissions : t \in Wellformed

Entry == [id: Id, tx: Wellformed, height: 1 .. MaxHeight]
NoReceipt == [by |-> NoAddr, deposit |-> 0, buyer |-> NoAddr, rest |-> 0]
Receipt == [by: Addr \cup {NoAddr}, deposit: Nat,
            buyer: Addr \cup {NoAddr}, rest: Nat]

TypeOK ==
    /\ owner \in [Insc -> Addr \cup {Market}]
    /\ bal \in [Addr -> Nat]
    /\ listing \in [Id -> Listing \cup {NoListing}]
    /\ receipt \in [Id -> Receipt]
    /\ tail \in Seq(Entry)
    /\ mark \in 0 .. Len(tail) /\ at \in 1 .. Len(tail) + 1
    /\ sent \in 0 .. MaxTx /\ height \in 1 .. MaxHeight /\ stops \in 0 .. MaxStops
    /\ pc \in {"idle", "run", "listing", "detail", "credit", "give", "return"}
    /\ pos \in Nat /\ fresh \in BOOLEAN

\* Inscriptions and tokens are created by other processors; every user has a
\* token_holder row.
Init ==
    /\ owner \in [Insc -> Addr]
    /\ bal \in [Addr -> 0 .. 2]
    /\ listing = [l \in Id |-> NoListing]
    /\ receipt = [l \in Id |-> NoReceipt]
    /\ tail = <<>> /\ mark = 0 /\ at = 1 /\ sent = 0 /\ height = 1
    /\ pc = "idle" /\ pos = 1 /\ fresh = FALSE /\ stops = 0
-----------------------------------------------------------------------------
me == tail[at]
tx == me.tx
named == tx.hashes[pos]
target == listing[named]

Goto(step) == pc' = step /\ UNCHANGED <<pos, loop>>

Finish ==
    /\ pc' = "idle" /\ pos' = 1 /\ at' = at + 1
    /\ UNCHANGED <<tail, mark, sent, height, fresh, stops>>

\* deposit and buy.cft20 go through the listings named, whatever becomes of each.
NextHash ==
    IF pos < Len(tx.hashes)
    THEN pc' = "run" /\ pos' = pos + 1 /\ UNCHANGED loop
    ELSE Finish

At(op) == pc = "run" /\ tx.op = op

\* The first save when the checks pass, and where to go then; nothing otherwise.
Attempt(ok, save, next, otherwise) ==
    IF ok THEN save /\ next ELSE otherwise /\ UNCHANGED tables

Sent(to, n) == tx.sent[to] # NoSend /\ tx.sent[to] >= n

Reserved(l, h) == l.depositor # NoAddr /\ l.until > h

\* Total - DepositTotal in uint64, and less a royalty.
Minus(x, y) == (x - y) % Wide
OwesRoyalty(l) == RoyaltyNum > 0 /\ l.seller # RoyaltyTo
Royalty(l) == IF OwesRoyalty(l) THEN (l.total * RoyaltyNum) \div RoyaltyDen ELSE 0
-----------------------------------------------------------------------------
(* Listing *)

\* Mutant: the seller's balance is not compared with the amount.
ListCFT20OKAnyBalance ==
    /\ tx.amount > 0 /\ tx.total >= MinTrade
    /\ tx.deposit >= 1 /\ tx.timeout >= MinTimeout /\ tx.fee

ListCFT20OK ==
    /\ tx.amount > 0 /\ tx.total >= MinTrade
    /\ tx.deposit >= 1 /\ tx.timeout >= MinTimeout /\ tx.fee
    /\ bal[tx.sender] >= tx.amount \div 2

ListCFT20 ==
    /\ At("list.cft20")
    /\ Attempt(ListCFT20OK,
               /\ bal' = [bal EXCEPT ![tx.sender] = @ - (tx.amount \div 2)]
               /\ UNCHANGED <<owner, listing, receipt>>,
               Goto("listing"), Finish)

\* Mutant: anyone may list an inscription.
ListInscriptionOKAnyone ==
    /\ tx.deposit >= 1 /\ tx.timeout >= MinTimeout /\ tx.fee

ListInscriptionOK ==
    /\ owner[tx.item] = tx.sender
    /\ tx.deposit >= 1 /\ tx.timeout >= MinTimeout /\ tx.fee

ListInscription ==
    /\ At("list.inscription")
    /\ Attempt(ListInscriptionOK,
               /\ owner' = [owner EXCEPT ![tx.item] = Market]
               /\ UNCHANGED <<bal, listing, receipt>>,
               Goto("listing"), Finish)

\* The foreign key on transaction_id refuses a listing without an ID.
SaveListing ==
    /\ pc = "listing"
    /\ Attempt(fresh,
               /\ listing' = [listing EXCEPT ![me.id] =
                    [seller |-> tx.sender, item |-> NoItem, amount |-> 0,
                     total |-> tx.total, deposit |-> tx.deposit,
                     timeout |-> tx.timeout, depositor |-> NoAddr, until |-> 0,
                     filled |-> FALSE, cancelled |-> FALSE]]
               /\ UNCHANGED <<owner, bal, receipt>>,
               Goto("detail"), Finish)

SaveDetail ==
    /\ pc = "detail"
    /\ listing' = [listing EXCEPT ![me.id].item = tx.item,
                                  ![me.id].amount = (tx.amount + 1) \div 2]
    /\ Finish
    /\ UNCHANGED <<owner, bal, receipt>>
-----------------------------------------------------------------------------
(* Reserving *)

DepositOK ==
    /\ target # NoListing
    /\ ~Reserved(target, me.height)
    /\ target.total >= target.deposit => tx.funds
    /\ Sent(target.seller, target.deposit)

Deposit ==
    /\ At("deposit")
    /\ Attempt(DepositOK,
               /\ listing' = [listing EXCEPT
                    ![named].depositor = tx.sender,
                    ![named].until = me.height + target.timeout + 1]
               /\ receipt' = [receipt EXCEPT ![named] =
                    [NoReceipt EXCEPT !.by = tx.sender,
                                      !.deposit = tx.sent[target.seller]]]
               /\ UNCHANGED <<owner, bal>>,
               NextHash, NextHash)
-----------------------------------------------------------------------------
(* Buying *)

Fill(rest) ==
    /\ listing' = [listing EXCEPT ![named].filled = TRUE]
    /\ receipt' = [receipt EXCEPT ![named].buyer = tx.sender, ![named].rest = rest]
    /\ UNCHANGED <<owner, bal>>

BuyCFT20OK ==
    /\ target # NoListing /\ target.item = Lot
    /\ target.depositor = tx.sender
    /\ Sent(target.seller, Minus(target.total, target.deposit))
    /\ tx.fee

BuyCFT20 ==
    /\ At("buy.cft20")
    /\ Attempt(BuyCFT20OK, Fill(tx.sent[target.seller]), Goto("credit"), NextHash)

SaveCredit ==
    /\ pc = "credit"
    /\ bal' = [bal EXCEPT ![tx.sender] = @ + target.amount]
    /\ NextHash
    /\ UNCHANGED <<owner, listing, receipt>>

\* Mutant: the listing is reserved, but not necessarily by the buyer.
BuyInscriptionOKAnyBuyer ==
    /\ target # NoListing /\ target.item \in Insc
    /\ ~target.filled /\ ~target.cancelled
    /\ target.depositor # NoAddr
    /\ OwesRoyalty(target) => Sent(RoyaltyTo, Royalty(target))
    /\ Sent(target.seller,
            Minus(Minus(target.total, target.deposit), Royalty(target)))
    /\ tx.fee

BuyInscriptionOK ==
    /\ target # NoListing /\ target.item \in Insc
    /\ ~target.filled /\ ~target.cancelled
    /\ target.depositor = tx.sender
    /\ OwesRoyalty(target) => Sent(RoyaltyTo, Royalty(target))
    /\ Sent(target.seller,
            Minus(Minus(target.total, target.deposit), Royalty(target)))
    /\ tx.fee

BuyInscription ==
    /\ At("buy.inscription")
    /\ Attempt(BuyInscriptionOK,
               Fill(tx.sent[target.seller]
                    + (IF OwesRoyalty(target) THEN tx.sent[RoyaltyTo] ELSE 0)),
               Goto("give"), Finish)

SaveGive ==
    /\ pc = "give"
    /\ owner' = [owner EXCEPT ![target.item] = tx.sender]
    /\ Finish
    /\ UNCHANGED <<bal, listing, receipt>>
-----------------------------------------------------------------------------
(* Delisting *)

\* Mutant: a reservation does not keep the seller from delisting.
DelistOKReserved ==
    /\ target # NoListing /\ target.seller = tx.sender
    /\ ~target.filled /\ ~target.cancelled

DelistOK ==
    /\ target # NoListing /\ target.seller = tx.sender
    /\ ~Reserved(target, me.height)
    /\ ~target.filled /\ ~target.cancelled

\* The row of the listing's history comes before the return of the item, and
\* the handler ends, without an error, when it cannot be saved.
Delist ==
    /\ At("delist")
    /\ Attempt(DelistOK,
               /\ listing' = [listing EXCEPT ![named].depositor = NoAddr,
                                ![named].until = 0, ![named].cancelled = TRUE]
               /\ UNCHANGED <<owner, bal, receipt>>,
               IF fresh THEN Goto("return") ELSE Finish, Finish)

\* Mutant: only tokens are returned.
SaveReturnTokens ==
    /\ pc = "return"
    /\ IF target.item = Lot
       THEN bal' = [bal EXCEPT ![tx.sender] = @ + target.amount]
       ELSE UNCHANGED bal
    /\ Finish
    /\ UNCHANGED <<owner, listing, receipt>>

SaveReturn ==
    /\ pc = "return"
    /\ IF target.item = Lot
       THEN bal' = [bal EXCEPT ![tx.sender] = @ + target.amount]
       ELSE UNCHANGED bal
    /\ IF target.item \in Insc
       THEN owner' = [owner EXCEPT ![target.item] = tx.sender]
       ELSE UNCHANGED owner
    /\ Finish
    /\ UNCHANGED <<listing, receipt>>
-----------------------------------------------------------------------------
\* inscription.go: a transfer between users.
Transfer ==
    /\ At("transfer")
    /\ Attempt(owner[tx.item] = tx.sender,
               /\ owner' = [owner EXCEPT ![tx.item] = tx.dst]
               /\ UNCHANGED <<bal, listing, receipt>>,
               Finish, Finish)

Handle ==
    \/ ListCFT20 \/ ListInscription \/ SaveListing \/ SaveDetail
    \/ Deposit \/ BuyCFT20 \/ SaveCredit \/ BuyInscription \/ SaveGive
    \/ Delist \/ SaveReturn \/ Transfer
-----------------------------------------------------------------------------
(* The block loop *)

Arrive(t) ==
    /\ pc = "idle" /\ at = Len(tail) + 1 /\ sent < MaxTx
    /\ tail' = Append(tail, [id |-> sent + 1, tx |-> t, height |-> height])
    /\ sent' = sent + 1
    /\ pc' = "run" /\ fresh' = TRUE
    /\ UNCHANGED <<tables, mark, at, height, pos, stops>>

Receive == \E t \in Submissions : Arrive(t)

\* A transaction that has its row already is run again.
Again ==
    /\ pc = "idle" /\ at <= Len(tail)
    /\ pc' = "run" /\ fresh' = FALSE
    /\ UNCHANGED <<tables, tail, mark, at, sent, height, pos, stops>>

NextBlock ==
    /\ pc = "idle" /\ at = Len(tail) + 1 /\ height < MaxHeight
    /\ height' = height + 1
    /\ tail' = SubSeq(tail, mark + 1, Len(tail))
    /\ mark' = Len(tail) - mark
    /\ at' = Len(tail) - mark + 1
    /\ UNCHANGED <<tables, sent, pc, pos, fresh, stops>>

Stop ==
    /\ stops < MaxStops
    /\ stops' = stops + 1
    /\ at' = 1 /\ pc' = "idle" /\ pos' = 1
    /\ UNCHANGED <<tables, tail, mark, sent, height, fresh>>

Next == Receive \/ Again \/ Handle \/ NextBlock \/ Stop

Spec == Init /\ [][Next]_vars
-----------------------------------------------------------------------------
(* Properties *)

Live(l) ==
    /\ listing[l] # NoListing /\ listing[l].item # NoItem
    /\ ~listing[l].filled /\ ~listing[l].cancelled

OnSale(i) == {l \in Id : Live(l) /\ listing[l].item = i}

\* An inscription on sale is the marketplace's, and on sale once: whatever is
\* listed, sold, taken back, transferred or run again, no buyer pays for an
\* inscription that someone else holds or can sell.
OnSaleIsEscrowed ==
    \A i \in Insc : OnSale(i) # {} =>
        /\ owner[i] = Market
        /\ \A l, m \in OnSale(i) : l = m

\* Without stops nothing gets lost in the marketplace: an inscription it owns
\* is on sale, so that it can still be bought or taken back.
EscrowIsOnSale ==
    stops = 0 /\ pc = "idle" =>
        \A i \in Insc : owner[i] = Market => OnSale(i) # {}

\* marketplace.go: the rows are well-formed, what is on sale is held by the
\* marketplace, once, and until a stop what the marketplace holds is on sale.
MarketplaceInv == TypeOK /\ OnSaleIsEscrowed /\ EscrowIsOnSale

\* While a reservation runs nobody else gets the listing and the seller cannot
\* withdraw it, not even when old transactions are run again.
ReservationHeld ==
    [][\A l \in Id :
          listing[l] # NoListing /\ Reserved(listing[l], height) =>
              /\ listing'[l].depositor = listing[l].depositor
              /\ listing'[l].cancelled = listing[l].cancelled]_vars

\* The buyer of a listing is the one who reserved it last, and its deposit and
\* the rest add up to the price, the royalty included.
FillsArePaid ==
    [][\A l \in Id :
          /\ listing[l] # NoListing
          /\ ~listing[l].filled /\ listing'[l].filled
          /\ listing[l].deposit <= listing[l].total
          => /\ receipt'[l].buyer = receipt'[l].by
             /\ receipt'[l].deposit + receipt'[l].rest >= listing[l].total]_vars
=============================================================================
