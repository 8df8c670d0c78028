------------------------------- MODULE Trade -------------------------------
(***************************************************************************)
(* The two ends of the marketplace together: the SDK of the buyers         *)
(* (client/src/operations/marketplace.ts), which prepares deposits and     *)
(* purchases from the rows that the API shows and works out what to send,  *)
(* and the indexer's processor, module Marketplace, which later, after     *)
(* whatever sellers and other buyers have done meanwhile, works out on its *)
(* own what should have been sent.  The payment itself is made by the      *)
(* chain, which knows nothing of either.                                   *)
(***************************************************************************)
EXTENDS Marketplace, FiniteSets

CONSTANTS
    Buyer,         \* users of the SDK
    Baskets,       \* the lists of listings that a page lets them pick
    MaxPrepared    \* bound: operations being prepared or not yet sent

ASSUME TradeAssumption ==
    Buyer \subseteq Addr /\ Baskets \subseteq Seq(Id) /\ MaxPrepared \in Nat

VARIABLES
    prepared,   \* operations being prepared: the transaction so far, the listings
                \* left to look up, the height known when the operation began,
                \* and until when the listings looked up were reserved
    promise     \* history variable: the last of these, by transaction received

tradeVars == <<vars, prepared, promise>>

None == [l \in Id |-> 0]

TradeInit == Init /\ prepared = {} /\ promise = [t \in Id |-> None]
-----------------------------------------------------------------------------
(* What the SDK sends *)

\* Mutant: the deposit is not taken off.
RestWhole(l) == l.total

\* "If deposit is greater than total, then just sent 1uatom".
Rest(l) == IF l.deposit > l.total THEN 1 ELSE l.total - l.deposit

\* toFixed
SDKRoyalty(l) == (2 * l.total * RoyaltyNum + RoyaltyDen) \div (2 * RoyaltyDen)

PaysRoyalty(l) ==
    /\ l.item \in Insc /\ OwesRoyalty(l)
    /\ Rest(l) > 1 /\ l.total * RoyaltyNum > RoyaltyDen

\* What the seller of a listing is sent.
Price(o, l) ==
    IF o = "deposit" THEN l.deposit
    ELSE IF PaysRoyalty(l) THEN Rest(l) - SDKRoyalty(l) ELSE Rest(l)

Messages(o, l) ==
    [a \in Addr |->
        IF a = l.seller THEN Price(o, l)
        ELSE IF a = RoyaltyTo /\ o # "deposit" /\ PaysRoyalty(l) THEN SDKRoyalty(l)
        ELSE NoSend]

\* GetBaseTokensSent finds the first message to an address.
Join(sends, more) == [a \in Addr |-> IF sends[a] # NoSend THEN sends[a] ELSE more[a]]

\* prepareOperation.  The fee attached is worked out of what all sends come
\* to and rounded up, so that it covers what the indexer asks for each listing
\* whose amount it accepts.
Operation(o, a) ==
    [op |-> o, sender |-> a, hashes |-> <<>>, item |-> Lot, amount |-> 0,
     total |-> 0, deposit |-> 0, timeout |-> 0, dst |-> a,
     sent |-> [x \in Addr |-> NoSend], fee |-> TRUE, funds |-> TRUE]
-----------------------------------------------------------------------------
(* What the SDK checks.  known is last_known_height.                       *)

OnOffer(l) == listing[l] # NoListing /\ ~listing[l].filled /\ ~listing[l].cancelled

DepositListingOK(l, known) ==
    OnOffer(l) /\ (listing[l].depositor # NoAddr => listing[l].until <= known)

\* Mutant: anyone's reservation will do.
GetListingOKAnyone(a, l, known) ==
    OnOffer(l) /\ listing[l].depositor # NoAddr /\ known <= listing[l].until

\* getListing
GetListingOK(a, l, known) ==
    OnOffer(l) /\ listing[l].depositor = a /\ known <= listing[l].until

\* The row of the status has the height of the chain when the last block was
\* processed: the current one's, or a later one's.
Known == height - 1 .. height
-----------------------------------------------------------------------------
(* Preparing: the status is fetched once, then one listing after another *)

Begin(o, a, basket) ==
    /\ Cardinality(prepared) < MaxPrepared
    /\ \E known \in Known :
          prepared' = prepared \cup
             {[tx |-> Operation(o, a), left |-> basket, known |-> known, until |-> None]}
    /\ UNCHANGED <<vars, promise>>

\* The pages show listings that have their item, and let inscriptions be bought
\* one at a time.
Offers(basket, items) ==
    \A n \in DOMAIN basket : listing[basket[n]] # NoListing /\ listing[basket[n]].item \in items

BeginDeposit(a, basket) == Begin("deposit", a, basket)

BeginBuy(a, basket) ==
    \/ Offers(basket, {Lot}) /\ Begin("buy.cft20", a, basket)
    \/ Offers(basket, Insc) /\ Len(basket) = 1 /\ Begin("buy.inscription", a, basket)

ListingOK(p, l) ==
    IF p.tx.op = "deposit" THEN DepositListingOK(l, p.known)
                           ELSE GetListingOK(p.tx.sender, l, p.known)

Becomes(p, q) ==
    /\ prepared' = (prepared \ {p}) \cup {q}
    /\ UNCHANGED <<vars, promise>>

\* One more listing named, and paid for.
Adding(t, l) ==
    [t EXCEPT !.hashes = Append(@, l), !.sent = Join(@, Messages(t.op, listing[l]))]

\* The chain refuses a message that sends nothing: an operation that would have
\* one can only be given up.
TakeListing(p) ==
    /\ p.left # <<>>
    /\ LET l == Head(p.left)
           until == IF p.tx.op = "deposit" THEN p.until
                    ELSE [p.until EXCEPT ![l] = listing[l].until]
       IN /\ ListingOK(p, l) /\ Price(p.tx.op, listing[l]) > 0
          /\ Becomes(p, [p EXCEPT !.tx = Adding(p.tx, l), !.left = Tail(p.left),
                                  !.until = until])

SkipListing(p) ==
    /\ p.left # <<>> /\ ~ListingOK(p, Head(p.left))
    /\ Becomes(p, [p EXCEPT !.left = Tail(p.left)])

\* Signed, paid and received by the indexer, or given up.
Submit(p) ==
    /\ p.left = <<>> /\ p.tx.hashes # <<>>
    /\ Arrive(p.tx)
    /\ prepared' = prepared \ {p}
    /\ promise' = [promise EXCEPT ![sent + 1] = p.until]

GiveUp(p) ==
    /\ prepared' = prepared \ {p}
    /\ UNCHANGED <<vars, promise>>

TradeNext ==
    \/ \E a \in Buyer, basket \in Baskets : BeginDeposit(a, basket) \/ BeginBuy(a, basket)
    \/ \E p \in prepared : TakeListing(p) \/ SkipListing(p) \/ Submit(p) \/ GiveUp(p)
    \/ Next /\ UNCHANGED <<prepared, promise>>

TradeSpec == TradeInit /\ [][TradeNext]_tradeVars
-----------------------------------------------------------------------------
(* Properties *)

InList(s) == {s[n] : n \in DOMAIN s}

\* GetBaseTokensSent takes one message for the payments of all listings that
\* have the same seller.
SellersDiffer(ls) ==
    \A k, l \in ls : k # l /\ listing[k] # NoListing /\ listing[l] # NoListing
                       => listing[k].seller # listing[l].seller

\* The SDK and the indexer work out the same rest and the same royalty.
ReckonedAlike(l) ==
    /\ l.deposit <= l.total
    /\ l.item \in Insc /\ OwesRoyalty(l) => PaysRoyalty(l) /\ SDKRoyalty(l) = Royalty(l)

\* marketplace.md: "The sender must send the balance of the total ask for the
\* listing, that is total - deposit".  A purchase that the SDK prepared, and
\* that is processed before the reservation it was prepared for runs out, buys
\* what it pays for, whatever the seller and other buyers do meanwhile, and
\* also when its block is run again.
PaidIsBought ==
    /\ pc = "run" /\ tx.op \in {"buy.cft20", "buy.inscription"}
    /\ promise[me.id][named] > height /\ ~target.filled
    /\ SellersDiffer(InList(tx.hashes)) /\ ReckonedAlike(target)
    => IF tx.op = "buy.cft20" THEN BuyCFT20OK ELSE BuyInscriptionOK

\* All deposits and purchases are made with the SDK.
OnlySDK == \A t \in Submissions : t.op \notin {"deposit", "buy.cft20", "buy.inscription"}

\* What the users of the SDK pay for a listing, the deposit, the rest and the
\* royalty, is its price and no more.
PaysThePrice ==
    [][\A l \in Id :
          /\ OnlySDK /\ \A b \in Baskets : SellersDiffer(InList(b))
          /\ listing[l] # NoListing
          /\ ~listing[l].filled /\ listing'[l].filled
          /\ listing[l].deposit <= listing[l].total
          => receipt'[l].deposit + receipt'[l].rest = listing[l].total]_tradeVars
=============================================================================
