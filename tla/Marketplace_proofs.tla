-------------------------- MODULE Marketplace_proofs --------------------------
(***************************************************************************)
(* Theorems about module Marketplace, for any users, inscriptions,         *)
(* submissions and stops: what is on sale is held by the marketplace and   *)
(* on sale once, a reservation is kept, and what is filled is paid for.    *)
(* Then, about module Trade: what the SDK prepares under a reservation is  *)
(* accepted, and costs its price.                                          *)
(*                                                                         *)
(* Between the saves of a handler the tables are not what the properties   *)
(* say, so the invariant says what the handler at each of its saves has in *)
(* hand.  That nothing is overwritten rests on the IDs: a transaction that *)
(* is run for the first time has the newest, and no listing has it yet.    *)
(***************************************************************************)
EXTENDS Trade, SequenceTheorems, TLAPS

Busy == pc # "idle"

\* The operations that name listings.
Naming == {"deposit", "delist", "buy.cft20", "buy.inscription"}

LoopTypes ==
    /\ tail \in Seq(Entry)
    /\ mark \in 0 .. Len(tail) /\ at \in 1 .. Len(tail) + 1
    /\ sent \in 0 .. MaxTx /\ height \in 1 .. MaxHeight /\ stops \in 0 .. MaxStops
    /\ pc \in {"idle", "run", "listing", "detail", "credit", "give", "return"}
    /\ pos \in Nat /\ fresh \in BOOLEAN

\* A handler has its transaction, and the save it is at belongs to it.
Running ==
    /\ \A n \in 1 .. Len(tail) : tail[n].height <= height
    /\ IF Busy THEN at <= Len(tail) /\ pos >= 1 ELSE pos = 1
    /\ Busy /\ tx.op \in Naming => pos <= Len(tx.hashes)
    /\ pc \in {"listing", "detail"} => tx.op \in {"list.cft20", "list.inscription"}
    /\ pc = "credit" => tx.op = "buy.cft20"
    /\ pc = "give" => tx.op = "buy.inscription"
    /\ pc = "return" => tx.op = "delist"

\* A transaction that is run for the first time is the newest; only after a
\* stop are there others.
Newest ==
    /\ Busy /\ fresh => at = Len(tail) /\ me.id = sent
    /\ pc \in {"detail", "return"} => fresh
    /\ stops = 0 => IF Busy THEN fresh ELSE at = Len(tail) + 1

LoopInv == LoopTypes /\ Running /\ Newest

TableTypes ==
    /\ owner \in [Insc -> Addr \cup {Market}]
    /\ bal \in [Addr -> Nat]
    /\ listing \in [Id -> Listing \cup {NoListing}]
    /\ receipt \in [Id -> Receipt]

\* No listing has an ID that is still to be given, nor that of a transaction
\* that is being run for the first time, until it is saved.
Unused ==
    /\ \A k \in Id : k > sent => listing[k] = NoListing
    /\ Busy /\ fresh /\ pc # "detail" => listing[me.id] = NoListing

\* A handler has the listing it is at; that of a new listing has no item yet.
AtListing ==
    /\ pc \in {"credit", "give", "return"} => target # NoListing
    /\ pc = "detail" =>
          /\ listing[me.id] # NoListing /\ listing[me.id].item = NoItem
          /\ ~listing[me.id].filled /\ ~listing[me.id].cancelled

\* What the handler has in hand between its saves, the marketplace holds, and it
\* is not on sale.
Handed(i) ==
    \/ pc \in {"listing", "detail"} /\ tx.op = "list.inscription" /\ tx.item = i
    \/ pc \in {"give", "return"} /\ target.item = i

InHand == \A i \in Insc : Handed(i) => owner[i] = Market /\ OnSale(i) = {}

\* Until a stop what the marketplace holds is on sale, or in hand.
Kept == stops = 0 => \A i \in Insc : owner[i] = Market => OnSale(i) # {} \/ Handed(i)

\* Whoever has a listing reserved has paid its deposit; totals are of 64 bits.
Paid ==
    \A l \in Id : listing[l] # NoListing =>
        /\ listing[l].total < Wide
        /\ listing[l].depositor # NoAddr =>
              /\ receipt[l].by = listing[l].depositor
              /\ receipt[l].deposit >= listing[l].deposit

SaleInv == TableTypes /\ Unused /\ AtListing /\ OnSaleIsEscrowed /\ InHand /\ Kept

Inv == LoopInv /\ SaleInv /\ Paid
-----------------------------------------------------------------------------
(* The loop *)

\* What is well-formed, and the submissions are.
LEMMA Wellformedness ==
  /\ \A t \in Submissions : t \in Wellformed
  /\ \A t \in Wellformed :
        /\ t \in Tx /\ t.total < Wide
        /\ t.op = "list.cft20" => t.item = Lot
        /\ t.op \in {"list.inscription", "transfer"} => t.item \in Insc
        /\ t.op \in Naming => t.hashes # <<>>
  BY SubmissionsAssumption DEF Wellformed, Naming

\* The transaction that is being run.
LEMMA AtWork ==
  ASSUME LoopInv, Busy
  PROVE  /\ at \in 1 .. Len(tail) /\ me \in Entry /\ me.id \in Id /\ me.height <= height
         /\ me.height \in Nat /\ height \in Nat
         /\ tx \in Wellformed /\ tx \in Tx
         /\ tx.op \in Naming => pos \in 1 .. Len(tx.hashes) /\ named \in Id
  <1>1. at \in 1 .. Len(tail) /\ tail \in Seq(Entry)
    BY DEF LoopInv, LoopTypes, Running
  <1>2. me \in Entry
    BY <1>1, ElementOfSeq DEF me
  <1>3. tx \in Wellformed /\ tx \in Tx /\ me.id \in Id /\ me.height \in 1 .. MaxHeight
    BY <1>2, Wellformedness DEF Entry, tx
  <1>4. me.height <= height
    BY <1>1 DEF LoopInv, Running, me
  <1>5. tx.hashes \in Seq(Id)
    BY <1>3 DEF Tx
  <1>6. ASSUME tx.op \in Naming PROVE pos \in 1 .. Len(tx.hashes) /\ named \in Id
    <2>1. pos \in 1 .. Len(tx.hashes)
      BY <1>5, <1>6 DEF LoopInv, LoopTypes, Running
    <2> QED
      BY <1>5, <2>1, ElementOfSeq DEF named
  <1> QED
    BY <1>1, <1>2, <1>3, <1>4, <1>6, MarketplaceAssumption DEF LoopInv, LoopTypes

LEMMA InitLoop == Init => LoopInv
  <1> SUFFICES ASSUME Init PROVE LoopInv
    OBVIOUS
  <1>1. tail = <<>> /\ tail \in Seq(Entry) /\ Len(tail) = 0
    BY DEF Init
  <1>2. fresh \in BOOLEAN
    BY DEF Init
  <1>3. LoopTypes
    BY <1>1, <1>2, MarketplaceAssumption DEF Init, LoopTypes
  <1>4. Running /\ Newest
    BY <1>1 DEF Init, Running, Newest, Busy
  <1> QED
    BY <1>3, <1>4 DEF LoopInv

\* Where a save of a handler leads: to the end of the handler, to the next of
\* the listings named, or to the next save.
Moves ==
    \/ pc' = "idle" /\ pos' = 1 /\ at' = at + 1
    \/ /\ tx.op \in {"deposit", "buy.cft20"} /\ pos < Len(tx.hashes)
       /\ pc' = "run" /\ pos' = pos + 1 /\ at' = at
    \/ /\ pos' = pos /\ at' = at
       /\ \/ pc' = "listing" /\ tx.op \in {"list.cft20", "list.inscription"}
          \/ pc' = "detail" /\ pc = "listing" /\ fresh
          \/ pc' = "credit" /\ tx.op = "buy.cft20"
          \/ pc' = "give" /\ tx.op = "buy.inscription"
          \/ pc' = "return" /\ tx.op = "delist" /\ fresh

LEMMA HandleMoves ==
  ASSUME LoopInv, Handle
  PROVE  Moves /\ Busy /\ UNCHANGED <<tail, mark, sent, height, fresh, stops>>
  <1>1. CASE ListCFT20 \/ ListInscription
    BY <1>1 DEF ListCFT20, ListInscription, At, Attempt, Goto, Finish, loop, Moves, Busy
  <1>2. CASE SaveListing
    BY <1>2 DEF SaveListing, Attempt, Goto, Finish, loop, Moves, Busy
  <1>3. CASE SaveDetail
    BY <1>3 DEF SaveDetail, Finish, Moves, Busy
  <1>4. CASE Deposit
    BY <1>4 DEF Deposit, At, Attempt, NextHash, Finish, loop, Moves, Busy
  <1>5. CASE BuyCFT20
    BY <1>5 DEF BuyCFT20, At, Attempt, Goto, NextHash, Finish, loop, Moves, Busy
  <1>6. CASE SaveCredit
    BY <1>6 DEF LoopInv, Running, SaveCredit, NextHash, Finish, loop, Moves, Busy
  <1>7. CASE BuyInscription
    BY <1>7 DEF BuyInscription, At, Attempt, Goto, Finish, loop, Moves, Busy
  <1>8. CASE SaveGive
    BY <1>8 DEF SaveGive, Finish, Moves, Busy
  <1>9. CASE Delist
    BY <1>9 DEF Delist, At, Attempt, Goto, Finish, loop, Moves, Busy
  <1>10. CASE SaveReturn
    BY <1>10 DEF SaveReturn, Finish, Moves, Busy
  <1>11. CASE Transfer
    BY <1>11 DEF Transfer, At, Attempt, Finish, Moves, Busy
  <1> QED
    BY <1>1, <1>2, <1>3, <1>4, <1>5, <1>6, <1>7, <1>8, <1>9, <1>10, <1>11 DEF Handle

LEMMA HandleLoop == ASSUME LoopInv, Handle PROVE LoopInv'
  <1>1. Moves /\ Busy /\ UNCHANGED <<tail, mark, sent, height, fresh, stops>>
    BY HandleMoves
  <1>2. at \in 1 .. Len(tail) /\ pos \in Nat /\ Len(tail) \in Nat
    BY <1>1, AtWork DEF LoopInv, LoopTypes
  <1>3. LoopTypes'
    BY <1>1, <1>2 DEF LoopInv, LoopTypes, Moves
  <1>4. Busy' => at' = at /\ tx' = tx /\ me' = me
    BY <1>1 DEF Moves, Busy, tx, me
  <1>5. Running'
    <2>1. \A n \in 1 .. Len(tail') : tail'[n].height <= height'
      BY <1>1 DEF LoopInv, Running
    <2>2. IF Busy' THEN at' <= Len(tail') /\ pos' >= 1 ELSE pos' = 1
      BY <1>1, <1>2, <1>4 DEF LoopInv, LoopTypes, Running, Moves, Busy
    <2>3. tx.hashes \in Seq(Id)
      BY <1>1, AtWork DEF Tx
    <2>4. Busy' /\ tx'.op \in Naming => pos' <= Len(tx'.hashes)
      BY <1>1, <1>2, <1>4, <2>3 DEF LoopInv, Running, Moves, Busy
    <2>5. Busy' => tx'.op = tx.op
      BY <1>4
    <2>6. /\ pc' \in {"listing", "detail"} => tx'.op \in {"list.cft20", "list.inscription"}
          /\ pc' = "credit" => tx'.op = "buy.cft20"
          /\ pc' = "give" => tx'.op = "buy.inscription"
          /\ pc' = "return" => tx'.op = "delist"
      BY <1>1, <2>5 DEF LoopInv, Running, Moves, Busy
    <2> QED
      BY <2>1, <2>2, <2>4, <2>6 DEF Running
  <1>6. Newest'
    <2>1. Busy' /\ fresh' => at' = Len(tail') /\ me'.id = sent'
      BY <1>1, <1>4 DEF LoopInv, Newest
    <2>2. pc' \in {"detail", "return"} => fresh'
      BY <1>1 DEF Moves
    <2>3. ASSUME stops' = 0 PROVE IF Busy' THEN fresh' ELSE at' = Len(tail') + 1
      <3>1. fresh /\ at = Len(tail)
        BY <1>1, <2>3 DEF LoopInv, Newest
      <3> QED
        BY <1>1, <3>1 DEF Moves, Busy
    <2> QED
      BY <2>1, <2>2, <2>3 DEF Newest
  <1> QED
    BY <1>3, <1>5, <1>6 DEF LoopInv

LEMMA ArriveLoop == ASSUME LoopInv, NEW t \in Wellformed, Arrive(t) PROVE LoopInv'
  <1> DEFINE e == [id |-> sent + 1, tx |-> t, height |-> height]
  <1>1. /\ tail \in Seq(Entry) /\ Len(tail) \in Nat /\ at = Len(tail) + 1
        /\ sent \in Nat /\ sent < MaxTx /\ tail' = Append(tail, e)
    BY MarketplaceAssumption DEF Arrive, LoopInv, LoopTypes
  <1>2. e \in Entry
    BY <1>1, MarketplaceAssumption DEF LoopInv, LoopTypes, Entry, Id
  <1>3. /\ tail' \in Seq(Entry) /\ Len(tail') = at
        /\ \A n \in 1 .. Len(tail) : tail'[n] = tail[n]
        /\ tail'[at] = e
    BY <1>1, <1>2, AppendProperties
  <1>4. sent' = sent + 1 /\ pc' = "run" /\ UNCHANGED <<mark, at, height, pos, stops>>
    BY DEF Arrive
  <1>5. fresh' \in BOOLEAN /\ fresh'
    BY DEF Arrive
  <1>6. LoopTypes'
    BY <1>1, <1>3, <1>4, <1>5, MarketplaceAssumption DEF LoopInv, LoopTypes
  <1>7. me' = e /\ tx' = t
    BY <1>3, <1>4 DEF me, tx
  <1>8. pos = 1
    BY DEF LoopInv, Running, Arrive, Busy
  <1>9. t.hashes \in Seq(Id) /\ (t.op \in Naming => Len(t.hashes) >= 1)
    BY Wellformedness, EmptySeq DEF Tx, Naming
  <1>10. Running'
    BY <1>1, <1>3, <1>4, <1>7, <1>8, <1>9 DEF LoopInv, LoopTypes, Running, Busy
  <1>11. Newest'
    BY <1>3, <1>4, <1>5, <1>7 DEF LoopInv, Newest, Busy
  <1> QED
    BY <1>6, <1>10, <1>11 DEF LoopInv

LEMMA LoopLoop == ASSUME LoopInv, Again \/ NextBlock \/ Stop PROVE LoopInv'
  <1>1. /\ tail \in Seq(Entry) /\ Len(tail) \in Nat /\ mark \in 0 .. Len(tail)
        /\ at \in 1 .. Len(tail) + 1
    BY DEF LoopInv, LoopTypes
  <1>2. CASE Again
    <2>1. /\ at <= Len(tail) /\ pc' = "run" /\ pos = 1 /\ stops # 0
          /\ UNCHANGED <<tail, mark, at, sent, height, pos, stops>>
      BY <1>1, <1>2 DEF Again, LoopInv, Running, Newest, Busy
    <2>2. fresh' \in BOOLEAN /\ ~fresh'
      BY <1>2 DEF Again
    <2>3. me' = me /\ tx' = tx /\ at \in 1 .. Len(tail)
      BY <1>1, <2>1 DEF me, tx
    <2>4. tx.op \in Naming => Len(tx.hashes) >= 1
      <3>1. me \in Entry
        BY <1>1, <2>3, ElementOfSeq DEF me
      <3>2. tx.hashes \in Seq(Id) /\ (tx.op \in Naming => tx.hashes # <<>>)
        BY <3>1, Wellformedness DEF tx, Entry, Tx
      <3> QED
        BY <3>2, EmptySeq
    <2>5. LoopTypes'
      BY <2>1, <2>2 DEF LoopInv, LoopTypes
    <2>6. Running'
      BY <2>1, <2>3, <2>4 DEF LoopInv, Running, Busy
    <2>7. Newest'
      BY <2>1, <2>2 DEF Newest
    <2> QED
      BY <2>5, <2>6, <2>7 DEF LoopInv
  <1>3. CASE NextBlock
    <2>1. /\ tail' = SubSeq(tail, mark + 1, Len(tail)) /\ mark' = Len(tail) - mark
          /\ at' = Len(tail) - mark + 1 /\ height' = height + 1 /\ height < MaxHeight
          /\ pc = "idle" /\ UNCHANGED <<sent, pc, pos, fresh, stops>>
      BY <1>3 DEF NextBlock
    <2>2. /\ tail' \in Seq(Entry) /\ Len(tail') = Len(tail) - mark
          /\ \A n \in 1 .. Len(tail') : tail'[n] = tail[mark + n] /\ mark + n \in 1 .. Len(tail)
      <3>1. \A n \in mark + 1 .. Len(tail) : tail[n] \in Entry
        BY <1>1, ElementOfSeq
      <3>2. mark + 1 \in Int /\ Len(tail) \in Int
        BY <1>1
      <3> DEFINE s == SubSeq(tail, mark + 1, Len(tail))
      <3>3. /\ s \in Seq(Entry)
            /\ Len(s) = IF mark + 1 <= Len(tail) THEN Len(tail) - (mark + 1) + 1 ELSE 0
            /\ \A n \in 1 .. Len(tail) - (mark + 1) + 1 : s[n] = tail[(mark + 1) + n - 1]
        <4> DEFINE m == mark + 1  k == Len(tail)
        <4>1. m \in Int /\ k \in Int /\ \A n \in m .. k : tail[n] \in Entry
          BY <3>1, <3>2
        <4> HIDE DEF m, k
        <4>2. /\ SubSeq(tail, m, k) \in Seq(Entry)
              /\ Len(SubSeq(tail, m, k)) = IF m <= k THEN k - m + 1 ELSE 0
              /\ \A n \in 1 .. k - m + 1 : SubSeq(tail, m, k)[n] = tail[m + n - 1]
          BY <4>1, SubSeqProperties
        <4> QED
          BY <4>2 DEF m, k
      <3> HIDE DEF s
      <3>4. tail' = s
        BY <2>1 DEF s
      <3>5. Len(s) = Len(tail) - mark
        BY <1>1, <3>3
      <3>6. \A n \in 1 .. Len(s) : s[n] = tail[mark + n] /\ mark + n \in 1 .. Len(tail)
        BY <1>1, <3>3, <3>5
      <3> QED
        BY <3>3, <3>4, <3>5, <3>6
    <2>3. LoopTypes'
      BY <1>1, <2>1, <2>2, MarketplaceAssumption DEF LoopInv, LoopTypes
    <2>4. height \in Nat /\ \A n \in 1 .. Len(tail) : tail[n].height \in Nat
      <3>1. \A n \in 1 .. Len(tail) : tail[n] \in Entry
        BY <1>1, ElementOfSeq
      <3>2. \A e \in Entry : e.height \in Nat
        BY MarketplaceAssumption DEF Entry
      <3> QED
        BY <3>1, <3>2, MarketplaceAssumption DEF LoopInv, LoopTypes
    <2>5. \A n \in 1 .. Len(tail') : tail'[n].height <= height'
      <3> SUFFICES ASSUME NEW n \in 1 .. Len(tail') PROVE tail'[n].height <= height'
        OBVIOUS
      <3>1. tail'[n] = tail[mark + n] /\ mark + n \in 1 .. Len(tail)
        BY <2>2
      <3>2. tail[mark + n].height <= height /\ tail[mark + n].height \in Nat
        BY <2>4, <3>1 DEF LoopInv, Running
      <3>3. height' = height + 1
        BY <2>1
      <3> QED
        BY <2>4, <3>1, <3>2, <3>3
    <2>6. Running' /\ Newest'
      BY <2>1, <2>2, <2>5 DEF LoopInv, Running, Newest, Busy
    <2> QED
      BY <2>3, <2>6 DEF LoopInv
  <1>4. CASE Stop
    <2>1. /\ stops' = stops + 1 /\ stops < MaxStops /\ at' = 1 /\ pc' = "idle" /\ pos' = 1
          /\ UNCHANGED <<tail, mark, sent, height, fresh>>
      BY <1>4 DEF Stop
    <2>2. LoopTypes'
      BY <1>1, <2>1, MarketplaceAssumption DEF LoopInv, LoopTypes
    <2>3. Running' /\ Newest'
      BY <2>1, MarketplaceAssumption DEF LoopInv, LoopTypes, Running, Newest, Busy
    <2> QED
      BY <2>2, <2>3 DEF LoopInv
  <1> QED
    BY <1>2, <1>3, <1>4

LEMMA NextLoop == LoopInv /\ [Next]_vars => LoopInv'
  <1> SUFFICES ASSUME LoopInv, [Next]_vars PROVE LoopInv'
    OBVIOUS
  <1>1. CASE Receive
    BY <1>1, ArriveLoop, Wellformedness DEF Receive
  <1>2. CASE Handle
    BY <1>2, HandleLoop
  <1>3. CASE Again \/ NextBlock \/ Stop
    BY <1>3, LoopLoop
  <1>4. CASE UNCHANGED vars
    BY <1>4 DEF vars, loop, LoopInv, LoopTypes, Running, Newest, Busy, me, tx
  <1> QED
    BY <1>1, <1>2, <1>3, <1>4 DEF Next
-----------------------------------------------------------------------------
(* What the saves of a handler write *)

\* A listing that is there.
LEMMA Target ==
  ASSUME LoopInv, TableTypes, Busy, tx.op \in Naming, target # NoListing
  PROVE  named \in Id /\ target \in Listing
  <1>1. named \in Id
    BY AtWork
  <1> QED
    BY <1>1 DEF TableTypes, target

\* Only the listing x changes, if any.
Only(x) == \A k \in Id : k # x => listing'[k] = listing[k]

LEMMA WriteListing ==
  ASSUME LoopInv, TableTypes, SaveListing, fresh
  PROVE  /\ listing' \in [Id -> Listing \cup {NoListing}] /\ Only(me.id)
         /\ listing'[me.id] \in Listing /\ listing'[me.id].item = NoItem
         /\ listing'[me.id].depositor = NoAddr
         /\ ~listing'[me.id].filled /\ ~listing'[me.id].cancelled
  <1> DEFINE new == [seller |-> tx.sender, item |-> NoItem, amount |-> 0,
                     total |-> tx.total, deposit |-> tx.deposit,
                     timeout |-> tx.timeout, depositor |-> NoAddr, until |-> 0,
                     filled |-> FALSE, cancelled |-> FALSE]
  <1>1. me.id \in Id /\ tx \in Tx
    BY AtWork DEF SaveListing, Busy
  <1>2. listing' = [listing EXCEPT ![me.id] = new]
    BY DEF SaveListing, Attempt
  <1>3. new \in Listing
    BY <1>1 DEF Tx, Listing
  <1> HIDE DEF new
  <1>4. listing' \in [Id -> Listing \cup {NoListing}] /\ Only(me.id) /\ listing'[me.id] = new
    BY <1>1, <1>2, <1>3 DEF TableTypes, Only
  <1> QED
    BY <1>3, <1>4 DEF new

LEMMA WriteDetail ==
  ASSUME LoopInv, TableTypes, AtListing, SaveDetail
  PROVE  /\ listing' \in [Id -> Listing \cup {NoListing}] /\ Only(me.id)
         /\ listing[me.id] \in Listing /\ listing'[me.id] \in Listing
         /\ listing'[me.id] = [listing[me.id] EXCEPT !.item = tx.item,
                                                     !.amount = (tx.amount + 1) \div 2]
  <1> DEFINE new == [listing[me.id] EXCEPT !.item = tx.item, !.amount = (tx.amount + 1) \div 2]
  <1>1. me.id \in Id /\ tx \in Tx /\ listing[me.id] \in Listing
    BY AtWork DEF SaveDetail, Busy, AtListing, TableTypes
  <1>2. listing' = [listing EXCEPT ![me.id] = new]
    BY <1>1 DEF SaveDetail, TableTypes
  <1>3. tx.item \in Insc \cup {Lot} /\ tx.amount \in Nat
    BY <1>1 DEF Tx
  <1>4. (tx.amount + 1) \div 2 \in Nat
    BY <1>3
  <1>5. new \in Listing
    BY <1>1, <1>3, <1>4 DEF Listing
  <1> HIDE DEF new
  <1>6. listing' \in [Id -> Listing \cup {NoListing}] /\ Only(me.id) /\ listing'[me.id] = new
    BY <1>1, <1>2, <1>5 DEF TableTypes, Only
  <1> QED
    BY <1>1, <1>5, <1>6 DEF new

LEMMA WriteDeposit ==
  ASSUME LoopInv, TableTypes, Deposit, DepositOK
  PROVE  /\ named \in Id /\ target \in Listing
         /\ listing' \in [Id -> Listing \cup {NoListing}] /\ Only(named)
         /\ listing'[named] \in Listing
         /\ listing'[named] = [target EXCEPT !.depositor = tx.sender,
                                             !.until = me.height + target.timeout + 1]
         /\ receipt' \in [Id -> Receipt]
         /\ \A k \in Id : k # named => receipt'[k] = receipt[k]
         /\ receipt'[named].by = tx.sender /\ receipt'[named].deposit >= target.deposit
         /\ receipt'[named].deposit = tx.sent[target.seller]
  <1> DEFINE new == [target EXCEPT !.depositor = tx.sender,
                                   !.until = me.height + target.timeout + 1]
             paid == [NoReceipt EXCEPT !.by = tx.sender, !.deposit = tx.sent[target.seller]]
  <1>1. /\ Busy /\ tx.op \in Naming /\ tx \in Tx /\ me.height \in Nat
        /\ target # NoListing
    BY AtWork DEF Deposit, At, Busy, Naming, DepositOK
  <1>2. named \in Id /\ target \in Listing
    BY <1>1, Target
  <1>3. listing' = [listing EXCEPT ![named] = new] /\ receipt' = [receipt EXCEPT ![named] = paid]
    BY <1>2 DEF Deposit, Attempt, TableTypes, target
  <1>4. tx.sender \in Addr /\ target.seller \in Addr /\ target.timeout \in Nat
    BY <1>1, <1>2 DEF Tx, Listing
  <1>5. tx.sent[target.seller] \in Nat /\ tx.sent[target.seller] >= target.deposit
    BY <1>1, <1>4 DEF DepositOK, Sent, Tx
  <1>6. me.height + target.timeout + 1 \in Nat
    BY <1>1, <1>4
  <1>7. new \in Listing
    BY <1>2, <1>4, <1>6 DEF Listing
  <1>8. paid \in Receipt /\ paid.by = tx.sender /\ paid.deposit = tx.sent[target.seller]
    BY <1>4, <1>5 DEF Receipt, NoReceipt
  <1> HIDE DEF new, paid
  <1>9. listing' \in [Id -> Listing \cup {NoListing}] /\ Only(named) /\ listing'[named] = new
    BY <1>2, <1>3, <1>7 DEF TableTypes, Only
  <1>10. /\ receipt' \in [Id -> Receipt] /\ receipt'[named] = paid
         /\ \A k \in Id : k # named => receipt'[k] = receipt[k]
    BY <1>2, <1>3, <1>8 DEF TableTypes
  <1> QED
    BY <1>2, <1>5, <1>7, <1>8, <1>9, <1>10 DEF new

LEMMA WriteDelist ==
  ASSUME LoopInv, TableTypes, Delist, DelistOK
  PROVE  /\ named \in Id /\ target \in Listing
         /\ listing' \in [Id -> Listing \cup {NoListing}] /\ Only(named)
         /\ listing'[named] \in Listing
         /\ listing'[named] = [target EXCEPT !.depositor = NoAddr, !.until = 0,
                                             !.cancelled = TRUE]
  <1> DEFINE new == [target EXCEPT !.depositor = NoAddr, !.until = 0, !.cancelled = TRUE]
  <1>1. Busy /\ tx.op \in Naming /\ target # NoListing
    BY DEF Delist, At, Busy, Naming, DelistOK
  <1>2. named \in Id /\ target \in Listing
    BY <1>1, Target
  <1>3. listing' = [listing EXCEPT ![named] = new]
    BY <1>2 DEF Delist, Attempt, TableTypes, target
  <1>4. new \in Listing
    BY <1>2 DEF Listing
  <1> HIDE DEF new
  <1>5. listing' \in [Id -> Listing \cup {NoListing}] /\ Only(named) /\ listing'[named] = new
    BY <1>2, <1>3, <1>4 DEF TableTypes, Only
  <1> QED
    BY <1>2, <1>4, <1>5 DEF new

\* The rest that a buyer sends is its first MsgSend to the seller.
LEMMA WriteFill ==
  ASSUME LoopInv, TableTypes, Busy, tx.op \in Naming, target # NoListing,
         NEW rest \in Nat, Fill(rest)
  PROVE  /\ named \in Id /\ target \in Listing
         /\ listing' \in [Id -> Listing \cup {NoListing}] /\ Only(named)
         /\ listing'[named] \in Listing
         /\ listing'[named] = [target EXCEPT !.filled = TRUE]
         /\ receipt' \in [Id -> Receipt]
         /\ \A k \in Id : k # named => receipt'[k] = receipt[k]
         /\ receipt'[named] = [receipt[named] EXCEPT !.buyer = tx.sender, !.rest = rest]
  <1> DEFINE new == [target EXCEPT !.filled = TRUE]
             paid == [receipt[named] EXCEPT !.buyer = tx.sender, !.rest = rest]
  <1>1. named \in Id /\ target \in Listing /\ tx.sender \in Addr
    BY Target, AtWork DEF Tx
  <1>2. listing' = [listing EXCEPT ![named] = new]
    BY <1>1 DEF Fill, TableTypes, target
  <1>3. receipt' = [receipt EXCEPT ![named] = paid]
    BY <1>1 DEF Fill, TableTypes
  <1>4. new \in Listing
    BY <1>1 DEF Listing
  <1>5. paid \in Receipt
    BY <1>1 DEF TableTypes, Receipt
  <1> HIDE DEF new, paid
  <1>6. listing' \in [Id -> Listing \cup {NoListing}] /\ Only(named) /\ listing'[named] = new
    BY <1>1, <1>2, <1>4 DEF TableTypes, Only
  <1>7. /\ receipt' \in [Id -> Receipt] /\ receipt'[named] = paid
        /\ \A k \in Id : k # named => receipt'[k] = receipt[k]
    BY <1>1, <1>3, <1>5 DEF TableTypes
  <1> QED
    BY <1>1, <1>4, <1>6, <1>7 DEF new, paid
-----------------------------------------------------------------------------
(* What a buyer sends *)

LEMMA Modulo ==
  ASSUME NEW x \in Int, x < Wide
  PROVE  x % Wide \in Nat /\ x % Wide < Wide /\ x % Wide >= x /\ (x >= 0 => x % Wide = x)
  BY MarketplaceAssumption

LEMMA RoyaltyIsNat == ASSUME NEW l \in Listing PROVE Royalty(l) \in Nat
  <1>1. l.total \in Nat
    BY DEF Listing
  <1>2. l.total * RoyaltyNum \in Nat
    BY <1>1, MarketplaceAssumption
  <1>3. \A x \in Nat : x \div RoyaltyDen \in Nat
    BY MarketplaceAssumption
  <1> QED
    BY <1>2, <1>3 DEF Royalty

\* With the deposit the rest and the royalty make up the price, whatever wraps
\* around.
LEMMA RestMakesUp ==
  ASSUME NEW l \in Listing, l.total < Wide, l.deposit <= l.total
  PROVE  /\ Minus(l.total, l.deposit) + l.deposit >= l.total
         /\ Minus(Minus(l.total, l.deposit), Royalty(l)) + Royalty(l) + l.deposit >= l.total
  <1>1. l.total \in Nat /\ l.deposit \in Nat /\ Royalty(l) \in Nat /\ Wide \in Nat
    BY RoyaltyIsNat, MarketplaceAssumption DEF Listing
  <1> DEFINE x == l.total - l.deposit
  <1>2. x \in Nat /\ x < Wide
    BY <1>1
  <1>3. Minus(l.total, l.deposit) = x
    BY <1>2, Modulo DEF Minus
  <1>4. x - Royalty(l) \in Int /\ x - Royalty(l) < Wide
    BY <1>1, <1>2
  <1>5. (x - Royalty(l)) % Wide \in Nat /\ (x - Royalty(l)) % Wide >= x - Royalty(l)
    BY <1>4, Modulo
  <1>6. Minus(x, Royalty(l)) \in Nat /\ Minus(x, Royalty(l)) >= x - Royalty(l)
    BY <1>5 DEF Minus
  <1> QED
    BY <1>1, <1>2, <1>3, <1>6

Buying == (BuyCFT20 /\ BuyCFT20OK) \/ (BuyInscription /\ BuyInscriptionOK)

\* What the buyer sends for the listing, besides the deposit.
Spent(rest) ==
    LET own == tx.sent[target.seller]
    IN IF tx.op = "buy.inscription" THEN rest = own + (IF OwesRoyalty(target) THEN tx.sent[RoyaltyTo] ELSE 0)
                                    ELSE rest = own

LEMMA WriteBuying ==
  ASSUME LoopInv, TableTypes, Buying
  PROVE  /\ Busy /\ tx.op \in Naming /\ target # NoListing /\ named \in Id /\ target \in Listing
         /\ tx.sender \in Addr /\ target.depositor = tx.sender
         /\ listing' \in [Id -> Listing \cup {NoListing}] /\ Only(named)
         /\ listing'[named] \in Listing
         /\ listing'[named] = [target EXCEPT !.filled = TRUE]
         /\ receipt' \in [Id -> Receipt]
         /\ \A k \in Id : k # named => receipt'[k] = receipt[k]
         /\ receipt'[named].buyer = tx.sender
         /\ UNCHANGED <<owner, bal>>
         /\ receipt'[named].by = receipt[named].by
         /\ receipt'[named].deposit = receipt[named].deposit
         /\ target.total < Wide /\ target.deposit <= target.total =>
               receipt'[named].rest + target.deposit >= target.total
         /\ Spent(receipt'[named].rest)
  <1>1. Busy /\ tx.op \in Naming /\ target # NoListing
    BY DEF Buying, BuyCFT20, BuyInscription, BuyCFT20OK, BuyInscriptionOK, At, Busy, Naming
  <1>2. named \in Id /\ target \in Listing /\ tx \in Tx
    BY <1>1, Target, AtWork
  <1>3. tx.sender \in Addr /\ target.seller \in Addr /\ tx.sent[target.seller] \in Nat \cup {NoSend}
    BY <1>2 DEF Tx, Listing
  <1>4. target.total \in Nat /\ target.deposit \in Nat /\ Royalty(target) \in Nat
    BY <1>2, RoyaltyIsNat DEF Listing
  <1>5. \E rest \in Nat :
          /\ Fill(rest) /\ target.depositor = tx.sender /\ Spent(rest)
          /\ target.total < Wide /\ target.deposit <= target.total =>
                rest + target.deposit >= target.total
    <2>1. CASE BuyCFT20 /\ BuyCFT20OK
      <3> DEFINE rest == tx.sent[target.seller]
      <3>1. Fill(rest) /\ target.depositor = tx.sender /\ Spent(rest)
        BY <2>1 DEF BuyCFT20, BuyCFT20OK, Attempt, At, Spent
      <3>2. rest \in Nat /\ rest >= Minus(target.total, target.deposit)
        BY <1>3, <2>1 DEF BuyCFT20OK, Sent
      <3>3. Minus(target.total, target.deposit) \in Int
        BY <1>4, MarketplaceAssumption DEF Minus
      <3>4. target.total < Wide /\ target.deposit <= target.total =>
               rest + target.deposit >= target.total
        BY <1>2, <1>4, <3>2, <3>3, RestMakesUp
      <3> QED
        BY <3>1, <3>2, <3>4
    <2>2. CASE BuyInscription /\ BuyInscriptionOK
      <3> DEFINE own == tx.sent[target.seller]
                 royalty == IF OwesRoyalty(target) THEN tx.sent[RoyaltyTo] ELSE 0
                 rest == own + royalty
                 due == Minus(Minus(target.total, target.deposit), Royalty(target))
      <3>1. Fill(rest) /\ target.depositor = tx.sender /\ Spent(rest)
        BY <2>2 DEF BuyInscription, BuyInscriptionOK, Attempt, At, Spent
      <3>2. own \in Nat /\ own >= due
        BY <1>3, <2>2 DEF BuyInscriptionOK, Sent
      <3>3. Minus(target.total, target.deposit) \in Int
        BY <1>4, MarketplaceAssumption DEF Minus
      <3>4. due \in Int
        BY <1>4, <3>3, MarketplaceAssumption DEF Minus
      <3>5. target.total < Wide /\ target.deposit <= target.total =>
               due + Royalty(target) + target.deposit >= target.total
        BY <1>2, RestMakesUp
      <3>8. royalty \in Nat /\ royalty >= Royalty(target)
        <4>1. tx.sent[RoyaltyTo] \in Nat \cup {NoSend}
          BY <1>2, MarketplaceAssumption DEF Tx
        <4> QED
          BY <1>4, <2>2, <4>1 DEF BuyInscriptionOK, Sent, Royalty
      <3> HIDE DEF own, due, royalty
      <3>6. rest \in Nat
        BY <3>2, <3>8
      <3>7. target.total < Wide /\ target.deposit <= target.total =>
               rest + target.deposit >= target.total
        BY <1>4, <3>2, <3>4, <3>5, <3>8
      <3> QED
        BY <3>1, <3>6, <3>7
    <2> QED
      BY <2>1, <2>2 DEF Buying
  <1>6. PICK rest \in Nat :
          /\ Fill(rest) /\ target.depositor = tx.sender /\ Spent(rest)
          /\ target.total < Wide /\ target.deposit <= target.total =>
                rest + target.deposit >= target.total
    BY <1>5
  <1>7. receipt'[named] = [receipt[named] EXCEPT !.buyer = tx.sender, !.rest = rest]
    BY <1>1, <1>6, WriteFill
  <1>8. receipt[named] \in Receipt
    BY <1>2 DEF TableTypes
  <1>9. /\ receipt'[named].by = receipt[named].by /\ receipt'[named].rest = rest
        /\ receipt'[named].deposit = receipt[named].deposit
        /\ receipt'[named].buyer = tx.sender
    BY <1>7, <1>8 DEF Receipt
  <1>10. UNCHANGED <<owner, bal>>
    BY <1>6 DEF Fill
  <1> QED
    BY <1>1, <1>2, <1>3, <1>6, <1>9, <1>10, WriteFill
-----------------------------------------------------------------------------
(* What a step does to an inscription *)

\* It stays where it is, the handler takes it, a user gets it, or it is offered.
Same(i) ==
    /\ owner'[i] = owner[i] /\ OnSale(i)' = OnSale(i)
    /\ Handed(i)' => Handed(i)
    /\ Handed(i) => Handed(i)' \/ stops' # 0
Taken(i) == owner'[i] = Market /\ OnSale(i)' = {} /\ (Handed(i)' \/ stops' # 0)
Given(i) == owner'[i] # Market /\ OnSale(i)' = {} /\ ~Handed(i)'
Offered(i) == owner'[i] = Market /\ (\E l \in Id : OnSale(i)' = {l}) /\ ~Handed(i)'

LEMMA SaleStep ==
  ASSUME OnSaleIsEscrowed, InHand, Kept, stops' = 0 => stops = 0,
         \A i \in Insc : Same(i) \/ Taken(i) \/ Given(i) \/ Offered(i)
  PROVE  OnSaleIsEscrowed' /\ InHand' /\ Kept'
  <1>1. ASSUME NEW i \in Insc
        PROVE  /\ OnSale(i)' # {} => owner'[i] = Market /\ \A l, m \in OnSale(i)' : l = m
               /\ Handed(i)' => owner'[i] = Market /\ OnSale(i)' = {}
               /\ stops' = 0 /\ owner'[i] = Market => OnSale(i)' # {} \/ Handed(i)'
    <2>1. CASE Same(i)
      BY <2>1 DEF Same, OnSaleIsEscrowed, InHand, Kept
    <2>2. CASE Taken(i) \/ Given(i) \/ Offered(i)
      BY <2>2 DEF Taken, Given, Offered
    <2> QED
      BY <2>1, <2>2
  <1> QED
    BY <1>1 DEF OnSaleIsEscrowed, InHand, Kept

LEMMA NothingHanded ==
  ASSUME pc \in {"idle", "run", "credit"}, NEW i PROVE ~Handed(i)
  BY DEF Handed

LEMMA NothingHandedNext ==
  ASSUME pc' \in {"idle", "run", "credit"}, NEW i PROVE ~Handed(i)'
  BY DEF Handed

LEMMA SameOnSale ==
  ASSUME listing' = listing, NEW i PROVE OnSale(i)' = OnSale(i)
  BY DEF OnSale, Live

\* A save that leaves the listings alone.
LEMMA SameListing ==
  ASSUME LoopInv, SaleInv, Paid, Handle, UNCHANGED <<listing, receipt>>,
         owner' \in [Insc -> Addr \cup {Market}], bal' \in [Addr -> Nat],
         pc # "detail", pc' \in {"idle", "run", "listing"}
  PROVE  TableTypes' /\ Unused' /\ AtListing' /\ Paid'
  <1>1. Moves /\ Busy /\ UNCHANGED <<tail, mark, sent, height, fresh, stops>>
    BY HandleMoves
  <1>2. Busy' => me' = me
    BY <1>1 DEF Moves, Busy, me
  <1>3. Unused'
    BY <1>1, <1>2 DEF SaleInv, Unused
  <1> QED
    BY <1>3 DEF SaleInv, TableTypes, AtListing, Paid

\* A save that changes the listing named.
LEMMA ChangedListing ==
  ASSUME LoopInv, SaleInv, Handle, pc = "run", pc' # "detail",
         named \in Id, target \in Listing, Only(named), listing'[named] \in Listing
  PROVE  /\ Unused' /\ AtListing'
         /\ pc' \in {"credit", "give", "return"} => target' = listing'[named]
  <1>1. Moves /\ Busy /\ UNCHANGED <<tail, mark, sent, height, fresh, stops>>
    BY HandleMoves
  <1>2. Busy' => me' = me
    BY <1>1 DEF Moves, Busy, me
  <1>3. \A k \in Id : listing[k] = NoListing => listing'[k] = NoListing
    BY SubmissionsAssumption DEF Only, target
  <1>4. me.id \in Id
    BY <1>1, AtWork
  <1>5. Unused'
    BY <1>1, <1>2, <1>3, <1>4 DEF SaleInv, Unused
  <1>6. pc' \in {"credit", "give", "return"} => target' = listing'[named]
    BY <1>1 DEF Moves, target, named, tx, me
  <1>7. AtListing'
    BY <1>6, SubmissionsAssumption DEF AtListing
  <1> QED
    BY <1>5, <1>6, <1>7

\* A listing that is no longer live.
LEMMA OffSale ==
  ASSUME named \in Id, Only(named), NEW i,
         listing'[named].filled \/ listing'[named].cancelled
  PROVE  OnSale(i)' = OnSale(i) \ {named}
  <1>1. PICK x \in Id : x = named
    OBVIOUS
  <1>2. ~Live(x)'
    BY <1>1 DEF Live
  <1>3. \A k \in Id : k # x => (Live(k)' <=> Live(k)) /\ listing'[k].item = listing[k].item
    BY <1>1 DEF Only, Live
  <1>4. OnSale(i)' = OnSale(i) \ {x}
    BY <1>2, <1>3 DEF OnSale
  <1> QED
    BY <1>1, <1>4
-----------------------------------------------------------------------------
(* The saves *)

\* A handler that ends, or goes to its next listing, without a save.
LEMMA NoSave ==
  ASSUME LoopInv, SaleInv, Paid, Handle, UNCHANGED tables, pc' \in {"idle", "run"},
         pc = "run" \/ (pc = "listing" /\ ~fresh)
  PROVE  SaleInv' /\ Paid'
  <1>1. UNCHANGED <<owner, bal, listing, receipt>> /\ pc # "detail"
    BY DEF tables
  <1>2. TableTypes' /\ Unused' /\ AtListing' /\ Paid'
    BY <1>1, SameListing DEF SaleInv, TableTypes
  <1>3. stops' = stops /\ Busy
    BY HandleMoves
  <1>4. pc = "run" \/ stops # 0
    BY <1>3 DEF LoopInv, Newest
  <1>5. \A i \in Insc : Same(i)
    BY <1>1, <1>3, <1>4, SameOnSale, NothingHanded, NothingHandedNext DEF Same
  <1>6. OnSaleIsEscrowed' /\ InHand' /\ Kept'
    BY <1>3, <1>5, SaleStep DEF SaleInv
  <1> QED
    BY <1>2, <1>6 DEF SaleInv

LEMMA ListCFT20Sale == ASSUME LoopInv, SaleInv, Paid, ListCFT20 PROVE SaleInv' /\ Paid'
  <1>1. Handle /\ pc = "run" /\ tx.op = "list.cft20" /\ Busy
    BY DEF Handle, ListCFT20, At, Busy
  <1>2. CASE ~ListCFT20OK
    <2>1. UNCHANGED tables /\ pc' = "idle"
      BY <1>2 DEF ListCFT20, Attempt, Finish
    <2> QED
      BY <1>1, <2>1, NoSave
  <1>3. CASE ListCFT20OK
    <2>1. /\ bal' = [bal EXCEPT ![tx.sender] = @ - (tx.amount \div 2)]
          /\ UNCHANGED <<owner, listing, receipt>> /\ UNCHANGED <<tail, at, stops>>
          /\ pc' = "listing"
      BY <1>3 DEF ListCFT20, Attempt, Goto, loop
    <2>2. tx.sender \in Addr /\ tx.amount \in Nat
      BY <1>1, AtWork DEF Tx
    <2>3. bal[tx.sender] \in Nat /\ bal[tx.sender] >= tx.amount \div 2
      BY <1>3, <2>2 DEF ListCFT20OK, SaleInv, TableTypes
    <2>4. bal[tx.sender] - (tx.amount \div 2) \in Nat
      BY <2>2, <2>3
    <2>5. bal' \in [Addr -> Nat]
      BY <2>1, <2>2, <2>4 DEF SaleInv, TableTypes
    <2>6. TableTypes' /\ Unused' /\ AtListing' /\ Paid'
      BY <1>1, <2>1, <2>5, SameListing DEF SaleInv, TableTypes
    <2>7. tx'.op = "list.cft20"
      BY <1>1, <2>1 DEF tx, me
    <2>8. \A i \in Insc : ~Handed(i) /\ ~Handed(i)'
      BY <1>1, <2>1, <2>7 DEF Handed
    <2>9. \A i \in Insc : Same(i)
      BY <2>1, <2>8, SameOnSale DEF Same
    <2>10. OnSaleIsEscrowed' /\ InHand' /\ Kept'
      BY <2>1, <2>9, SaleStep DEF SaleInv
    <2> QED
      BY <2>6, <2>10 DEF SaleInv
  <1> QED
    BY <1>2, <1>3

LEMMA ListInscriptionSale ==
  ASSUME LoopInv, SaleInv, Paid, ListInscription PROVE SaleInv' /\ Paid'
  <1>1. Handle /\ pc = "run" /\ tx.op = "list.inscription" /\ Busy
    BY DEF Handle, ListInscription, At, Busy
  <1>2. CASE ~ListInscriptionOK
    <2>1. UNCHANGED tables /\ pc' = "idle"
      BY <1>2 DEF ListInscription, Attempt, Finish
    <2> QED
      BY <1>1, <2>1, NoSave
  <1>3. CASE ListInscriptionOK
    <2>1. /\ owner' = [owner EXCEPT ![tx.item] = Market]
          /\ UNCHANGED <<bal, listing, receipt>> /\ UNCHANGED <<tail, at, stops>>
          /\ pc' = "listing"
      BY <1>3 DEF ListInscription, Attempt, Goto, loop
    <2>2. tx.item \in Insc /\ tx.sender \in Addr /\ owner[tx.item] = tx.sender
      BY <1>1, <1>3, AtWork, Wellformedness DEF Tx, ListInscriptionOK
    <2>3. owner' \in [Insc -> Addr \cup {Market}]
      BY <2>1, <2>2 DEF SaleInv, TableTypes
    <2>4. TableTypes' /\ Unused' /\ AtListing' /\ Paid'
      BY <1>1, <2>1, <2>3, SameListing DEF SaleInv, TableTypes
    <2>5. tx' = tx
      BY <2>1 DEF tx, me
    <2>6. ASSUME NEW i \in Insc PROVE Same(i) \/ Taken(i)
      <3>1. OnSale(i)' = OnSale(i) /\ ~Handed(i)
        BY <1>1, <2>1, SameOnSale, NothingHanded
      <3>2. CASE i = tx.item
        <4>1. OnSale(i) = {}
          BY <2>2, <3>2, MarketplaceAssumption DEF SaleInv, OnSaleIsEscrowed
        <4>2. Handed(i)' /\ owner'[i] = Market
          BY <1>1, <2>1, <2>2, <2>5, <3>2 DEF Handed, SaleInv, TableTypes
        <4> QED
          BY <3>1, <4>1, <4>2 DEF Taken
      <3>3. CASE i # tx.item
        <4>1. ~Handed(i)' /\ owner'[i] = owner[i]
          BY <2>1, <2>2, <2>5, <3>3 DEF Handed, SaleInv, TableTypes
        <4> QED
          BY <3>1, <4>1 DEF Same
      <3> QED
        BY <3>2, <3>3
    <2>7. OnSaleIsEscrowed' /\ InHand' /\ Kept'
      BY <2>1, <2>6, SaleStep DEF SaleInv
    <2> QED
      BY <2>4, <2>7 DEF SaleInv
  <1> QED
    BY <1>2, <1>3

LEMMA TransferSale == ASSUME LoopInv, SaleInv, Paid, Transfer PROVE SaleInv' /\ Paid'
  <1>1. Handle /\ pc = "run" /\ pc' = "idle" /\ tx.op = "transfer" /\ Busy /\ stops' = stops
    BY DEF Handle, Transfer, At, Busy, Attempt, Finish
  <1>2. CASE owner[tx.item] # tx.sender
    BY <1>1, <1>2, NoSave DEF Transfer, Attempt
  <1>3. CASE owner[tx.item] = tx.sender
    <2>1. /\ owner' = [owner EXCEPT ![tx.item] = tx.dst]
          /\ UNCHANGED <<bal, listing, receipt>>
      BY <1>3 DEF Transfer, Attempt
    <2>2. tx.item \in Insc /\ tx.sender \in Addr /\ tx.dst \in Addr
      BY <1>1, AtWork, Wellformedness DEF Tx
    <2>3. owner' \in [Insc -> Addr \cup {Market}]
      BY <2>1, <2>2 DEF SaleInv, TableTypes
    <2>4. TableTypes' /\ Unused' /\ AtListing' /\ Paid'
      BY <1>1, <2>1, <2>3, SameListing DEF SaleInv, TableTypes
    <2>5. ASSUME NEW i \in Insc PROVE Same(i) \/ Given(i)
      <3>1. OnSale(i)' = OnSale(i) /\ ~Handed(i) /\ ~Handed(i)'
        BY <1>1, <2>1, SameOnSale, NothingHanded, NothingHandedNext
      <3>2. CASE i = tx.item
        BY <1>3, <2>1, <2>2, <3>1, <3>2, MarketplaceAssumption
           DEF Given, SaleInv, TableTypes, OnSaleIsEscrowed
      <3>3. CASE i # tx.item
        BY <2>1, <2>2, <3>1, <3>3 DEF Same, SaleInv, TableTypes
      <3> QED
        BY <3>2, <3>3
    <2>6. OnSaleIsEscrowed' /\ InHand' /\ Kept'
      BY <1>1, <2>5, SaleStep DEF SaleInv
    <2> QED
      BY <2>4, <2>6 DEF SaleInv
  <1> QED
    BY <1>2, <1>3

LEMMA SaveListingSale == ASSUME LoopInv, SaleInv, Paid, SaveListing PROVE SaleInv' /\ Paid'
  <1>1. Handle /\ pc = "listing" /\ Busy
    BY DEF Handle, SaveListing, Busy
  <1>2. CASE ~fresh
    <2>1. UNCHANGED tables /\ pc' = "idle"
      BY <1>2 DEF SaveListing, Attempt, Finish
    <2> QED
      BY <1>1, <1>2, <2>1, NoSave
  <1>3. CASE fresh
    <2>1. /\ UNCHANGED <<owner, bal, receipt>> /\ pc' = "detail"
          /\ UNCHANGED <<tail, at, sent, stops>>
          /\ listing'[me.id].total = tx.total
      <3>1. me.id \in Id
        BY <1>1, AtWork
      <3> QED
        BY <1>3, <3>1 DEF SaveListing, Attempt, Goto, loop, SaleInv, TableTypes
    <2>2. /\ listing' \in [Id -> Listing \cup {NoListing}] /\ Only(me.id)
          /\ listing'[me.id] \in Listing /\ listing'[me.id].item = NoItem
          /\ listing'[me.id].depositor = NoAddr
          /\ ~listing'[me.id].filled /\ ~listing'[me.id].cancelled
      BY <1>3, WriteListing DEF SaleInv
    <2>3. me.id \in Id /\ me.id = sent /\ listing[me.id] = NoListing /\ sent \in Nat
      BY <1>1, <1>3, AtWork, MarketplaceAssumption DEF LoopInv, LoopTypes, Newest, SaleInv, Unused
    <2>4. me' = me /\ tx' = tx
      BY <2>1 DEF me, tx
    <2>5. TableTypes'
      BY <2>1, <2>2 DEF SaleInv, TableTypes
    <2>6. Unused'
      <3>1. \A k \in Id : k > sent => k # me.id
        BY <2>3 DEF Id
      <3> QED
        BY <2>1, <3>1, <2>2 DEF SaleInv, Unused, Only
    <2>7. AtListing'
      BY <2>1, <2>2, <2>4, SubmissionsAssumption DEF AtListing
    <2>8. Paid'
      <3>1. tx.total < Wide
        BY <1>1, AtWork, Wellformedness
      <3> QED
        BY <2>1, <2>2, <3>1 DEF Paid, Only
    <2>9. ASSUME NEW i \in Insc PROVE Same(i)
      <3>1. PICK x \in Id : x = me.id
        BY <2>3
      <3>2. listing[x] = NoListing /\ listing'[x].item = NoItem
        BY <2>2, <2>3, <3>1
      <3>3. x \notin OnSale(i) /\ x \notin OnSale(i)'
        BY <3>2 DEF OnSale, Live
      <3>4. \A k \in Id : k # x => listing'[k] = listing[k]
        BY <2>2, <3>1 DEF Only
      <3>5. OnSale(i)' = OnSale(i)
        BY <3>3, <3>4 DEF OnSale, Live
      <3>6. Handed(i)' <=> Handed(i)
        BY <1>1, <2>1, <2>4 DEF Handed
      <3> QED
        BY <2>1, <3>5, <3>6 DEF Same
    <2>10. OnSaleIsEscrowed' /\ InHand' /\ Kept'
      BY <2>1, <2>9, SaleStep DEF SaleInv
    <2> QED
      BY <2>5, <2>6, <2>7, <2>8, <2>10 DEF SaleInv
  <1> QED
    BY <1>2, <1>3

LEMMA SaveDetailSale == ASSUME LoopInv, SaleInv, Paid, SaveDetail PROVE SaleInv' /\ Paid'
  <1>1. /\ pc = "detail" /\ Busy /\ pc' = "idle" /\ UNCHANGED <<owner, bal, receipt>>
        /\ UNCHANGED <<sent, stops>> /\ fresh /\ tx.op \in {"list.cft20", "list.inscription"}
    BY DEF SaveDetail, Busy, Finish, LoopInv, Newest, Running
  <1>2. /\ listing' \in [Id -> Listing \cup {NoListing}] /\ Only(me.id)
        /\ listing[me.id] \in Listing /\ listing'[me.id] \in Listing
        /\ listing'[me.id] = [listing[me.id] EXCEPT !.item = tx.item,
                                                    !.amount = (tx.amount + 1) \div 2]
    BY WriteDetail DEF SaleInv
  <1>3. PICK x \in Id : x = me.id
    BY <1>1, AtWork
  <1>4. /\ x = sent /\ sent \in Nat
        /\ listing[x] \in Listing /\ listing[x].item = NoItem
        /\ ~listing[x].filled /\ ~listing[x].cancelled
    BY <1>1, <1>2, <1>3, MarketplaceAssumption
       DEF LoopInv, LoopTypes, Newest, SaleInv, AtListing
  <1>5. /\ listing'[x] \in Listing /\ listing'[x].item = tx.item
        /\ listing'[x].filled = listing[x].filled /\ listing'[x].cancelled = listing[x].cancelled
        /\ listing'[x].total = listing[x].total /\ listing'[x].deposit = listing[x].deposit
        /\ listing'[x].depositor = listing[x].depositor
    BY <1>2, <1>3, <1>4 DEF Listing
  <1>6. \A k \in Id : k # x => listing'[k] = listing[k]
    BY <1>2, <1>3 DEF Only
  <1>7. tx.item \in Insc \cup {Lot} /\ (tx.op = "list.cft20" => tx.item = Lot)
    BY <1>1, AtWork, Wellformedness DEF Tx
  <1>8. Unused'
    <2>1. \A k \in Id : k > sent => k # x
      BY <1>4 DEF Id
    <2> QED
      BY <1>1, <1>6, <2>1 DEF SaleInv, Unused, Busy
  <1>9. TableTypes' /\ AtListing'
    BY <1>1, <1>2 DEF SaleInv, TableTypes, AtListing
  <1>10. Paid'
    BY <1>1, <1>4, <1>5, <1>6, SubmissionsAssumption DEF Paid
  <1>11. Live(x)'
    BY <1>4, <1>5, <1>7, MarketplaceAssumption, SubmissionsAssumption DEF Live
  <1>12. ASSUME NEW i \in Insc PROVE Same(i) \/ Offered(i)
    <2>1. ~Handed(i)'
      BY <1>1, NothingHandedNext
    <2>2. x \notin OnSale(i)
      BY <1>4, MarketplaceAssumption DEF OnSale
    <2>3. CASE tx.item = i
      <3>1. Handed(i)
        BY <1>1, <1>7, <2>3, MarketplaceAssumption DEF Handed
      <3>2. owner[i] = Market /\ OnSale(i) = {}
        BY <3>1 DEF SaleInv, InHand
      <3>3. OnSale(i)' = {x}
        BY <1>5, <1>6, <1>11, <2>3, <3>2 DEF OnSale, Live
      <3> QED
        BY <1>1, <2>1, <3>2, <3>3 DEF Offered
    <2>4. CASE tx.item # i
      <3>1. OnSale(i)' = OnSale(i)
        BY <1>5, <1>6, <2>2, <2>4 DEF OnSale, Live
      <3>2. ~Handed(i)
        BY <1>1, <2>4 DEF Handed
      <3> QED
        BY <1>1, <2>1, <3>1, <3>2 DEF Same
    <2> QED
      BY <2>3, <2>4
  <1>13. OnSaleIsEscrowed' /\ InHand' /\ Kept'
    BY <1>1, <1>12, SaleStep DEF SaleInv
  <1> QED
    BY <1>8, <1>9, <1>10, <1>13 DEF SaleInv

LEMMA DepositSale == ASSUME LoopInv, SaleInv, Paid, Deposit PROVE SaleInv' /\ Paid'
  <1>1. Handle /\ pc = "run" /\ Busy /\ pc' \in {"idle", "run"} /\ stops' = stops
    BY DEF Handle, Deposit, At, Busy, Attempt, NextHash, Finish, loop
  <1>2. CASE ~DepositOK
    BY <1>1, <1>2, NoSave DEF Deposit, Attempt
  <1>3. CASE DepositOK
    <2>1. UNCHANGED <<owner, bal>>
      BY <1>3 DEF Deposit, Attempt
    <2>2. /\ named \in Id /\ target \in Listing
          /\ listing' \in [Id -> Listing \cup {NoListing}] /\ Only(named)
          /\ listing'[named] \in Listing
          /\ listing'[named] = [target EXCEPT !.depositor = tx.sender,
                                              !.until = me.height + target.timeout + 1]
          /\ receipt' \in [Id -> Receipt]
          /\ \A k \in Id : k # named => receipt'[k] = receipt[k]
          /\ receipt'[named].by = tx.sender /\ receipt'[named].deposit >= target.deposit
      BY <1>3, WriteDeposit DEF SaleInv
    <2>3. /\ listing'[named].item = target.item
          /\ listing'[named].filled = target.filled
          /\ listing'[named].cancelled = target.cancelled
          /\ listing'[named].total = target.total /\ listing'[named].deposit = target.deposit
          /\ listing'[named].depositor = tx.sender
      BY <2>2 DEF Listing
    <2>4. target # NoListing /\ listing'[named] # NoListing
      BY <2>2, SubmissionsAssumption
    <2>5. PICK x \in Id : x = named
      BY <2>2
    <2>6. /\ listing[x] = target /\ listing'[x] = listing'[named] /\ receipt'[x] = receipt'[named]
          /\ \A k \in Id : k # x => listing'[k] = listing[k] /\ receipt'[k] = receipt[k]
      BY <2>2, <2>5 DEF target, Only
    <2>8. TableTypes' /\ Unused' /\ AtListing'
      BY <1>1, <2>1, <2>2, ChangedListing DEF SaleInv, TableTypes
    <2>9. Paid'
      <3> SUFFICES ASSUME NEW k \in Id, listing'[k] # NoListing
                   PROVE  /\ listing'[k].total < Wide
                          /\ listing'[k].depositor # NoAddr =>
                                /\ receipt'[k].by = listing'[k].depositor
                                /\ receipt'[k].deposit >= listing'[k].deposit
        BY DEF Paid
      <3>1. CASE k = x
        <4>1. listing[x] # NoListing /\ listing[x].total < Wide
          BY <2>4, <2>6 DEF Paid
        <4> QED
          BY <2>2, <2>3, <2>6, <3>1, <4>1
      <3>2. CASE k # x
        BY <2>6, <3>2 DEF Paid
      <3> QED
        BY <3>1, <3>2
    <2>10. ASSUME NEW i \in Insc PROVE Same(i)
      <3>1. Live(x)' <=> Live(x)
        BY <2>3, <2>4, <2>6 DEF Live
      <3>2. \A k \in Id : (Live(k)' <=> Live(k)) /\ (Live(k) => listing'[k].item = listing[k].item)
        BY <2>3, <2>6, <3>1 DEF Live
      <3>3. OnSale(i)' = OnSale(i)
        BY <3>2 DEF OnSale
      <3> QED
        BY <1>1, <2>1, <3>3, NothingHanded, NothingHandedNext DEF Same
    <2>11. OnSaleIsEscrowed' /\ InHand' /\ Kept'
      BY <1>1, <2>10, SaleStep DEF SaleInv
    <2> QED
      BY <2>8, <2>9, <2>11 DEF SaleInv
  <1> QED
    BY <1>2, <1>3

\* A purchase, or the withdrawal of a listing: the listing goes off sale, and an
\* inscription that was on sale is in the handler's hand, if it goes on.
LEMMA TakenOff ==
  ASSUME LoopInv, SaleInv, pc = "run", named \in Id, target \in Listing, Only(named),
         listing'[named].filled \/ listing'[named].cancelled,
         (~target.filled /\ ~target.cancelled) \/ target.item \notin Insc,
         UNCHANGED <<owner, stops>>,
         pc' \in {"give", "return"} => target'.item = target.item,
         \/ pc' \in {"give", "return"}
         \/ pc' \in {"idle", "run", "credit"} /\ (target.item \notin Insc \/ stops # 0)
  PROVE  OnSaleIsEscrowed' /\ InHand' /\ Kept'
  <1>1. PICK x \in Id : x = named
    OBVIOUS
  <1>2. listing[x] = target /\ target # NoListing
    BY <1>1, SubmissionsAssumption DEF target
  <1>3. ASSUME NEW i \in Insc PROVE Same(i) \/ Taken(i)
    <2>1. ~Handed(i) /\ OnSale(i)' = OnSale(i) \ {x}
      BY <1>1, NothingHanded, OffSale
    <2>2. CASE target.item = i
      <3>1. x \in OnSale(i)
        BY <1>2, <2>2, MarketplaceAssumption DEF OnSale, Live
      <3>2. owner[i] = Market /\ OnSale(i)' = {}
        BY <2>1, <3>1 DEF SaleInv, OnSaleIsEscrowed
      <3>3. Handed(i)' \/ stops' # 0
        BY <2>2 DEF Handed
      <3> QED
        BY <3>2, <3>3 DEF Taken
    <2>3. CASE target.item # i
      <3>1. x \notin OnSale(i)
        BY <1>2, <2>3 DEF OnSale
      <3>2. ~Handed(i)'
        BY <2>3 DEF Handed
      <3> QED
        BY <2>1, <3>1, <3>2 DEF Same
    <2> QED
      BY <2>2, <2>3
  <1> QED
    BY <1>3, SaleStep DEF SaleInv

LEMMA BuyingSale ==
  ASSUME LoopInv, SaleInv, Paid, BuyCFT20 \/ BuyInscription PROVE SaleInv' /\ Paid'
  <1>1. Handle /\ pc = "run" /\ Busy /\ stops' = stops
    BY HandleMoves DEF Handle, BuyCFT20, BuyInscription, At, Busy
  <1>2. CASE ~Buying
    <2>1. UNCHANGED tables /\ pc' \in {"idle", "run"}
      BY <1>2 DEF Buying, BuyCFT20, BuyInscription, Attempt, NextHash, Finish
    <2> QED
      BY <1>1, <2>1, NoSave
  <1>3. CASE Buying
    <2>1. /\ target # NoListing /\ named \in Id /\ target \in Listing
          /\ tx.sender \in Addr /\ target.depositor = tx.sender
          /\ listing' \in [Id -> Listing \cup {NoListing}] /\ Only(named)
          /\ listing'[named] = [target EXCEPT !.filled = TRUE]
          /\ receipt' \in [Id -> Receipt]
          /\ \A k \in Id : k # named => receipt'[k] = receipt[k]
          /\ UNCHANGED <<owner, bal>>
          /\ receipt'[named].by = receipt[named].by
          /\ receipt'[named].deposit = receipt[named].deposit
      BY <1>3, WriteBuying DEF SaleInv
    <2>2. /\ listing'[named].item = target.item /\ listing'[named].filled
          /\ listing'[named].total = target.total /\ listing'[named].deposit = target.deposit
          /\ listing'[named].depositor = target.depositor
      BY <2>1 DEF Listing
    <2>3. listing'[named] \in Listing
      BY <2>1 DEF Listing
    <2>4. \/ pc' = "credit" /\ target.item = Lot
          \/ pc' = "give" /\ target.item \in Insc /\ ~target.filled /\ ~target.cancelled
      BY <1>3 DEF Buying, BuyCFT20, BuyInscription, BuyCFT20OK, BuyInscriptionOK, Attempt, Goto
    <2>5. /\ TableTypes' /\ Unused' /\ AtListing'
          /\ pc' \in {"credit", "give", "return"} => target' = listing'[named]
      BY <1>1, <2>1, <2>3, <2>4, ChangedListing DEF SaleInv, TableTypes
    <2>6. PICK x \in Id : x = named
      BY <2>1
    <2>7. /\ listing[x] = target /\ listing'[x] = listing'[named]
          /\ \A k \in Id : k # x => listing'[k] = listing[k] /\ receipt'[k] = receipt[k]
          /\ receipt'[x].by = receipt[x].by /\ receipt'[x].deposit = receipt[x].deposit
      BY <2>1, <2>6 DEF target, Only
    <2>8. Paid'
      <3>1. /\ listing[x].total < Wide
            /\ listing[x].depositor # NoAddr =>
                  receipt[x].by = listing[x].depositor /\ receipt[x].deposit >= listing[x].deposit
        BY <2>1, <2>7 DEF Paid
      <3> SUFFICES ASSUME NEW k \in Id, listing'[k] # NoListing
                   PROVE  /\ listing'[k].total < Wide
                          /\ listing'[k].depositor # NoAddr =>
                                /\ receipt'[k].by = listing'[k].depositor
                                /\ receipt'[k].deposit >= listing'[k].deposit
        BY DEF Paid
      <3>2. CASE k = x
        BY <2>2, <2>7, <3>1, <3>2
      <3>3. CASE k # x
        BY <2>7, <3>3 DEF Paid
      <3> QED
        BY <3>2, <3>3
    <2>9. OnSaleIsEscrowed' /\ InHand' /\ Kept'
      BY <1>1, <2>1, <2>2, <2>4, <2>5, TakenOff, MarketplaceAssumption
    <2> QED
      BY <2>5, <2>8, <2>9 DEF SaleInv
  <1> QED
    BY <1>2, <1>3

LEMMA DelistSale == ASSUME LoopInv, SaleInv, Paid, Delist PROVE SaleInv' /\ Paid'
  <1>1. Handle /\ pc = "run" /\ Busy /\ stops' = stops
    BY HandleMoves DEF Handle, Delist, At, Busy
  <1>2. CASE ~DelistOK
    BY <1>1, <1>2, NoSave DEF Delist, Attempt, Finish
  <1>3. CASE DelistOK
    <2>1. /\ named \in Id /\ target \in Listing
          /\ listing' \in [Id -> Listing \cup {NoListing}] /\ Only(named)
          /\ listing'[named] \in Listing
          /\ listing'[named] = [target EXCEPT !.depositor = NoAddr, !.until = 0,
                                              !.cancelled = TRUE]
      BY <1>3, WriteDelist DEF SaleInv
    <2>2. /\ listing'[named].item = target.item /\ listing'[named].cancelled
          /\ listing'[named].total = target.total /\ listing'[named].depositor = NoAddr
      BY <2>1 DEF Listing
    <2>3. ~target.filled /\ ~target.cancelled /\ target # NoListing
      BY <1>3 DEF DelistOK
    <2>4. UNCHANGED <<owner, bal, receipt>> /\ (pc' = "return" \/ (pc' = "idle" /\ stops # 0))
      <3>1. ~fresh => stops # 0
        BY <1>1 DEF LoopInv, Newest
      <3> QED
        BY <1>3, <3>1 DEF Delist, Attempt, Goto, Finish
    <2>5. /\ TableTypes' /\ Unused' /\ AtListing'
          /\ pc' \in {"credit", "give", "return"} => target' = listing'[named]
      BY <1>1, <2>1, <2>4, ChangedListing DEF SaleInv, TableTypes
    <2>6. PICK x \in Id : x = named
      BY <2>1
    <2>7. /\ listing[x] = target /\ listing'[x] = listing'[named]
          /\ \A k \in Id : k # x => listing'[k] = listing[k]
      BY <2>1, <2>6 DEF target, Only
    <2>8. Paid'
      BY <2>2, <2>3, <2>4, <2>7 DEF Paid
    <2>9. OnSaleIsEscrowed' /\ InHand' /\ Kept'
      BY <1>1, <2>1, <2>2, <2>3, <2>4, <2>5, TakenOff
    <2> QED
      BY <2>5, <2>8, <2>9 DEF SaleInv
  <1> QED
    BY <1>2, <1>3

LEMMA SaveCreditSale == ASSUME LoopInv, SaleInv, Paid, SaveCredit PROVE SaleInv' /\ Paid'
  <1>1. /\ Handle /\ pc = "credit" /\ Busy /\ pc' \in {"idle", "run"} /\ stops' = stops
        /\ tx.op \in Naming /\ target # NoListing
        /\ bal' = [bal EXCEPT ![tx.sender] = @ + target.amount]
        /\ UNCHANGED <<owner, listing, receipt>>
    BY DEF Handle, SaveCredit, Busy, NextHash, Finish, loop, Naming, LoopInv, Running,
           SaleInv, AtListing
  <1>2. tx.sender \in Addr /\ target.amount \in Nat
    BY <1>1, AtWork, Target DEF Tx, Listing, SaleInv
  <1>3. bal' \in [Addr -> Nat]
    BY <1>1, <1>2 DEF SaleInv, TableTypes
  <1>4. TableTypes' /\ Unused' /\ AtListing' /\ Paid'
    BY <1>1, <1>3, SameListing DEF SaleInv, TableTypes
  <1>5. \A i \in Insc : Same(i)
    BY <1>1, SameOnSale, NothingHanded, NothingHandedNext DEF Same
  <1>6. OnSaleIsEscrowed' /\ InHand' /\ Kept'
    BY <1>1, <1>5, SaleStep DEF SaleInv
  <1> QED
    BY <1>4, <1>6 DEF SaleInv

LEMMA SaveGiveSale == ASSUME LoopInv, SaleInv, Paid, SaveGive PROVE SaleInv' /\ Paid'
  <1>1. /\ Handle /\ pc = "give" /\ Busy /\ pc' = "idle" /\ stops' = stops
        /\ tx.op \in Naming /\ target # NoListing
        /\ owner' = [owner EXCEPT ![target.item] = tx.sender]
        /\ UNCHANGED <<bal, listing, receipt>>
    BY DEF Handle, SaveGive, Busy, Finish, Naming, LoopInv, Running, SaleInv, AtListing
  <1>2. tx.sender \in Addr
    BY <1>1, AtWork DEF Tx
  <1>3. owner' \in [Insc -> Addr \cup {Market}]
    BY <1>1, <1>2 DEF SaleInv, TableTypes
  <1>4. TableTypes' /\ Unused' /\ AtListing' /\ Paid'
    BY <1>1, <1>3, SameListing DEF SaleInv, TableTypes
  <1>5. ASSUME NEW i \in Insc PROVE Same(i) \/ Given(i)
    <2>1. OnSale(i)' = OnSale(i) /\ ~Handed(i)'
      BY <1>1, SameOnSale, NothingHandedNext
    <2>2. CASE i = target.item
      <3>1. OnSale(i) = {}
        BY <1>1, <2>2 DEF Handed, SaleInv, InHand
      <3>2. owner'[i] # Market
        BY <1>1, <1>2, <2>2, MarketplaceAssumption DEF SaleInv, TableTypes
      <3> QED
        BY <2>1, <3>1, <3>2 DEF Given
    <2>3. CASE i # target.item
      <3>1. ~Handed(i) /\ owner'[i] = owner[i]
        BY <1>1, <2>3 DEF Handed, SaleInv, TableTypes
      <3> QED
        BY <2>1, <3>1 DEF Same
    <2> QED
      BY <2>2, <2>3
  <1>6. OnSaleIsEscrowed' /\ InHand' /\ Kept'
    BY <1>1, <1>5, SaleStep DEF SaleInv
  <1> QED
    BY <1>4, <1>6 DEF SaleInv

LEMMA SaveReturnSale == ASSUME LoopInv, SaleInv, Paid, SaveReturn PROVE SaleInv' /\ Paid'
  <1>1. /\ Handle /\ pc = "return" /\ Busy /\ pc' = "idle" /\ stops' = stops
        /\ tx.op \in Naming /\ target # NoListing /\ UNCHANGED <<listing, receipt>>
    BY DEF Handle, SaveReturn, Busy, Finish, Naming, LoopInv, Running, SaleInv, AtListing
  <1>2. tx.sender \in Addr /\ target.amount \in Nat
    BY <1>1, AtWork, Target DEF Tx, Listing, SaleInv
  <1>3. bal' \in [Addr -> Nat]
    BY <1>2 DEF SaveReturn, SaleInv, TableTypes
  <1>4. owner' \in [Insc -> Addr \cup {Market}]
    BY <1>2 DEF SaveReturn, SaleInv, TableTypes
  <1>5. TableTypes' /\ Unused' /\ AtListing' /\ Paid'
    BY <1>1, <1>3, <1>4, SameListing DEF SaleInv, TableTypes
  <1>6. ASSUME NEW i \in Insc PROVE Same(i) \/ Given(i)
    <2>1. OnSale(i)' = OnSale(i) /\ ~Handed(i)'
      BY <1>1, SameOnSale, NothingHandedNext
    <2>2. CASE i = target.item
      <3>1. OnSale(i) = {}
        BY <1>1, <2>2 DEF Handed, SaleInv, InHand
      <3>2. owner'[i] # Market
        BY <1>2, <2>2, MarketplaceAssumption DEF SaveReturn, SaleInv, TableTypes
      <3> QED
        BY <2>1, <3>1, <3>2 DEF Given
    <2>3. CASE i # target.item
      <3>1. ~Handed(i)
        BY <1>1, <2>3 DEF Handed
      <3>2. owner'[i] = owner[i]
        BY <2>3 DEF SaveReturn, SaleInv, TableTypes
      <3> QED
        BY <2>1, <3>1, <3>2 DEF Same
    <2> QED
      BY <2>2, <2>3
  <1>7. OnSaleIsEscrowed' /\ InHand' /\ Kept'
    BY <1>1, <1>6, SaleStep DEF SaleInv
  <1> QED
    BY <1>5, <1>7 DEF SaleInv
-----------------------------------------------------------------------------
(* The invariant *)

LEMMA InitInv == Init => Inv
  <1> SUFFICES ASSUME Init PROVE Inv
    OBVIOUS
  <1>1. LoopInv
    BY InitLoop
  <1>2. /\ owner \in [Insc -> Addr] /\ bal \in [Addr -> 0 .. 2] /\ pc = "idle"
        /\ listing = [l \in Id |-> NoListing] /\ receipt = [l \in Id |-> NoReceipt]
    BY DEF Init
  <1>3. NoReceipt \in Receipt
    BY DEF NoReceipt, Receipt
  <1>4. TableTypes /\ Unused /\ AtListing /\ Paid
    BY <1>2, <1>3 DEF TableTypes, Unused, AtListing, Paid, Busy
  <1>5. \A i \in Insc : OnSale(i) = {} /\ ~Handed(i) /\ owner[i] # Market
    BY <1>2, MarketplaceAssumption DEF OnSale, Live, Handed
  <1>6. OnSaleIsEscrowed /\ InHand /\ Kept
    BY <1>5 DEF OnSaleIsEscrowed, InHand, Kept
  <1> QED
    BY <1>1, <1>4, <1>6 DEF Inv, SaleInv

\* What the loop does between handlers.
LEMMA BetweenSale ==
  ASSUME LoopInv, SaleInv, Paid, LoopInv', UNCHANGED tables, sent <= sent',
         \/ pc = "idle" /\ pc' \in {"idle", "run"} /\ stops' = stops
         \/ pc' = "idle" /\ stops' # 0,
         Busy' /\ fresh' => me'.id \in Id /\ me'.id > sent
  PROVE  SaleInv' /\ Paid'
  <1>1. UNCHANGED <<owner, bal, listing, receipt>> /\ pc' \in {"idle", "run"}
    BY DEF tables
  <1>2. sent \in Nat /\ sent' \in Nat /\ \A k \in Id : k \in Nat
    BY MarketplaceAssumption DEF LoopInv, LoopTypes, Id
  <1>3. Unused'
    BY <1>1, <1>2 DEF SaleInv, Unused
  <1>4. TableTypes' /\ AtListing' /\ Paid'
    BY <1>1 DEF SaleInv, TableTypes, AtListing, Paid
  <1>5. \A i \in Insc : Same(i)
    BY <1>1, SameOnSale, NothingHanded, NothingHandedNext DEF Same
  <1>6. stops' = 0 => stops = 0
    OBVIOUS
  <1>7. OnSaleIsEscrowed' /\ InHand' /\ Kept'
    BY <1>5, <1>6, SaleStep DEF SaleInv
  <1> QED
    BY <1>3, <1>4, <1>7 DEF SaleInv

\* A transaction comes, whoever prepared it.
LEMMA ArriveInv == ASSUME Inv, NEW t \in Wellformed, Arrive(t) PROVE Inv'
  <1>1. LoopInv /\ LoopInv'
    BY ArriveLoop DEF Inv
  <1>2. /\ UNCHANGED tables /\ sent' = sent + 1 /\ sent < MaxTx
        /\ pc = "idle" /\ pc' = "run" /\ stops' = stops
    BY DEF Arrive
  <1>3. fresh'
    BY DEF Arrive
  <1>4. me'.id = sent' /\ sent \in Nat
    BY <1>1, <1>2, <1>3, MarketplaceAssumption DEF LoopInv, LoopTypes, Newest, Busy
  <1>5. me'.id \in Id /\ me'.id > sent /\ sent <= sent'
    BY <1>2, <1>4, MarketplaceAssumption DEF Id
  <1> QED
    BY <1>1, <1>2, <1>5, BetweenSale DEF Inv

LEMMA NextInv == Inv /\ [Next]_vars => Inv'
  <1> SUFFICES ASSUME LoopInv, SaleInv, Paid, [Next]_vars PROVE Inv'
    BY DEF Inv
  <1>1. LoopInv'
    BY NextLoop
  <1>2. CASE Handle
    BY <1>1, <1>2, ListCFT20Sale, ListInscriptionSale, TransferSale, SaveListingSale,
       SaveDetailSale, DepositSale, BuyingSale, DelistSale, SaveCreditSale, SaveGiveSale,
       SaveReturnSale
       DEF Handle, Inv
  <1>3. CASE Receive
    BY <1>3, ArriveInv, Wellformedness DEF Receive, Inv
  <1>4. CASE Again
    <2>1. UNCHANGED tables /\ sent' = sent /\ pc = "idle" /\ pc' = "run" /\ stops' = stops
      BY <1>4 DEF Again
    <2>2. ~fresh' /\ sent \in Nat
      BY <1>4, MarketplaceAssumption DEF Again, LoopInv, LoopTypes
    <2> QED
      BY <1>1, <2>1, <2>2, BetweenSale DEF Inv
  <1>5. CASE NextBlock
    <2>1. UNCHANGED tables /\ sent' = sent /\ pc = "idle" /\ pc' = "idle" /\ stops' = stops
      BY <1>5 DEF NextBlock
    <2>2. ~Busy' /\ sent \in Nat
      BY <2>1, MarketplaceAssumption DEF Busy, LoopInv, LoopTypes
    <2> QED
      BY <1>1, <2>1, <2>2, BetweenSale DEF Inv
  <1>6. CASE Stop
    <2>1. UNCHANGED tables /\ sent' = sent /\ pc' = "idle" /\ stops' = stops + 1
      BY <1>6 DEF Stop
    <2>2. ~Busy' /\ sent \in Nat /\ stops' # 0
      BY <2>1, MarketplaceAssumption DEF Busy, LoopInv, LoopTypes
    <2> QED
      BY <1>1, <2>1, <2>2, BetweenSale DEF Inv
  <1>7. CASE UNCHANGED vars
    <2>1. /\ UNCHANGED <<owner, bal, listing, receipt>>
          /\ UNCHANGED <<tail, mark, at, sent, height, fresh, stops, pc, pos>>
      BY <1>7 DEF vars, tables, loop
    <2>2. me' = me /\ tx' = tx /\ target' = target
      BY <2>1 DEF me, tx, target, named
    <2>3. TableTypes' /\ Unused' /\ AtListing' /\ Paid'
      BY <2>1, <2>2 DEF SaleInv, TableTypes, Unused, Busy, AtListing, Paid
    <2>4. \A i \in Insc : Same(i)
      BY <2>1, <2>2, SameOnSale DEF Same, Handed
    <2>5. OnSaleIsEscrowed' /\ InHand' /\ Kept'
      BY <2>1, <2>4, SaleStep DEF SaleInv
    <2> QED
      BY <1>1, <2>3, <2>5 DEF Inv, SaleInv
  <1> QED
    BY <1>2, <1>3, <1>4, <1>5, <1>6, <1>7 DEF Next
-----------------------------------------------------------------------------
(* The theorems *)

LEMMA Invariant == Spec => []Inv
  BY InitInv, NextInv, PTL DEF Spec

\* marketplace.go and inscription.go: the rows are well-formed, an inscription on
\* sale is the marketplace's and on sale once, whatever is listed, bought, taken
\* back or run again, and until a stop what the marketplace holds is on sale.
THEOREM MarketplaceInvariant == Spec => []MarketplaceInv
  <1>1. Inv => TypeOK
    BY DEF Inv, LoopInv, LoopTypes, SaleInv, TableTypes, TypeOK
  <1>2. Inv => EscrowIsOnSale
    BY DEF Inv, SaleInv, Kept, EscrowIsOnSale, Handed
  <1>3. Inv => MarketplaceInv
    BY <1>1, <1>2 DEF Inv, SaleInv, MarketplaceInv
  <1> QED
    BY Invariant, <1>3, PTL

\* The listings are only changed by these saves.
LEMMA Writes ==
  ASSUME LoopInv, [Next]_vars
  PROVE  \/ UNCHANGED <<listing, receipt>>
         \/ SaveListing /\ fresh
         \/ SaveDetail
         \/ Deposit /\ DepositOK
         \/ Buying
         \/ Delist /\ DelistOK
  BY DEF Next, vars, tables, Receive, Arrive, Again, NextBlock, Stop, Handle, ListCFT20,
         ListInscription, SaveListing, Deposit, BuyCFT20, SaveCredit, BuyInscription, SaveGive,
         Delist, SaveReturn, Transfer, Attempt, Buying

\* A reservation that runs is not one that a save can end: deposits and
\* withdrawals look at the height of their transaction, which is no later than
\* the chain's, and a new listing has an ID of its own.
LEMMA StepHolds ==
  ASSUME Inv, [Next]_vars, NEW l \in Id, listing[l] # NoListing, Reserved(listing[l], height)
  PROVE  /\ listing'[l].depositor = listing[l].depositor
         /\ listing'[l].cancelled = listing[l].cancelled
        /\ listing'[l].until = listing[l].until
  <1>1. LoopInv /\ SaleInv /\ TableTypes /\ AtListing
    BY DEF Inv, SaleInv
  <1>2. listing[l] \in Listing
    BY <1>1 DEF TableTypes
  <1>3. CASE listing' = listing
    BY <1>3
  <1>4. CASE SaveListing /\ fresh
    <2>1. l # me.id
      BY <1>4 DEF SaveListing, Inv, SaleInv, Unused, Busy
    <2> QED
      BY <1>1, <1>4, <2>1, WriteListing DEF Only
  <1>5. CASE SaveDetail
    <2>1. /\ Only(me.id) /\ listing[me.id] \in Listing
          /\ listing'[me.id] = [listing[me.id] EXCEPT !.item = tx.item,
                                                      !.amount = (tx.amount + 1) \div 2]
      BY <1>1, <1>5, WriteDetail
    <2>2. /\ listing'[me.id].depositor = listing[me.id].depositor
          /\ listing'[me.id].cancelled = listing[me.id].cancelled
          /\ listing'[me.id].until = listing[me.id].until
      BY <2>1 DEF Listing
    <2> QED
      BY <2>1, <2>2 DEF Only
  <1>6. ASSUME pc = "run", named \in Id, target \in Listing, ~Reserved(target, me.height)
        PROVE  l # named
    <2>1. me.height \in Nat /\ height \in Nat /\ me.height <= height
      BY <1>1, <1>6, AtWork DEF Busy
    <2>2. target.until \in Nat /\ listing[l].until \in Nat
      BY <1>2, <1>6 DEF Listing
    <2> QED
      BY <1>6, <2>1, <2>2 DEF target, Reserved
  <1>7. CASE Deposit /\ DepositOK
    <2>1. named \in Id /\ target \in Listing /\ Only(named)
      BY <1>1, <1>7, WriteDeposit
    <2>2. l # named
      BY <1>6, <1>7, <2>1 DEF Deposit, At, DepositOK
    <2> QED
      BY <2>1, <2>2 DEF Only
  <1>8. CASE Buying
    <2>1. /\ target \in Listing /\ Only(named)
          /\ listing'[named] = [target EXCEPT !.filled = TRUE]
      BY <1>1, <1>8, WriteBuying
    <2>2. /\ listing'[named].depositor = target.depositor
          /\ listing'[named].cancelled = target.cancelled
          /\ listing'[named].until = target.until
      BY <2>1 DEF Listing
    <2> QED
      BY <2>1, <2>2 DEF Only, target
  <1>9. CASE Delist /\ DelistOK
    <2>1. named \in Id /\ target \in Listing /\ Only(named)
      BY <1>1, <1>9, WriteDelist
    <2>2. l # named
      BY <1>6, <1>9, <2>1 DEF Delist, At, DelistOK
    <2> QED
      BY <2>1, <2>2 DEF Only
  <1> QED
    BY <1>1, <1>3, <1>4, <1>5, <1>7, <1>8, <1>9, Writes

\* marketplace.go, Deposit and Delist: while a reservation runs nobody else gets
\* the listing and the seller cannot withdraw it, blocks that are run again
\* included.
THEOREM ReservationsHold == Spec => ReservationHeld
  <1>1. Inv /\ [Next]_vars =>
          [\A l \in Id :
             listing[l] # NoListing /\ Reserved(listing[l], height) =>
                 /\ listing'[l].depositor = listing[l].depositor
                 /\ listing'[l].cancelled = listing[l].cancelled]_vars
    BY StepHolds
  <1> QED
    BY Invariant, <1>1, PTL DEF Spec, ReservationHeld

\* Only a purchase fills a listing.
LEMMA StepBuys ==
  ASSUME Inv, [Next]_vars, NEW l \in Id, listing[l] # NoListing,
         ~listing[l].filled, listing'[l].filled
  PROVE  Buying /\ l = named
  <1>1. LoopInv /\ TableTypes /\ AtListing
    BY DEF Inv, SaleInv
  <1>2. CASE SaveListing /\ fresh
    BY <1>1, <1>2, WriteListing DEF Only
  <1>3. CASE SaveDetail
    <2>1. /\ Only(me.id) /\ listing[me.id] \in Listing
          /\ listing'[me.id] = [listing[me.id] EXCEPT !.item = tx.item,
                                                      !.amount = (tx.amount + 1) \div 2]
      BY <1>1, <1>3, WriteDetail
    <2>2. listing'[me.id].filled = listing[me.id].filled
      BY <2>1 DEF Listing
    <2> QED
      BY <2>1, <2>2 DEF Only
  <1>4. CASE Deposit /\ DepositOK
    <2>1. /\ target \in Listing /\ Only(named)
          /\ listing'[named] = [target EXCEPT !.depositor = tx.sender,
                                              !.until = me.height + target.timeout + 1]
      BY <1>1, <1>4, WriteDeposit
    <2>2. listing'[named].filled = target.filled
      BY <2>1 DEF Listing
    <2> QED
      BY <2>1, <2>2 DEF Only, target
  <1>5. CASE Delist /\ DelistOK
    <2>1. /\ target \in Listing /\ Only(named)
          /\ listing'[named] = [target EXCEPT !.depositor = NoAddr, !.until = 0,
                                              !.cancelled = TRUE]
      BY <1>1, <1>5, WriteDelist
    <2>2. listing'[named].filled = target.filled
      BY <2>1 DEF Listing
    <2> QED
      BY <2>1, <2>2 DEF Only, target
  <1>6. CASE Buying
    BY <1>1, <1>6, WriteBuying DEF Only
  <1> QED
    BY <1>1, <1>2, <1>3, <1>4, <1>5, <1>6, Writes

LEMMA StepIsPaid ==
  ASSUME Inv, [Next]_vars, NEW l \in Id, listing[l] # NoListing,
         ~listing[l].filled, listing'[l].filled, listing[l].deposit <= listing[l].total
  PROVE  /\ receipt'[l].buyer = receipt'[l].by
         /\ receipt'[l].deposit + receipt'[l].rest >= listing[l].total
  <1>1. LoopInv /\ TableTypes /\ Paid
    BY DEF Inv, SaleInv
  <1>2. Buying /\ l = named
    BY StepBuys
  <1>3. /\ named \in Id /\ target \in Listing /\ Only(named) /\ target # NoListing
        /\ tx.sender \in Addr /\ target.depositor = tx.sender
        /\ receipt' \in [Id -> Receipt] /\ receipt'[named].buyer = tx.sender
        /\ receipt'[named].by = receipt[named].by
        /\ receipt'[named].deposit = receipt[named].deposit
        /\ target.total < Wide /\ target.deposit <= target.total =>
              receipt'[named].rest + target.deposit >= target.total
    BY <1>1, <1>2, WriteBuying
  <1>4. listing[l] = target
    BY <1>2 DEF target
  <1>5. /\ target.total < Wide /\ receipt[l].by = target.depositor
        /\ receipt[l].deposit >= target.deposit
    BY <1>1, <1>3, <1>4, MarketplaceAssumption DEF Paid
  <1>6. /\ receipt[l].deposit \in Nat /\ target.deposit \in Nat /\ target.total \in Nat
        /\ receipt'[l].rest \in Nat /\ receipt'[l].deposit = receipt[l].deposit
    BY <1>1, <1>2, <1>3 DEF TableTypes, Receipt, Listing
  <1>7. receipt'[l].rest + target.deposit >= target.total
    BY <1>2, <1>3, <1>4, <1>5
  <1> QED
    BY <1>2, <1>3, <1>4, <1>5, <1>6, <1>7

\* marketplace.go, buy: the buyer of a listing is the one who reserved it last,
\* and its deposit, the rest and the royalty add up to the price, unsigned
\* subtractions that wrap around included.
THEOREM FillsPaid == Spec => FillsArePaid
  <1>1. Inv /\ [Next]_vars =>
          [\A l \in Id :
             /\ listing[l] # NoListing
             /\ ~listing[l].filled /\ listing'[l].filled
             /\ listing[l].deposit <= listing[l].total
             => /\ receipt'[l].buyer = receipt'[l].by
                /\ receipt'[l].deposit + receipt'[l].rest >= listing[l].total]_vars
    BY StepIsPaid
  <1> QED
    BY Invariant, <1>1, PTL DEF Spec, FillsArePaid
-----------------------------------------------------------------------------
(* Module Trade: what the SDK prepares                                     *)
(*                                                                         *)
(* A transaction of the SDK is right about listings that change after it   *)
(* was prepared because what it is right about does not change: who sells, *)
(* the item and the amounts once they are saved, and a reservation while   *)
(* it runs.                                                                *)

Trades == {"deposit", "buy.cft20", "buy.inscription"}

Named(t) == InList(t.hashes)

\* The payments of a transaction are those of the listings it names.
PaysNamed(t) ==
    IF t.op = "buy.inscription"
    THEN /\ \A l \in Named(t) : listing[l].item \in Insc /\ t.sent = Messages(t.op, listing[l])
         /\ Named(t) = {} => t.sent = [x \in Addr |-> NoSend]
    ELSE /\ SellersDiffer(Named(t)) =>
              \A l \in Named(t) : t.sent[listing[l].seller] = Price(t.op, listing[l])
         /\ \A a \in Addr : t.sent[a] # NoSend => \E l \in Named(t) : listing[l].seller = a

Sends(t) ==
    /\ t.op \in Trades /\ t.fee
    /\ \A l \in Named(t) : listing[l] # NoListing /\ Price(t.op, listing[l]) > 0
    /\ t.op = "buy.cft20" => \A l \in Named(t) : listing[l].item = Lot
    /\ PaysNamed(t)

\* The reservations that a purchase was prepared for still run, or are over.
Promised(t, until) ==
    \A l \in Id : until[l] > height =>
        /\ listing[l] # NoListing /\ ~listing[l].cancelled
        /\ listing[l].depositor = t.sender /\ listing[l].until = until[l]

Picked(ls) == \E b \in Baskets : ls \subseteq InList(b)

Cart == [tx: Tx, left: Seq(Id), known: Int, until: [Id -> Nat]]

CartOK(p) ==
    /\ p \in Cart /\ p.tx.total = 0
    /\ Sends(p.tx) /\ Promised(p.tx, p.until) /\ Picked(Named(p.tx) \cup InList(p.left))
    /\ p.tx.op = "buy.cft20" => Offers(p.left, {Lot})
    /\ p.tx.op = "buy.inscription" =>
          Offers(p.left, Insc) /\ Len(p.left) <= 1 /\ (p.left # <<>> => p.tx.hashes = <<>>)

FromSDK(e) == promise[e.id] # None \/ (OnlySDK /\ e.tx.op \in Trades)

Received == {tail[n] : n \in 1 .. Len(tail)}

\* What was received of the SDK is still right when it is processed.
EntryOK(e) ==
    /\ e.id <= sent
    /\ Promised(e.tx, promise[e.id])
    /\ FromSDK(e) => Sends(e.tx) /\ Picked(Named(e.tx))

\* With the SDK the deposit paid is the deposit asked.
Exact ==
    OnlySDK /\ (\A b \in Baskets : SellersDiffer(InList(b))) =>
        \A l \in Id : listing[l] # NoListing /\ listing[l].depositor # NoAddr =>
            receipt[l].deposit = listing[l].deposit

TradeInv ==
    /\ Inv
    /\ promise \in [Id -> [Id -> Nat]]
    /\ \A k \in Id : k > sent => promise[k] = None
    /\ \A p \in prepared : CartOK(p)
    /\ \A e \in Received : EntryOK(e)
    /\ Exact
-----------------------------------------------------------------------------
(* Lists *)

LEMMA InListIds == ASSUME NEW s \in Seq(Id) PROVE InList(s) \subseteq Id
  BY LenProperties, ElementOfSeq DEF InList

LEMMA InListEmpty == InList(<<>>) = {}
  BY EmptySeq DEF InList

LEMMA InListAppend ==
  ASSUME NEW s \in Seq(Id), NEW l \in Id
  PROVE  InList(Append(s, l)) = InList(s) \cup {l}
  <1>1. /\ Append(s, l) \in Seq(Id) /\ Len(Append(s, l)) = Len(s) + 1
        /\ \A i \in 1 .. Len(s) : Append(s, l)[i] = s[i]
        /\ Append(s, l)[Len(s) + 1] = l
    BY AppendProperties
  <1>2. Len(s) \in Nat /\ DOMAIN s = 1 .. Len(s) /\ DOMAIN Append(s, l) = 1 .. Len(s) + 1
    BY <1>1, LenProperties
  <1> DEFINE t == Append(s, l)
  <1>3. /\ Len(s) + 1 \in 1 .. Len(s) + 1 /\ \A i \in 1 .. Len(s) : i \in 1 .. Len(s) + 1
        /\ \A i \in 1 .. Len(s) + 1 : i \in 1 .. Len(s) \/ i = Len(s) + 1
    BY <1>2
  <1>4. \A i \in 1 .. Len(s) : t[i] = s[i]
    BY <1>1
  <1>5. t[Len(s) + 1] = l /\ DOMAIN t = 1 .. Len(s) + 1
    BY <1>1, <1>2
  <1> HIDE DEF t
  <1>6. InList(t) = InList(s) \cup {l}
    BY <1>2, <1>3, <1>4, <1>5 DEF InList
  <1> QED
    BY <1>6 DEF t

LEMMA InListTail ==
  ASSUME NEW s \in Seq(Id), s # <<>>
  PROVE  /\ Head(s) \in Id /\ Head(s) \in InList(s)
         /\ Tail(s) \in Seq(Id) /\ Len(Tail(s)) = Len(s) - 1
         /\ InList(Tail(s)) \subseteq InList(s)
  <1>1. /\ Head(s) \in Id /\ Tail(s) \in Seq(Id) /\ Len(Tail(s)) = Len(s) - 1
        /\ \A i \in 1 .. Len(Tail(s)) : Tail(s)[i] = s[i + 1]
    BY HeadTailProperties
  <1>2. Len(s) \in Nat \ {0} /\ DOMAIN s = 1 .. Len(s) /\ DOMAIN Tail(s) = 1 .. Len(s) - 1
    BY <1>1, EmptySeq, LenProperties
  <1>3. Head(s) = s[1]
    OBVIOUS
  <1>4. \A i \in 1 .. Len(s) - 1 : i + 1 \in 1 .. Len(s) /\ Tail(s)[i] = s[i + 1]
    BY <1>1, <1>2
  <1>5. 1 \in 1 .. Len(s)
    BY <1>2
  <1> QED
    BY <1>1, <1>2, <1>3, <1>4, <1>5 DEF InList
-----------------------------------------------------------------------------
(* Amounts *)

\* What is rounded is no less than what is cut off.
LEMMA RoundedUp ==
  ASSUME NEW x \in Nat, NEW d \in Nat \ {0}
  PROVE  /\ (2 * x + d) \div (2 * d) \in Nat
         /\ (2 * x + d) \div (2 * d) >= x \div d
  <1> DEFINE q == x \div d
             e == 2 * d
             y == 2 * x + d
  <1>1. q \in Nat /\ q * d <= x
    OBVIOUS
  <1>2. e \in Nat \ {0} /\ y \in Nat
    OBVIOUS
  <1>3. q * e = 2 * (q * d)
    BY <1>1
  <1>4. q * e <= y
    BY <1>1, <1>2, <1>3
  <1> HIDE DEF q, e, y
  <1>5. y \div e \in Nat /\ y \div e >= q
    <2>1. \A a \in Nat, b \in Nat \ {0}, c \in Nat : c * b <= a => a \div b >= c /\ a \div b \in Nat
      OBVIOUS
    <2> QED
      BY <1>1, <1>2, <1>4, <2>1
  <1> QED
    BY <1>5 DEF q, e, y

LEMMA Amounts ==
  ASSUME NEW l \in Listing
  PROVE  /\ Rest(l) \in Nat /\ SDKRoyalty(l) \in Nat /\ Royalty(l) \in Nat
         /\ SDKRoyalty(l) >= Royalty(l)
         /\ \A o : Price(o, l) \in Int
  <1>1. l.total \in Nat /\ l.deposit \in Nat /\ Royalty(l) \in Nat
    BY RoyaltyIsNat DEF Listing
  <1>2. Rest(l) \in Nat
    BY <1>1 DEF Rest
  <1> DEFINE x == l.total * RoyaltyNum
  <1>3. x \in Nat /\ RoyaltyDen \in Nat \ {0}
    BY <1>1, MarketplaceAssumption
  <1>4. 2 * l.total * RoyaltyNum = 2 * x
    BY <1>1, MarketplaceAssumption
  <1>5. Royalty(l) = x \div RoyaltyDen \/ Royalty(l) = 0
    BY DEF Royalty
  <1>6. SDKRoyalty(l) = (2 * x + RoyaltyDen) \div (2 * RoyaltyDen)
    BY <1>4 DEF SDKRoyalty
  <1> HIDE DEF x
  <1>7. SDKRoyalty(l) \in Nat /\ SDKRoyalty(l) >= Royalty(l)
    <2>1. /\ (2 * x + RoyaltyDen) \div (2 * RoyaltyDen) \in Nat
          /\ (2 * x + RoyaltyDen) \div (2 * RoyaltyDen) >= x \div RoyaltyDen
      BY <1>3, RoundedUp
    <2> DEFINE up == (2 * x + RoyaltyDen) \div (2 * RoyaltyDen)
               off == x \div RoyaltyDen
    <2>2. up \in Nat /\ up >= off /\ SDKRoyalty(l) = up /\ (Royalty(l) = off \/ Royalty(l) = 0)
      BY <1>5, <1>6, <2>1
    <2> HIDE DEF up, off
    <2> QED
      BY <2>2
  <1>8. \A o : Price(o, l) \in Int
    BY <1>1, <1>2, <1>7 DEF Price
  <1> QED
    BY <1>1, <1>2, <1>7, <1>8

\* An amount depends on the seller, the total, the deposit and the item.
LEMMA SameReckoning ==
  ASSUME NEW x \in Listing, NEW y \in Listing, NEW o,
         y.seller = x.seller, y.total = x.total, y.deposit = x.deposit,
         o = "deposit" \/ y.item = x.item
  PROVE  Price(o, y) = Price(o, x) /\ Messages(o, y) = Messages(o, x)
  <1>1. o # "deposit" => (PaysRoyalty(y) <=> PaysRoyalty(x))
    BY DEF PaysRoyalty, OwesRoyalty, Rest
  <1>2. Rest(y) = Rest(x) /\ SDKRoyalty(y) = SDKRoyalty(x)
    BY DEF Rest, SDKRoyalty
  <1>3. Price(o, y) = Price(o, x)
    BY <1>1, <1>2 DEF Price
  <1> QED
    BY <1>1, <1>2, <1>3 DEF Messages
-----------------------------------------------------------------------------
(* What lasts *)

\* A saved row keeps its seller and its amounts, and its item once it has one.
Lasting ==
    \A l \in Id : listing[l] # NoListing =>
        /\ listing'[l] # NoListing
        /\ listing'[l].seller = listing[l].seller
        /\ listing'[l].total = listing[l].total
        /\ listing'[l].deposit = listing[l].deposit
        /\ listing[l].item # NoItem => listing'[l].item = listing[l].item

\* A reservation that runs stays.
Holding ==
    \A l \in Id : listing[l] # NoListing /\ Reserved(listing[l], height) =>
        /\ listing'[l].depositor = listing[l].depositor
        /\ listing'[l].cancelled = listing[l].cancelled
        /\ listing'[l].until = listing[l].until

LEMMA StepLasts == ASSUME Inv, [Next]_vars PROVE Lasting
  <1> SUFFICES ASSUME NEW l \in Id, listing[l] # NoListing
               PROVE  /\ listing'[l] # NoListing
                      /\ listing'[l].seller = listing[l].seller
                      /\ listing'[l].total = listing[l].total
                      /\ listing'[l].deposit = listing[l].deposit
                      /\ listing[l].item # NoItem => listing'[l].item = listing[l].item
    BY DEF Lasting
  <1>1. LoopInv /\ SaleInv /\ TableTypes /\ AtListing
    BY DEF Inv, SaleInv
  <1>2. listing[l] \in Listing
    BY <1>1 DEF TableTypes
  <1>3. CASE listing' = listing
    BY <1>3
  <1>4. CASE SaveListing /\ fresh
    <2>1. l # me.id
      BY <1>4 DEF SaveListing, Inv, SaleInv, Unused, Busy
    <2> QED
      BY <1>1, <1>4, <2>1, WriteListing DEF Only
  <1>5. CASE SaveDetail
    <2>1. /\ Only(me.id) /\ listing[me.id] \in Listing /\ listing'[me.id] \in Listing
          /\ listing'[me.id] = [listing[me.id] EXCEPT !.item = tx.item,
                                                      !.amount = (tx.amount + 1) \div 2]
      BY <1>1, <1>5, WriteDetail
    <2>2. /\ listing'[me.id].seller = listing[me.id].seller
          /\ listing'[me.id].total = listing[me.id].total
          /\ listing'[me.id].deposit = listing[me.id].deposit
      BY <2>1 DEF Listing
    <2>5. pc = "detail"
      BY <1>5 DEF SaveDetail
    <2>6. listing[me.id].item = NoItem
      BY <1>1, <2>5 DEF AtListing
    <2>3. CASE l = me.id
      BY <2>1, <2>2, <2>3, <2>6, SubmissionsAssumption
    <2>4. CASE l # me.id
      BY <2>1, <2>4 DEF Only
    <2> QED
      BY <2>3, <2>4
  <1>6. ASSUME named \in Id, target \in Listing, Only(named), listing'[named] \in Listing,
               \/ listing'[named] = [target EXCEPT !.depositor = tx.sender,
                                                   !.until = me.height + target.timeout + 1]
               \/ listing'[named] = [target EXCEPT !.filled = TRUE]
               \/ listing'[named] = [target EXCEPT !.depositor = NoAddr, !.until = 0,
                                                   !.cancelled = TRUE]
        PROVE  /\ listing'[l] # NoListing
               /\ listing'[l].seller = listing[l].seller
               /\ listing'[l].total = listing[l].total
               /\ listing'[l].deposit = listing[l].deposit
               /\ listing[l].item # NoItem => listing'[l].item = listing[l].item
    <2>1. /\ listing'[named].seller = target.seller /\ listing'[named].total = target.total
          /\ listing'[named].deposit = target.deposit /\ listing'[named].item = target.item
      BY <1>6 DEF Listing
    <2> QED
      BY <1>6, <2>1, SubmissionsAssumption DEF Only, target
  <1>7. CASE Deposit /\ DepositOK
    BY <1>1, <1>6, <1>7, WriteDeposit
  <1>8. CASE Buying
    BY <1>1, <1>6, <1>8, WriteBuying
  <1>9. CASE Delist /\ DelistOK
    BY <1>1, <1>6, <1>9, WriteDelist
  <1> QED
    BY <1>1, <1>3, <1>4, <1>5, <1>7, <1>8, <1>9, Writes

LEMMA HeightRises == ASSUME Inv, [Next]_vars PROVE height \in Nat /\ height' \in Nat /\ height <= height'
  <1>1. height \in 1 .. MaxHeight
    BY DEF Inv, LoopInv, LoopTypes
  <1>2. height \in Nat
    BY <1>1, MarketplaceAssumption
  <1>3. height' = height \/ height' = height + 1
    <2>1. Handle => height' = height
      BY HandleMoves DEF Inv
    <2> QED
      BY <2>1 DEF Next, Receive, Arrive, Again, NextBlock, Stop, vars, loop
  <1> QED
    BY <1>2, <1>3

\* Sellers that differ after a step differed before it.
LEMMA DifferedBefore ==
  ASSUME Lasting, NEW S \in SUBSET Id, SellersDiffer(S)'
  PROVE  SellersDiffer(S)
  BY DEF SellersDiffer, Lasting

\* What a transaction pays stays right.
LEMMA SendsLast ==
  ASSUME TableTypes, TableTypes', Lasting, NEW t \in Tx, Sends(t)
  PROVE  Sends(t)'
  <1> DEFINE N == Named(t)
  <1>1. N \subseteq Id
    BY InListIds DEF Tx, Named
  <1>2. t.op \in Trades /\ t.fee /\ N = Named(t)
    BY DEF Sends
  <1>3. ASSUME NEW l \in N
        PROVE  /\ listing[l] # NoListing /\ listing'[l] # NoListing
               /\ Price(t.op, listing[l]) > 0
               /\ t.op = "buy.cft20" => listing[l].item = Lot
               /\ t.op = "buy.inscription" => listing[l].item \in Insc
    BY <1>1, <1>3 DEF Sends, PaysNamed, Lasting
  <1>4. ASSUME NEW l \in N
        PROVE  /\ Price(t.op, listing'[l]) = Price(t.op, listing[l])
               /\ Messages(t.op, listing'[l]) = Messages(t.op, listing[l])
               /\ listing'[l].seller = listing[l].seller
               /\ t.op # "deposit" => listing'[l].item = listing[l].item
    <2>1. l \in Id /\ listing[l] \in Listing /\ listing'[l] \in Listing
      BY <1>1, <1>3, <1>4 DEF TableTypes
    <2>2. t.op # "deposit" => listing[l].item # NoItem
      BY <1>2, <1>3, <1>4, MarketplaceAssumption DEF Trades
    <2>3. /\ listing'[l].seller = listing[l].seller /\ listing'[l].total = listing[l].total
          /\ listing'[l].deposit = listing[l].deposit
          /\ t.op = "deposit" \/ listing'[l].item = listing[l].item
      BY <1>3, <1>4, <2>1, <2>2 DEF Lasting
    <2> QED
      BY <2>1, <2>3, SameReckoning
  <1>5. SellersDiffer(N)' => SellersDiffer(N)
    BY <1>1, DifferedBefore
  <1> HIDE DEF N
  <1>6. PaysNamed(t)'
    BY <1>2, <1>3, <1>4, <1>5 DEF Sends, PaysNamed
  <1> QED
    BY <1>2, <1>3, <1>4, <1>6 DEF Sends

LEMMA PromisedLasts ==
  ASSUME Lasting, Holding, height \in Nat, height' \in Nat, height <= height',
         NEW t \in Tx, NEW until \in [Id -> Nat], Promised(t, until)
  PROVE  Promised(t, until)'
  <1> SUFFICES ASSUME NEW l \in Id, until[l] > height'
               PROVE  /\ listing'[l] # NoListing /\ ~listing'[l].cancelled
                      /\ listing'[l].depositor = t.sender /\ listing'[l].until = until[l]
    BY DEF Promised
  <1>1. until[l] \in Nat /\ until[l] > height
    OBVIOUS
  <1>2. /\ listing[l] # NoListing /\ ~listing[l].cancelled
        /\ listing[l].depositor = t.sender /\ listing[l].until = until[l]
    BY <1>1 DEF Promised
  <1>3. Reserved(listing[l], height)
    BY <1>1, <1>2, MarketplaceAssumption DEF Reserved, Tx
  <1> QED
    BY <1>2, <1>3 DEF Lasting, Holding

LEMMA OffersLast ==
  ASSUME Lasting, NEW s \in Seq(Id), NEW items, NoItem \notin items, Offers(s, items)
  PROVE  Offers(s, items)'
  <1>1. \A n \in DOMAIN s : s[n] \in Id
    BY LenProperties, ElementOfSeq
  <1> QED
    BY <1>1 DEF Offers, Lasting

LEMMA OffersTail ==
  ASSUME NEW s \in Seq(Id), s # <<>>, NEW items, Offers(s, items)
  PROVE  Offers(Tail(s), items)
  <1>1. /\ Tail(s) \in Seq(Id) /\ Len(Tail(s)) = Len(s) - 1
        /\ \A i \in 1 .. Len(Tail(s)) : Tail(s)[i] = s[i + 1]
    BY HeadTailProperties
  <1>2. Len(s) \in Nat /\ DOMAIN s = 1 .. Len(s) /\ DOMAIN Tail(s) = 1 .. Len(s) - 1
    BY <1>1, LenProperties
  <1>3. \A i \in 1 .. Len(s) - 1 : i + 1 \in 1 .. Len(s) /\ Tail(s)[i] = s[i + 1]
    BY <1>1, <1>2
  <1> QED
    BY <1>2, <1>3 DEF Offers

LEMMA CartLasts ==
  ASSUME TableTypes, TableTypes', Lasting, Holding,
         height \in Nat, height' \in Nat, height <= height', NEW p, CartOK(p)
  PROVE  CartOK(p)'
  <1>1. p \in Cart /\ p.tx.total = 0 /\ Picked(Named(p.tx) \cup InList(p.left))
    BY DEF CartOK
  <1>2. p.tx \in Tx /\ p.left \in Seq(Id) /\ p.until \in [Id -> Nat]
    BY <1>1 DEF Cart
  <1>3. Sends(p.tx)' /\ Promised(p.tx, p.until)'
    BY <1>2, SendsLast, PromisedLasts DEF CartOK
  <1>4. NoItem \notin {Lot} /\ NoItem \notin Insc
    BY MarketplaceAssumption
  <1>5. /\ p.tx.op = "buy.cft20" => Offers(p.left, {Lot})'
        /\ p.tx.op = "buy.inscription" => Offers(p.left, Insc)'
    BY <1>2, <1>4, OffersLast DEF CartOK
  <1> QED
    BY <1>1, <1>3, <1>5 DEF CartOK

LEMMA EntryLasts ==
  ASSUME TableTypes, TableTypes', Lasting, Holding,
         height \in Nat, height' \in Nat, height <= height',
         sent \in Nat, sent' \in Nat, sent <= sent', promise \in [Id -> [Id -> Nat]],
         NEW e \in Entry, EntryOK(e), promise'[e.id] = promise[e.id]
  PROVE  EntryOK(e)'
  <1>1. e.id \in Id /\ e.tx \in Tx /\ promise[e.id] \in [Id -> Nat]
    BY Wellformedness DEF Entry
  <1>2. e.id <= sent'
    BY <1>1 DEF EntryOK, Id
  <1>3. Promised(e.tx, promise[e.id])'
    <2>1. Promised(e.tx, promise[e.id])
      BY DEF EntryOK
    <2> DEFINE until == promise[e.id]
    <2>2. until \in [Id -> Nat] /\ promise'[e.id] = until
      BY <1>1
    <2>3. Promised(e.tx, until)
      BY <2>1
    <2> HIDE DEF until
    <2>4. \A l \in Id : until[l] > height' =>
              /\ listing'[l] # NoListing /\ ~listing'[l].cancelled
              /\ listing'[l].depositor = e.tx.sender /\ listing'[l].until = until[l]
      <3> SUFFICES ASSUME NEW l \in Id, until[l] > height'
                   PROVE  /\ listing'[l] # NoListing /\ ~listing'[l].cancelled
                          /\ listing'[l].depositor = e.tx.sender /\ listing'[l].until = until[l]
        OBVIOUS
      <3>1. until[l] \in Nat /\ until[l] > height
        BY <2>2
      <3>2. /\ listing[l] # NoListing /\ ~listing[l].cancelled
            /\ listing[l].depositor = e.tx.sender /\ listing[l].until = until[l]
        BY <2>3, <3>1 DEF Promised
      <3>3. Reserved(listing[l], height)
        BY <1>1, <3>1, <3>2, MarketplaceAssumption DEF Reserved, Tx
      <3> QED
        BY <3>2, <3>3 DEF Lasting, Holding
    <2> QED
      BY <2>2, <2>4 DEF Promised
  <1>4. FromSDK(e)' => FromSDK(e)
    BY DEF FromSDK
  <1>5. FromSDK(e) => Sends(e.tx)' /\ Picked(Named(e.tx))
    BY <1>1, SendsLast DEF EntryOK
  <1> QED
    BY <1>2, <1>3, <1>4, <1>5 DEF EntryOK
-----------------------------------------------------------------------------
(* Preparing *)

LEMMA BeginCart ==
  ASSUME TradeInv, NEW a \in Buyer, NEW basket \in Baskets, NEW known \in Known, NEW o \in Trades,
         o = "buy.cft20" => Offers(basket, {Lot}),
         o = "buy.inscription" => Offers(basket, Insc) /\ Len(basket) = 1
  PROVE  CartOK([tx |-> Operation(o, a), left |-> basket, known |-> known, until |-> None])
  <1> DEFINE t == Operation(o, a)
             p == [tx |-> t, left |-> basket, known |-> known, until |-> None]
  <1>1. basket \in Seq(Id) /\ a \in Addr
    BY TradeAssumption
  <1>2. /\ t \in Tx /\ t.op = o /\ t.sender = a /\ t.total = 0 /\ t.fee /\ t.hashes = <<>>
        /\ t.sent = [x \in Addr |-> NoSend]
    <2>1. <<>> \in Seq(Id) /\ o \in Ops
      BY EmptySeq DEF Trades, Ops
    <2>2. [x \in Addr |-> NoSend] \in [Addr -> Nat \cup {NoSend}]
      OBVIOUS
    <2> HIDE DEF NoSend
    <2> QED
      BY <1>1, <2>1, <2>2 DEF Operation, Tx
  <1>3. Named(t) = {}
    BY <1>2, InListEmpty DEF Named
  <1>4. known \in Int /\ height \in Nat
    BY MarketplaceAssumption DEF Known, TradeInv, Inv, LoopInv, LoopTypes
  <1>5. None \in [Id -> Nat] /\ \A l \in Id : None[l] = 0
    BY DEF None
  <1> HIDE DEF t
  <1>6. Sends(t)
    BY <1>2, <1>3 DEF Sends, PaysNamed
  <1>7. Promised(t, None)
    BY <1>4, <1>5 DEF Promised
  <1>8. p \in Cart
    BY <1>1, <1>2, <1>4, <1>5 DEF Cart
  <1>9. Picked(Named(t) \cup InList(basket))
    BY <1>3 DEF Picked
  <1>10. p.tx = t /\ p.left = basket /\ p.until = None
    OBVIOUS
  <1> HIDE DEF p
  <1>11. Len(basket) = 1 => Len(basket) <= 1
    OBVIOUS
  <1>12. CartOK(p)
    BY <1>2, <1>6, <1>7, <1>8, <1>9, <1>10, <1>11 DEF CartOK
  <1> QED
    BY <1>12 DEF p, t

\* A listing that is looked up: its payment joins those of the others.
LEMMA TakePays ==
  ASSUME TradeInv, NEW p \in prepared, p.left # <<>>, NEW l \in Id, l = Head(p.left),
         ListingOK(p, l), Price(p.tx.op, listing[l]) > 0,
         NEW t, t = Adding(p.tx, l)
  PROVE  /\ t \in Tx /\ t.op = p.tx.op /\ t.sender = p.tx.sender /\ t.total = 0
         /\ Named(t) = Named(p.tx) \cup {l} /\ Sends(t)
  <1> DEFINE o == p.tx.op
             old == p.tx.sent
             more == Messages(o, listing[l])
  <1>1. /\ p \in Cart /\ CartOK(p) /\ p.tx \in Tx /\ p.left \in Seq(Id) /\ Sends(p.tx)
        /\ p.tx.total = 0
    BY DEF TradeInv, CartOK, Cart
  <1>2. listing[l] # NoListing /\ listing[l] \in Listing
    BY DEF ListingOK, DepositListingOK, GetListingOK, OnOffer, TradeInv, Inv, SaleInv, TableTypes
  <1>3. /\ old \in [Addr -> Nat \cup {NoSend}] /\ p.tx.hashes \in Seq(Id) /\ o \in Trades
        /\ p.tx.fee
    BY <1>1 DEF Tx, Sends
  <1>4. more \in [Addr -> Nat \cup {NoSend}]
    <2>1. SDKRoyalty(listing[l]) \in Nat /\ Price(o, listing[l]) \in Nat
      BY <1>2, Amounts
    <2> HIDE DEF NoSend
    <2> QED
      BY <2>1 DEF Messages
  <1>5. Join(old, more) \in [Addr -> Nat \cup {NoSend}]
    BY <1>3, <1>4 DEF Join
  <1>6. Append(p.tx.hashes, l) \in Seq(Id)
    BY <1>3, AppendProperties
  <1>7. /\ t \in Tx /\ t.op = o /\ t.sender = p.tx.sender /\ t.total = 0 /\ t.fee
        /\ t.hashes = Append(p.tx.hashes, l) /\ t.sent = Join(old, more)
    <2> HIDE DEF NoSend
    <2> QED
      BY <1>1, <1>3, <1>5, <1>6 DEF Adding, Tx
  <1>8. Named(t) = Named(p.tx) \cup {l}
    BY <1>3, <1>7, InListAppend DEF Named
  <1>9. ASSUME NEW items, Offers(p.left, items) PROVE listing[l].item \in items
    <2>1. 1 \in DOMAIN p.left /\ p.left[1] = l
      BY <1>1, EmptySeq, LenProperties
    <2> QED
      BY <1>9, <2>1 DEF Offers
  <1>10. /\ o = "buy.cft20" => listing[l].item = Lot
         /\ o = "buy.inscription" => listing[l].item \in Insc /\ p.tx.hashes = <<>>
    BY <1>1, <1>9 DEF CartOK
  <1>11. /\ \A k \in Named(t) : listing[k] # NoListing /\ Price(o, listing[k]) > 0
         /\ o = "buy.cft20" => \A k \in Named(t) : listing[k].item = Lot
    BY <1>1, <1>2, <1>8, <1>10 DEF Sends
  <1>12. CASE o = "buy.inscription"
    <2>1. Named(p.tx) = {}
      BY <1>10, <1>12, InListEmpty DEF Named
    <2>2. old = [x \in Addr |-> NoSend]
      BY <1>1, <1>12, <2>1 DEF Sends, PaysNamed
    <2>3. Join(old, more) = more
      BY <2>2 DEF Join, Messages
    <2>4. PaysNamed(t)
      BY <1>7, <1>8, <1>10, <1>12, <2>1, <2>3 DEF PaysNamed
    <2> QED
      BY <1>3, <1>7, <1>8, <1>11, <2>4 DEF Sends
  <1>13. CASE o # "buy.inscription"
    <2>1. o = "deposit" \/ ~PaysRoyalty(listing[l])
      BY <1>3, <1>10, <1>13, MarketplaceAssumption DEF Trades, PaysRoyalty
    <2>2. \A a \in Addr : more[a] = IF a = listing[l].seller THEN Price(o, listing[l]) ELSE NoSend
      BY <2>1 DEF Messages
    <2>3. \A a \in Addr : Join(old, more)[a] = IF old[a] # NoSend THEN old[a] ELSE more[a]
      BY DEF Join
    <2>4. /\ SellersDiffer(Named(p.tx)) =>
               \A k \in Named(p.tx) : old[listing[k].seller] = Price(o, listing[k])
          /\ \A a \in Addr : old[a] # NoSend => \E k \in Named(p.tx) : listing[k].seller = a
          /\ \A k \in Named(p.tx) : listing[k] # NoListing /\ Price(o, listing[k]) > 0
      BY <1>1, <1>13 DEF Sends, PaysNamed
    <2>5. Named(p.tx) \subseteq Id
      BY <1>3, InListIds DEF Named
    <2>6. \A k \in Named(t) : listing[k].seller \in Addr
      <3>1. \A k \in Named(p.tx) : listing[k] \in Listing
        BY <2>4, <2>5 DEF TradeInv, Inv, SaleInv, TableTypes
      <3> QED
        BY <1>2, <1>8, <3>1 DEF Listing
    <2>7. \A k \in Named(p.tx) : Price(o, listing[k]) # NoSend
      BY <2>4 DEF NoSend
    <2>8. ASSUME SellersDiffer(Named(t)), NEW k \in Named(t)
          PROVE  t.sent[listing[k].seller] = Price(o, listing[k])
      <3>1. SellersDiffer(Named(p.tx))
        BY <1>8, <2>8 DEF SellersDiffer
      <3>2. CASE k \in Named(p.tx)
        BY <1>7, <2>3, <2>4, <2>6, <2>7, <2>8, <3>1, <3>2
      <3>3. CASE k \notin Named(p.tx)
        <4>1. k = l
          BY <1>8, <2>8, <3>3
        <4>2. \A j \in Named(p.tx) : listing[j].seller # listing[l].seller
          BY <1>2, <1>8, <2>4, <2>8, <3>3, <4>1 DEF SellersDiffer
        <4>3. old[listing[l].seller] = NoSend
          BY <2>4, <2>6, <2>8, <4>1, <4>2
        <4> QED
          BY <1>7, <2>2, <2>3, <2>6, <2>8, <4>1, <4>3
      <3> QED
        BY <3>2, <3>3
    <2>9. ASSUME NEW a \in Addr, t.sent[a] # NoSend
          PROVE  \E k \in Named(t) : listing[k].seller = a
      BY <1>7, <1>8, <2>2, <2>3, <2>4, <2>9
    <2>10. PaysNamed(t)
      BY <1>7, <1>13, <2>8, <2>9 DEF PaysNamed
    <2>11. t.op \in Trades /\ t.fee /\ t.op = o
      BY <1>3, <1>7
    <2> QED
      BY <1>7, <1>8, <1>11, <2>10, <2>11 DEF Sends, o
  <1> QED
    BY <1>7, <1>8, <1>12, <1>13

\* The reservation of a listing that is looked up runs as long as its row says.
LEMMA TakeCart ==
  ASSUME TradeInv, NEW p \in prepared, TakeListing(p)
  PROVE  \E q : CartOK(q) /\ prepared' = (prepared \ {p}) \cup {q}
  <1> DEFINE l == Head(p.left)
             t == Adding(p.tx, l)
             until == IF p.tx.op = "deposit" THEN p.until
                      ELSE [p.until EXCEPT ![l] = listing[l].until]
             q == [p EXCEPT !.tx = t, !.left = Tail(p.left), !.until = until]
  <1>1. /\ p.left # <<>> /\ ListingOK(p, l) /\ Price(p.tx.op, listing[l]) > 0
        /\ prepared' = (prepared \ {p}) \cup {q}
    BY DEF TakeListing, Becomes
  <1>2. p \in Cart /\ CartOK(p) /\ p.tx \in Tx /\ p.left \in Seq(Id) /\ p.until \in [Id -> Nat]
    BY DEF TradeInv, CartOK, Cart
  <1>3. /\ l \in Id /\ l \in InList(p.left) /\ Tail(p.left) \in Seq(Id)
        /\ InList(Tail(p.left)) \subseteq InList(p.left)
        /\ Len(Tail(p.left)) = Len(p.left) - 1 /\ Len(p.left) \in Nat
    BY <1>1, <1>2, InListTail, LenProperties
  <1>4. listing[l] # NoListing /\ listing[l] \in Listing /\ ~listing[l].cancelled
    BY <1>1, <1>3 DEF ListingOK, DepositListingOK, GetListingOK, OnOffer, TradeInv, Inv, SaleInv,
                      TableTypes
  <1>5. /\ t \in Tx /\ t.op = p.tx.op /\ t.sender = p.tx.sender /\ t.total = 0
        /\ Named(t) = Named(p.tx) \cup {l} /\ Sends(t)
    BY <1>1, <1>3, TakePays
  <1>6. /\ until \in [Id -> Nat]
        /\ \A k \in Id :
              \/ until[k] = p.until[k]
              \/ k = l /\ until[k] = listing[l].until /\ listing[l].depositor = p.tx.sender
    <2>1. listing[l].until \in Nat
      BY <1>4 DEF Listing
    <2>2. p.tx.op # "deposit" => listing[l].depositor = p.tx.sender
      BY <1>1 DEF ListingOK, GetListingOK
    <2>3. \/ until = p.until
          \/ /\ until = [p.until EXCEPT ![l] = listing[l].until]
             /\ listing[l].depositor = p.tx.sender
      BY <2>2
    <2> HIDE DEF until
    <2>4. CASE until = p.until
      BY <1>2, <2>4
    <2>5. CASE /\ until = [p.until EXCEPT ![l] = listing[l].until]
               /\ listing[l].depositor = p.tx.sender
      <3>1. until \in [Id -> Nat] /\ until[l] = listing[l].until
        BY <1>2, <1>3, <2>1, <2>5
      <3>2. \A k \in Id : k # l => until[k] = p.until[k]
        BY <1>2, <2>5
      <3> QED
        BY <2>5, <3>1, <3>2
    <2> QED
      BY <2>3, <2>4, <2>5
  <1> HIDE DEF t, until
  <1>7. /\ q \in Cart /\ q.tx = t /\ q.left = Tail(p.left) /\ q.until = until
    BY <1>2, <1>3, <1>5, <1>6 DEF Cart
  <1> HIDE DEF q
  <1>8. Promised(t, until)
    BY <1>2, <1>4, <1>5, <1>6 DEF CartOK, Promised
  <1>9. Picked(Named(t) \cup InList(q.left))
    BY <1>2, <1>3, <1>5, <1>7 DEF CartOK, Picked
  <1>10. ASSUME NEW items, Offers(p.left, items) PROVE Offers(q.left, items)
    BY <1>1, <1>2, <1>10, OffersTail, <1>7
  <1>11. p.tx.op = "buy.inscription" => Len(q.left) <= 1 /\ q.left = <<>>
    <2>1. ASSUME p.tx.op = "buy.inscription" PROVE Len(q.left) <= 0
      BY <1>2, <1>3, <1>7, <2>1 DEF CartOK
    <2>2. Len(q.left) \in Nat
      BY <1>3, <1>7, LenProperties
    <2> QED
      BY <1>3, <1>7, <2>1, <2>2, EmptySeq
  <1>12. CartOK(q)
    BY <1>2, <1>5, <1>7, <1>8, <1>9, <1>10, <1>11 DEF CartOK
  <1> QED
    BY <1>1, <1>12

LEMMA SkipCart ==
  ASSUME TradeInv, NEW p \in prepared, SkipListing(p)
  PROVE  \E q : CartOK(q) /\ prepared' = (prepared \ {p}) \cup {q}
  <1> DEFINE q == [p EXCEPT !.left = Tail(p.left)]
  <1>1. p.left # <<>> /\ prepared' = (prepared \ {p}) \cup {q}
    BY DEF SkipListing, Becomes
  <1>2. p \in Cart /\ CartOK(p) /\ p.left \in Seq(Id)
    BY DEF TradeInv, CartOK, Cart
  <1>3. /\ Tail(p.left) \in Seq(Id) /\ InList(Tail(p.left)) \subseteq InList(p.left)
        /\ Len(Tail(p.left)) = Len(p.left) - 1 /\ Len(p.left) \in Nat
    BY <1>1, <1>2, InListTail, LenProperties
  <1>4. q \in Cart /\ q.tx = p.tx /\ q.left = Tail(p.left) /\ q.until = p.until
    BY <1>2, <1>3 DEF Cart
  <1> HIDE DEF q
  <1>5. Picked(Named(q.tx) \cup InList(q.left))
    BY <1>2, <1>3, <1>4 DEF CartOK, Picked
  <1>6. ASSUME NEW items, Offers(p.left, items) PROVE Offers(q.left, items)
    BY <1>1, <1>2, <1>4, <1>6, OffersTail
  <1>7. p.tx.op = "buy.inscription" => Len(q.left) <= 1 /\ p.tx.hashes = <<>>
    BY <1>1, <1>2, <1>3, <1>4 DEF CartOK
  <1>8. CartOK(q)
    BY <1>2, <1>4, <1>5, <1>6, <1>7 DEF CartOK
  <1> QED
    BY <1>1, <1>8
-----------------------------------------------------------------------------
(* What is received *)

LEMMA ArriveTail ==
  ASSUME LoopInv, NEW t \in Wellformed, Arrive(t)
  PROVE  Received' \subseteq Received \cup {[id |-> sent + 1, tx |-> t, height |-> height]}
  <1> DEFINE e == [id |-> sent + 1, tx |-> t, height |-> height]
  <1>1. tail \in Seq(Entry) /\ Len(tail) \in Nat /\ tail' = Append(tail, e)
    BY DEF Arrive, LoopInv, LoopTypes
  <1>2. e \in Entry
    BY MarketplaceAssumption DEF Arrive, LoopInv, LoopTypes, Entry, Id
  <1> HIDE DEF e
  <1>3. /\ Len(tail') = Len(tail) + 1 /\ \A i \in 1 .. Len(tail) : tail'[i] = tail[i]
        /\ tail'[Len(tail) + 1] = e
    BY <1>1, <1>2, AppendProperties
  <1>4. \A n \in 1 .. Len(tail') : n \in 1 .. Len(tail) \/ n = Len(tail) + 1
    BY <1>1, <1>3
  <1>5. Received' \subseteq Received \cup {e}
    BY <1>3, <1>4 DEF Received
  <1> QED
    BY <1>5 DEF e

LEMMA BlockTail == ASSUME LoopInv, NextBlock PROVE Received' \subseteq Received
  <1>1. tail \in Seq(Entry) /\ Len(tail) \in Nat /\ mark \in 0 .. Len(tail)
    BY DEF LoopInv, LoopTypes
  <1> DEFINE f == mark + 1  k == Len(tail)
  <1>2. tail' = SubSeq(tail, f, k)
    BY DEF NextBlock
  <1>3. f \in Int /\ k \in Int /\ \A i \in f .. k : tail[i] \in Entry
    BY <1>1, ElementOfSeq
  <1>4. f \in Nat \ {0} /\ k \in Nat
    BY <1>1
  <1> HIDE DEF f, k
  <1>5. /\ Len(tail') = IF f <= k THEN k - f + 1 ELSE 0
        /\ \A i \in 1 .. k - f + 1 : tail'[i] = tail[f + i - 1]
    BY <1>2, <1>3, SubSeqProperties
  <1>6. \A n \in 1 .. Len(tail') : f + n - 1 \in 1 .. k /\ tail'[n] = tail[f + n - 1]
    BY <1>4, <1>5
  <1> QED
    BY <1>6 DEF k, Received

\* What is kept of the transactions is of before, or a submission.
LEMMA StepTail ==
  ASSUME LoopInv, [Next]_vars, NEW e \in Received'
  PROVE  \/ e \in Received
         \/ \E t \in Submissions : Arrive(t) /\ e = [id |-> sent + 1, tx |-> t, height |-> height]
  <1>1. CASE Receive
    BY <1>1, ArriveTail, Wellformedness DEF Receive
  <1>2. CASE NextBlock
    BY <1>2, BlockTail
  <1>3. CASE tail' = tail
    BY <1>3 DEF Received
  <1>4. Handle => tail' = tail
    BY HandleMoves
  <1>5. Again \/ Stop \/ UNCHANGED vars => tail' = tail
    BY DEF Again, Stop, vars, loop
  <1> QED
    BY <1>1, <1>2, <1>3, <1>4, <1>5 DEF Next

\* The IDs given only grow.
LEMMA SentRises ==
  ASSUME LoopInv, [Next]_vars PROVE sent \in Nat /\ sent' \in Nat /\ sent <= sent'
  <1>1. sent \in Nat
    BY MarketplaceAssumption DEF LoopInv, LoopTypes
  <1>2. Handle => sent' = sent
    BY HandleMoves
  <1>3. sent' = sent \/ sent' = sent + 1
    BY <1>2 DEF Next, Receive, Arrive, Again, NextBlock, Stop, vars, loop
  <1> QED
    BY <1>1, <1>3
-----------------------------------------------------------------------------
(* The invariant of the trade *)

\* The transaction being run, when it is the SDK's.
LEMMA SDKAtWork ==
  ASSUME TradeInv, Busy, FromSDK(me)
  PROVE  Sends(tx) /\ Picked(Named(tx)) /\ (tx.op \in Naming => named \in Named(tx))
  <1>1. at \in 1 .. Len(tail) /\ tx \in Tx /\ (tx.op \in Naming => pos \in 1 .. Len(tx.hashes))
    BY AtWork DEF TradeInv, Inv
  <1>2. tx.hashes \in Seq(Id)
    BY <1>1 DEF Tx
  <1>3. Sends(tx) /\ Picked(Named(tx))
    BY <1>1 DEF TradeInv, EntryOK, Received, me, tx
  <1> QED
    BY <1>1, <1>2, <1>3, LenProperties DEF Named, InList, named

LEMMA ExactStep == ASSUME TradeInv, [Next]_vars PROVE Exact'
  <1> SUFFICES ASSUME OnlySDK, \A b \in Baskets : SellersDiffer(InList(b))',
                      NEW l \in Id, listing'[l] # NoListing, listing'[l].depositor # NoAddr
               PROVE  receipt'[l].deposit = listing'[l].deposit
    BY DEF Exact
  <1>1. LoopInv /\ TableTypes /\ AtListing
    BY DEF TradeInv, Inv, SaleInv
  <1>2. \A b \in Baskets : SellersDiffer(InList(b))
    <2>1. Lasting
      BY StepLasts DEF TradeInv
    <2>2. \A b \in Baskets : InList(b) \in SUBSET Id
      BY InListIds, TradeAssumption
    <2> QED
      BY <2>1, <2>2, DifferedBefore
  <1>3. ASSUME NEW k \in Id, listing[k] # NoListing, listing[k].depositor # NoAddr
        PROVE  receipt[k].deposit = listing[k].deposit
    BY <1>2, <1>3 DEF TradeInv, Exact
  <1>4. CASE UNCHANGED <<listing, receipt>>
    BY <1>3, <1>4
  <1>5. CASE SaveListing /\ fresh
    <2>1. Only(me.id) /\ listing'[me.id].depositor = NoAddr /\ UNCHANGED receipt
      BY <1>1, <1>5, WriteListing DEF SaveListing, Attempt
    <2> QED
      BY <1>3, <2>1 DEF Only
  <1>6. CASE SaveDetail
    <2>1. /\ Only(me.id) /\ listing[me.id] \in Listing
          /\ listing'[me.id] = [listing[me.id] EXCEPT !.item = tx.item,
                                                      !.amount = (tx.amount + 1) \div 2]
      BY <1>1, <1>6, WriteDetail
    <2>2. /\ listing'[me.id].depositor = listing[me.id].depositor
          /\ listing'[me.id].deposit = listing[me.id].deposit
      BY <2>1 DEF Listing
    <2>3. UNCHANGED receipt /\ listing[me.id] # NoListing
      BY <1>6, <2>1, SubmissionsAssumption DEF SaveDetail
    <2>4. CASE l = me.id
      BY <1>3, <2>2, <2>3, <2>4
    <2>5. CASE l # me.id
      BY <1>3, <2>1, <2>3, <2>5 DEF Only
    <2> QED
      BY <2>4, <2>5
  <1>7. CASE Deposit /\ DepositOK
    <2>1. /\ named \in Id /\ target \in Listing /\ Only(named)
          /\ listing'[named] = [target EXCEPT !.depositor = tx.sender,
                                              !.until = me.height + target.timeout + 1]
          /\ \A k \in Id : k # named => receipt'[k] = receipt[k]
          /\ receipt'[named].deposit = tx.sent[target.seller]
      BY <1>1, <1>7, WriteDeposit
    <2>2. listing'[named].deposit = target.deposit
      BY <2>1 DEF Listing
    <2>3. Busy /\ tx.op = "deposit"
      BY <1>7 DEF Deposit, At, Busy
    <2>4. FromSDK(me)
      BY <2>3 DEF FromSDK, Trades, tx
    <2>5. Sends(tx) /\ Picked(Named(tx)) /\ named \in Named(tx)
      BY <2>3, <2>4, SDKAtWork DEF Naming
    <2>6. SellersDiffer(Named(tx))
      BY <1>2, <2>5 DEF Picked, SellersDiffer
    <2>7. tx.sent[target.seller] = target.deposit
      BY <2>3, <2>5, <2>6 DEF Sends, PaysNamed, Price, target
    <2> QED
      BY <1>3, <2>1, <2>2, <2>7 DEF Only
  <1>8. CASE Buying
    <2>1. /\ named \in Id /\ target \in Listing /\ target # NoListing /\ Only(named)
          /\ listing'[named] = [target EXCEPT !.filled = TRUE]
          /\ \A k \in Id : k # named => receipt'[k] = receipt[k]
          /\ receipt'[named].deposit = receipt[named].deposit
      BY <1>1, <1>8, WriteBuying
    <2>2. /\ listing'[named].deposit = target.deposit
          /\ listing'[named].depositor = target.depositor
      BY <2>1 DEF Listing
    <2> QED
      BY <1>3, <2>1, <2>2 DEF Only, target
  <1>9. CASE Delist /\ DelistOK
    <2>1. /\ named \in Id /\ target \in Listing /\ Only(named)
          /\ listing'[named] = [target EXCEPT !.depositor = NoAddr, !.until = 0,
                                              !.cancelled = TRUE]
      BY <1>1, <1>9, WriteDelist
    <2>2. listing'[named].depositor = NoAddr
      BY <2>1 DEF Listing
    <2>3. UNCHANGED receipt
      BY <1>9 DEF Delist, Attempt
    <2> QED
      BY <1>3, <2>1, <2>2, <2>3 DEF Only
  <1> QED
    BY <1>1, <1>4, <1>5, <1>6, <1>7, <1>8, <1>9, Writes

\* What stays of the carts and of what was received stays right.
LEMMA CarriesOn ==
  ASSUME TradeInv, Inv', Lasting, Holding,
         height \in Nat, height' \in Nat, height <= height',
         sent \in Nat, sent' \in Nat, sent <= sent',
         promise' \in [Id -> [Id -> Nat]],
         \A k \in Id : k <= sent => promise'[k] = promise[k],
         \A k \in Id : k > sent' => promise'[k] = None,
         \A q \in prepared' : CartOK(q),
         \A e \in Received' : e \in Received \/ EntryOK(e)',
         Exact'
  PROVE  TradeInv'
  <1>1. TableTypes /\ TableTypes' /\ tail \in Seq(Entry) /\ promise \in [Id -> [Id -> Nat]]
    BY DEF TradeInv, Inv, SaleInv, LoopInv, LoopTypes
  <1>2. \A q \in prepared' : CartOK(q)'
    BY <1>1, CartLasts
  <1>3. ASSUME NEW e \in Received PROVE EntryOK(e)'
    <2>1. e \in Entry
      BY <1>1, <1>3, ElementOfSeq DEF Received
    <2>2. EntryOK(e) /\ e.id \in Id /\ e.id <= sent
      BY <1>3, <2>1 DEF TradeInv, EntryOK, Entry
    <2> QED
      BY <1>1, <2>1, <2>2, EntryLasts
  <1>4. \A e \in Received' : EntryOK(e)'
    BY <1>3
  <1> QED
    BY <1>2, <1>4 DEF TradeInv

\* The marketplace's own steps.
LEMMA MarketStep ==
  ASSUME TradeInv, [Next]_vars, UNCHANGED <<prepared, promise>> PROVE TradeInv'
  <1>1. Inv /\ LoopInv /\ Inv'
    BY NextInv DEF TradeInv, Inv
  <1>2. Lasting /\ Holding
    BY <1>1, StepLasts, StepHolds DEF Holding
  <1>3. /\ height \in Nat /\ height' \in Nat /\ height <= height'
        /\ sent \in Nat /\ sent' \in Nat /\ sent <= sent'
    BY <1>1, HeightRises, SentRises
  <1>4. /\ promise' \in [Id -> [Id -> Nat]] /\ \A k \in Id : promise'[k] = promise[k]
        /\ \A k \in Id : k > sent' => promise'[k] = None
    <2>1. \A k \in Id : k \in Nat
      BY DEF Id
    <2> QED
      BY <1>3, <2>1 DEF TradeInv
  <1>5. ASSUME NEW e \in Received', e \notin Received PROVE EntryOK(e)'
    <2>1. PICK t \in Submissions :
             Arrive(t) /\ e = [id |-> sent + 1, tx |-> t, height |-> height]
      BY <1>1, <1>5, StepTail
    <2>2. sent' = sent + 1 /\ sent < MaxTx
      BY <2>1 DEF Arrive
    <2>3. e.id = sent' /\ e.tx = t /\ e.id \in Id /\ e.id > sent
      BY <1>3, <2>1, <2>2, MarketplaceAssumption DEF Id
    <2>4. promise'[e.id] = None /\ promise[e.id] = None
      BY <1>4, <2>3 DEF TradeInv
    <2>5. \A l \in Id : ~(None[l] > height')
      BY <1>3 DEF None
    <2>6. ~FromSDK(e)'
      BY <2>3, <2>4 DEF FromSDK, OnlySDK, Trades
    <2>7. Promised(e.tx, promise[e.id])'
      BY <2>4, <2>5 DEF Promised
    <2> QED
      BY <1>3, <2>3, <2>6, <2>7 DEF EntryOK
  <1>6. \A q \in prepared' : CartOK(q)
    BY DEF TradeInv
  <1>7. Exact'
    BY ExactStep
  <1> QED
    BY <1>1, <1>2, <1>3, <1>4, <1>5, <1>6, <1>7, CarriesOn

\* A step of the SDK before it submits: carts change.
LEMMA CartStep ==
  ASSUME TradeInv, UNCHANGED <<vars, promise>>, \A q \in prepared' : CartOK(q)
  PROVE  TradeInv'
  <1>1. /\ UNCHANGED <<owner, bal, listing, receipt>>
        /\ UNCHANGED <<tail, mark, at, sent, height, fresh, stops, pc, pos>>
    BY DEF vars, tables, loop
  <1>2. Inv /\ Inv' /\ LoopInv
    BY NextInv DEF TradeInv, Inv
  <1>3. Lasting /\ Holding
    BY <1>1 DEF Lasting, Holding
  <1>4. height \in Nat /\ sent \in Nat
    BY <1>2, HeightRises, SentRises
  <1>5. Received' = Received
    BY <1>1 DEF Received
  <1>6. Exact'
    BY <1>1 DEF TradeInv, Exact, SellersDiffer
  <1>7. promise' \in [Id -> [Id -> Nat]] /\ \A k \in Id : k > sent' => promise'[k] = None
    BY <1>1 DEF TradeInv
  <1> QED
    BY <1>1, <1>2, <1>3, <1>4, <1>5, <1>6, <1>7, CarriesOn

LEMMA SubmitStep == ASSUME TradeInv, NEW p \in prepared, Submit(p) PROVE TradeInv'
  <1>1. /\ p.left = <<>> /\ p.tx.hashes # <<>> /\ Arrive(p.tx) /\ prepared' = prepared \ {p}
        /\ promise' = [promise EXCEPT ![sent + 1] = p.until]
    BY DEF Submit
  <1>2. /\ CartOK(p) /\ p.tx \in Tx /\ p.until \in [Id -> Nat] /\ p.tx.total = 0
        /\ Sends(p.tx) /\ p.tx.op \in Trades
    BY DEF TradeInv, CartOK, Cart, Sends
  <1>3. p.tx \in Wellformed
    BY <1>1, <1>2, MarketplaceAssumption DEF Wellformed, Trades
  <1>0. PICK e : e = [id |-> sent + 1, tx |-> p.tx, height |-> height]
    OBVIOUS
  <1>4. Inv /\ LoopInv /\ Inv' /\ Received' \subseteq Received \cup {e}
    BY <1>0, <1>1, <1>3, ArriveInv, ArriveTail DEF TradeInv, Inv
  <1>5. /\ UNCHANGED <<owner, bal, listing, receipt>> /\ height' = height /\ sent' = sent + 1
        /\ sent < MaxTx
    BY <1>1 DEF Arrive, tables
  <1>6. Lasting /\ Holding
    BY <1>5 DEF Lasting, Holding
  <1>7. height \in Nat /\ sent \in Nat
    <2>1. height \in 1 .. MaxHeight /\ sent \in 0 .. MaxTx
      BY <1>4 DEF LoopInv, LoopTypes
    <2> QED
      BY <2>1, MarketplaceAssumption
  <1>8. sent + 1 \in Id /\ \A k \in Id : k \in Nat
    BY <1>5, <1>7, MarketplaceAssumption DEF Id
  <1>9. /\ promise' \in [Id -> [Id -> Nat]] /\ promise'[sent + 1] = p.until
        /\ \A k \in Id : k # sent + 1 => promise'[k] = promise[k]
    BY <1>1, <1>2, <1>8 DEF TradeInv
  <1>10. /\ \A k \in Id : k <= sent => promise'[k] = promise[k]
         /\ \A k \in Id : k > sent' => promise'[k] = None
    BY <1>5, <1>7, <1>8, <1>9 DEF TradeInv
  <1>11. EntryOK(e)'
    <2>1. e.id = sent + 1 /\ e.tx = p.tx
      BY <1>0
    <2>2. e.id <= sent'
      BY <1>5, <1>7, <2>1
    <2>3. TableTypes /\ TableTypes'
      BY <1>4 DEF Inv, SaleInv
    <2>4. Promised(p.tx, p.until)' /\ Sends(p.tx)'
      <3>1. height' \in Nat /\ height <= height' /\ Promised(p.tx, p.until)
        BY <1>2, <1>5, <1>7 DEF CartOK
      <3> DEFINE t == p.tx  until == p.until
      <3>2. t \in Tx /\ until \in [Id -> Nat] /\ Promised(t, until) /\ Sends(t)
        BY <1>2, <3>1
      <3> HIDE DEF t, until
      <3>3. Promised(t, until)' /\ Sends(t)'
        BY <1>6, <1>7, <2>3, <3>1, <3>2, PromisedLasts, SendsLast
      <3> QED
        BY <3>3 DEF t, until
    <2>5. Picked(Named(p.tx))
      BY <1>2 DEF CartOK, Picked
    <2>6. Promised(e.tx, promise[e.id])'
      BY <1>9, <2>1, <2>4 DEF Promised
    <2> QED
      BY <2>1, <2>2, <2>4, <2>5, <2>6 DEF EntryOK
  <1>12. \A q \in prepared' : CartOK(q)
    BY <1>1 DEF TradeInv
  <1>13. Exact'
    BY <1>5 DEF TradeInv, Exact, SellersDiffer
  <1>14. height' \in Nat /\ height <= height' /\ sent' \in Nat /\ sent <= sent'
    BY <1>5, <1>7
  <1> QED
    BY <1>4, <1>6, <1>7, <1>9, <1>10, <1>11, <1>12, <1>13, <1>14, CarriesOn

LEMMA TradeStep == TradeInv /\ [TradeNext]_tradeVars => TradeInv'
  <1> SUFFICES ASSUME TradeInv, [TradeNext]_tradeVars PROVE TradeInv'
    OBVIOUS
  <1>1. CASE \E a \in Buyer, basket \in Baskets : BeginDeposit(a, basket) \/ BeginBuy(a, basket)
    <2>1. PICK a \in Buyer, basket \in Baskets : BeginDeposit(a, basket) \/ BeginBuy(a, basket)
      BY <1>1
    <2>2. PICK o \in Trades :
             /\ Begin(o, a, basket)
             /\ o = "buy.cft20" => Offers(basket, {Lot})
             /\ o = "buy.inscription" => Offers(basket, Insc) /\ Len(basket) = 1
      BY <2>1 DEF BeginDeposit, BeginBuy, Trades
    <2>3. PICK known \in Known :
             prepared' = prepared \cup
                {[tx |-> Operation(o, a), left |-> basket, known |-> known, until |-> None]}
      BY <2>2 DEF Begin
    <2>4. CartOK([tx |-> Operation(o, a), left |-> basket, known |-> known, until |-> None])
      BY <2>2, BeginCart
    <2>5. UNCHANGED <<vars, promise>> /\ \A q \in prepared' : CartOK(q)
      BY <2>2, <2>3, <2>4 DEF Begin, TradeInv
    <2> QED
      BY <2>5, CartStep
  <1>2. ASSUME NEW p \in prepared, TakeListing(p) \/ SkipListing(p) PROVE TradeInv'
    <2>1. UNCHANGED <<vars, promise>>
      BY <1>2 DEF TakeListing, SkipListing, Becomes
    <2>2. \E q : CartOK(q) /\ prepared' = (prepared \ {p}) \cup {q}
      BY <1>2, TakeCart, SkipCart
    <2>3. \A q \in prepared' : CartOK(q)
      BY <2>2 DEF TradeInv
    <2> QED
      BY <2>1, <2>3, CartStep
  <1>3. ASSUME NEW p \in prepared, GiveUp(p) PROVE TradeInv'
    <2>1. UNCHANGED <<vars, promise>> /\ \A q \in prepared' : CartOK(q)
      BY <1>3 DEF GiveUp, TradeInv
    <2> QED
      BY <2>1, CartStep
  <1>4. CASE Next /\ UNCHANGED <<prepared, promise>>
    BY <1>4, MarketStep
  <1>5. CASE UNCHANGED tradeVars
    BY <1>5, MarketStep DEF tradeVars
  <1> QED
    BY <1>1, <1>2, <1>3, <1>4, <1>5, SubmitStep DEF TradeNext

LEMMA TradeStart == TradeInit => TradeInv
  <1> SUFFICES ASSUME TradeInit PROVE TradeInv
    OBVIOUS
  <1>1. Inv
    BY InitInv DEF TradeInit
  <1>2. None \in [Id -> Nat] /\ promise = [t \in Id |-> None] /\ prepared = {}
    BY DEF None, TradeInit
  <1>3. Received = {}
    BY DEF Received, TradeInit, Init
  <1>4. Exact
    BY DEF Exact, TradeInit, Init
  <1> QED
    BY <1>1, <1>2, <1>3, <1>4 DEF TradeInv

LEMMA TradeInvariant == TradeSpec => []TradeInv
  BY TradeStart, TradeStep, PTL DEF TradeSpec

\* What the SDK sends for a listing that both sides reckon alike is enough.
LEMMA EnoughSent ==
  ASSUME NEW l \in Listing, l.total < Wide, ReckonedAlike(l),
         NEW o \in {"buy.cft20", "buy.inscription"}, Price(o, l) > 0
  PROVE  /\ l.item = Lot => Price(o, l) = Minus(l.total, l.deposit)
         /\ l.item \in Insc => Price(o, l) = Minus(Minus(l.total, l.deposit), Royalty(l))
  <1>1. l.total \in Nat /\ l.deposit \in Nat /\ Royalty(l) \in Nat /\ l.deposit <= l.total
    BY RoyaltyIsNat DEF Listing, ReckonedAlike
  <1> DEFINE x == l.total - l.deposit
  <1>2. x \in Nat /\ x < Wide /\ Rest(l) = x
    BY <1>1, MarketplaceAssumption DEF Rest
  <1>3. Minus(l.total, l.deposit) = x
    BY <1>2, Modulo DEF Minus
  <1> HIDE DEF x
  <1>4. l.item = Lot => Price(o, l) = x
    BY <1>2, MarketplaceAssumption DEF Price, PaysRoyalty
  <1>5. ASSUME l.item \in Insc PROVE Price(o, l) = x - Royalty(l)
    <2>1. CASE OwesRoyalty(l)
      BY <1>2, <1>5, <2>1 DEF Price, ReckonedAlike
    <2>2. CASE ~OwesRoyalty(l)
      <3>1. Royalty(l) = 0 /\ ~PaysRoyalty(l)
        BY <2>2 DEF Royalty, PaysRoyalty
      <3> QED
        BY <1>2, <3>1 DEF Price
    <2> QED
      BY <2>1, <2>2
  <1>6. ASSUME l.item \in Insc PROVE Price(o, l) = Minus(x, Royalty(l))
    <2>1. x - Royalty(l) \in Int /\ x - Royalty(l) >= 0 /\ x - Royalty(l) < Wide
      BY <1>1, <1>2, <1>5, <1>6, MarketplaceAssumption
    <2> QED
      BY <1>5, <1>6, <2>1, Modulo DEF Minus
  <1> QED
    BY <1>3, <1>4, <1>6

LEMMA PromisedIsBought == TradeInv => PaidIsBought
  <1> SUFFICES ASSUME TradeInv, pc = "run", tx.op \in {"buy.cft20", "buy.inscription"},
                      promise[me.id][named] > height, ~target.filled,
                      SellersDiffer(InList(tx.hashes)), ReckonedAlike(target)
               PROVE  IF tx.op = "buy.cft20" THEN BuyCFT20OK ELSE BuyInscriptionOK
    BY DEF PaidIsBought
  <1>1. Busy /\ tx.op \in Naming /\ Inv /\ LoopInv /\ TableTypes /\ Paid
    BY DEF Busy, Naming, TradeInv, Inv, SaleInv
  <1>2. /\ at \in 1 .. Len(tail) /\ me \in Entry /\ me.id \in Id /\ height \in Nat
        /\ tx \in Tx /\ named \in Id
    BY <1>1, AtWork
  <1>3. promise[me.id] # None
    BY <1>2 DEF None
  <1>4. Sends(tx) /\ named \in Named(tx) /\ SellersDiffer(Named(tx))
    BY <1>1, <1>3, SDKAtWork DEF FromSDK, Named
  <1>5. Promised(tx, promise[me.id])
    BY <1>2 DEF TradeInv, EntryOK, Received, me, tx
  <1>6. /\ target # NoListing /\ ~target.cancelled /\ target.depositor = tx.sender
        /\ Price(tx.op, target) > 0 /\ tx.fee
    BY <1>2, <1>4, <1>5 DEF Promised, Sends, target
  <1>7. target \in Listing /\ target.total < Wide /\ target.seller \in Addr
    BY <1>1, <1>2, <1>6 DEF TableTypes, Paid, target, Listing
  <1>8. Price(tx.op, target) \in Int /\ Price(tx.op, target) # NoSend
    BY <1>6, <1>7, Amounts DEF NoSend
  <1>9. CASE tx.op = "buy.cft20"
    <2>1. target.item = Lot /\ tx.sent[target.seller] = Price(tx.op, target)
      BY <1>4, <1>9 DEF Sends, PaysNamed, target
    <2>2. Price(tx.op, target) = Minus(target.total, target.deposit)
      BY <1>6, <1>7, <2>1, EnoughSent
    <2>3. Sent(target.seller, Minus(target.total, target.deposit))
      BY <1>8, <2>1, <2>2 DEF Sent
    <2> QED
      BY <1>6, <1>9, <2>1, <2>3 DEF BuyCFT20OK
  <1>10. CASE tx.op = "buy.inscription"
    <2>1. target.item \in Insc /\ tx.sent = Messages(tx.op, target)
      BY <1>4, <1>10 DEF Sends, PaysNamed, target
    <2>2. Price(tx.op, target) = Minus(Minus(target.total, target.deposit), Royalty(target))
      BY <1>6, <1>7, <2>1, EnoughSent
    <2>3. tx.sent[target.seller] = Price(tx.op, target)
      BY <1>7, <2>1 DEF Messages
    <2>4. Sent(target.seller, Minus(Minus(target.total, target.deposit), Royalty(target)))
      BY <1>8, <2>2, <2>3 DEF Sent
    <2>5. ASSUME OwesRoyalty(target) PROVE Sent(RoyaltyTo, Royalty(target))
      <3>1. PaysRoyalty(target) /\ SDKRoyalty(target) = Royalty(target)
        BY <2>1, <2>5 DEF ReckonedAlike
      <3>2. tx.sent[RoyaltyTo] = Royalty(target)
        BY <1>10, <2>1, <2>5, <3>1, MarketplaceAssumption DEF Messages, OwesRoyalty
      <3>3. Royalty(target) \in Nat /\ Royalty(target) # NoSend
        BY <1>7, RoyaltyIsNat DEF NoSend
      <3> QED
        BY <3>2, <3>3 DEF Sent
    <2> QED
      BY <1>6, <1>10, <2>1, <2>4, <2>5 DEF BuyInscriptionOK
  <1> QED
    BY <1>9, <1>10

\* client/src/operations/marketplace.ts against marketplace.go: a purchase that
\* the SDK prepared under a reservation that still runs when the indexer
\* processes it is accepted, for any sellers, buyers, stops and interleaving, as
\* long as the listings it names are of different sellers and the two sides
\* reckon the same amounts.
THEOREM SDKPurchasesAreBought == TradeSpec => []PaidIsBought
  BY TradeInvariant, PromisedIsBought, PTL

LEMMA StepPaysThePrice ==
  ASSUME TradeInv, [Next]_vars, NEW l \in Id,
         OnlySDK, \A b \in Baskets : SellersDiffer(InList(b)),
         listing[l] # NoListing, ~listing[l].filled, listing'[l].filled,
         listing[l].deposit <= listing[l].total
  PROVE  receipt'[l].deposit + receipt'[l].rest = listing[l].total
  <1>1. Inv /\ LoopInv /\ TableTypes
    BY DEF TradeInv, Inv, SaleInv
  <1>2. Buying /\ l = named
    BY <1>1, StepBuys
  <1>3. /\ Busy /\ named \in Id /\ target \in Listing /\ target # NoListing
        /\ tx.sender \in Addr /\ target.depositor = tx.sender
        /\ receipt'[named].deposit = receipt[named].deposit
        /\ Spent(receipt'[named].rest)
    BY <1>1, <1>2, WriteBuying
  <1>4. tx.op \in {"buy.cft20", "buy.inscription"}
    BY <1>2 DEF Buying, BuyCFT20, BuyInscription, At
  <1>5. FromSDK(me)
    BY <1>4 DEF FromSDK, Trades, tx
  <1>6. Sends(tx) /\ Picked(Named(tx)) /\ named \in Named(tx)
    BY <1>3, <1>4, <1>5, SDKAtWork DEF Naming
  <1>7. SellersDiffer(Named(tx))
    BY <1>6 DEF Picked, SellersDiffer
  <1>8. receipt'[l].deposit = target.deposit
    BY <1>2, <1>3, MarketplaceAssumption DEF TradeInv, Exact, target
  <1>9. /\ target.total \in Nat /\ target.deposit \in Nat /\ target.deposit <= target.total
        /\ target.seller \in Addr /\ SDKRoyalty(target) \in Nat
    BY <1>2, <1>3, Amounts DEF Listing, target
  <1>10. Rest(target) = target.total - target.deposit
    BY <1>9 DEF Rest
  <1>11. receipt'[l].rest = Rest(target)
    <2>1. CASE tx.op = "buy.cft20"
      <3>1. target.item = Lot /\ tx.sent[target.seller] = Price(tx.op, target)
        BY <1>6, <1>7, <2>1 DEF Sends, PaysNamed, target
      <3>2. Price(tx.op, target) = Rest(target)
        BY <2>1, <3>1, MarketplaceAssumption DEF Price, PaysRoyalty
      <3> QED
        BY <1>2, <1>3, <2>1, <3>1, <3>2 DEF Spent
    <2>2. CASE tx.op = "buy.inscription"
      <3>1. tx.sent = Messages(tx.op, target) /\ tx.sent[target.seller] = Price(tx.op, target)
        BY <1>6, <1>9, <2>2 DEF Sends, PaysNamed, Messages, target
      <3>2. CASE OwesRoyalty(target)
        <4>1. tx.sent[RoyaltyTo] # NoSend
          BY <1>2, <2>2, <3>2 DEF Buying, BuyCFT20, BuyInscriptionOK, Sent, At
        <4>2. PaysRoyalty(target) /\ tx.sent[RoyaltyTo] = SDKRoyalty(target)
          BY <3>1, <3>2, <4>1, MarketplaceAssumption DEF Messages, OwesRoyalty
        <4>3. Price(tx.op, target) = Rest(target) - SDKRoyalty(target)
          BY <2>2, <4>2 DEF Price
        <4> QED
          BY <1>2, <1>3, <1>9, <1>10, <2>2, <3>1, <3>2, <4>2, <4>3 DEF Spent
      <3>3. CASE ~OwesRoyalty(target)
        <4>1. Price(tx.op, target) = Rest(target)
          BY <2>2, <3>3 DEF Price, PaysRoyalty
        <4> QED
          BY <1>2, <1>3, <1>9, <1>10, <2>2, <3>1, <3>3, <4>1 DEF Spent
      <3> QED
        BY <3>2, <3>3
    <2> QED
      BY <1>4, <2>1, <2>2
  <1> QED
    BY <1>2, <1>8, <1>9, <1>10, <1>11 DEF target

\* client/src/operations/marketplace.ts against marketplace.go: while all deposits
\* and purchases are the SDK's, what is paid for a listing is its price, not more,
\* whoever else wanted it and however often blocks are run again.
THEOREM SDKPaysThePrice == TradeSpec => PaysThePrice
  <1>1. TradeInv /\ [TradeNext]_tradeVars =>
          [\A l \in Id :
             /\ OnlySDK /\ \A b \in Baskets : SellersDiffer(InList(b))
             /\ listing[l] # NoListing
             /\ ~listing[l].filled /\ listing'[l].filled
             /\ listing[l].deposit <= listing[l].total
             => receipt'[l].deposit + receipt'[l].rest = listing[l].total]_tradeVars
    <2> SUFFICES ASSUME TradeInv, [TradeNext]_tradeVars, NEW l \in Id,
                        OnlySDK, \A b \in Baskets : SellersDiffer(InList(b)),
                        listing[l] # NoListing, ~listing[l].filled, listing'[l].filled,
                        listing[l].deposit <= listing[l].total
                 PROVE  receipt'[l].deposit + receipt'[l].rest = listing[l].total
      OBVIOUS
    <2>1. [Next]_vars \/ listing' = listing
      BY DEF TradeNext, tradeVars, BeginDeposit, BeginBuy, Begin, TakeListing, SkipListing,
             Becomes, GiveUp, Submit, Arrive, tables
    <2> QED
      BY <2>1, StepPaysThePrice
  <1> QED
    BY TradeInvariant, <1>1, PTL DEF TradeSpec, PaysThePrice
=============================================================================
