--------------------------- MODULE Indexer_proofs ---------------------------
(***************************************************************************)
(* Theorems about the block loop and the CFT-20 handlers, for any number   *)
(* of addresses, tickers, blocks, transactions and restarts.               *)
(*                                                                         *)
(* The first part is about rows: types, histories, statuses, heights.  The *)
(* second is about the units of the tokens: no run of the indexer makes    *)
(* units, without a stop it loses none, and it implements the abstract     *)
(* ledger of module TokenLedger.  Between two saves of a handler the units *)
(* it has debited and not yet credited, burned or locked are on their way; *)
(* the invariant counts them with those that balances and open positions   *)
(* hold.                                                                   *)
(***************************************************************************)
EXTENDS Indexer, Coins_proofs, TLAPS

(* What one step of a CFT-20 handler preserves, for any transaction *)

\* Conversions stay within uint64.
LEMMA ConversionsType ==
    ASSUME NEW h \in Half
    PROVE  Round(h) \in Units /\ Trunc(h) \in Units
BY WideAssumption DEF Round, Trunc, Half, Units

\* A transfer's amount, scaled in uint64 arithmetic, stays within uint64.
LEMMA ScaledType ==
    ASSUME NEW n \in Nat
    PROVE  Scaled(n) \in Units
<1>1. n * Scale \in Nat
  BY ScaleAssumption
<1>2. \A x \in Nat : x % Wide \in 0 .. Wide - 1
  BY WideAssumption
<1>. QED
  BY <1>1, <1>2 DEF Scaled, Units

\* The unsigned subtraction of a burn stays within uint64.
LEMMA MinusType ==
    ASSUME NEW x \in Nat, NEW y \in Units
    PROVE  Minus(x, y) \in Nat /\ (x \in Units => Minus(x, y) \in Units)
BY WideAssumption DEF Minus, Units

\* What a mint issues is a uint64 amount and keeps the circulating supply
\* within the maximum supply.
LEMMA MintAmountType ==
    ASSUME TypeOK, NEW t \in Ticker, token[t] # NoToken,
           token[t].circ < token[t].cap
    PROVE  MintAmount(t) \in Units /\ token[t].circ + MintAmount(t) <= token[t].cap
<1>1. token[t] \in TokenRow
  BY DEF TypeOK
<1>. QED
  BY <1>1, WideAssumption DEF MintAmount, TokenRow, Units

-----------------------------------------------------------------------------
(* The checks *)

\* The checks of every operation leave the handler at a save whose
\* precondition they have established.
LEMMA ProcessPreserves ==
    ASSUME NEW id \in TxId, NEW tx \in Tx, NEW now,
           TypeOK, RowsInv(id, tx), Process(id, tx, now)
    PROVE  TypeOK' /\ HandlerInv(id, tx)' /\ pc' \in Saves \cup {"failed"}
<1>. USE DEF Check, TypeOK, Saves, HandlerInv, StepInv, RowsInv, tables
<1>0. /\ tx \in Tx /\ tx.tick \in Ticker /\ tx.amount \in Half /\ tx.pre \in Half
      /\ 0 \in Units
  BY WideAssumption DEF Tx, Units
<1>1. CASE Deploy(tx)
  BY <1>0, <1>1, ConversionsType DEF Deploy, DeployOK
<1>2. CASE Mint(tx, now)
  BY <1>0, <1>2, MintAmountType DEF Mint, MintOK
<1>3. CASE Transfer(tx)
  <2>1. tx.amount \in Nat
    BY <1>0, WideAssumption DEF Half
  <2>. QED
    BY <1>0, <1>3, <2>1, ScaledType DEF Transfer, TransferOK
<1>4. CASE Burn(tx)
  BY <1>0, <1>4, ConversionsType DEF Burn, BurnOK
<1>5. CASE List(tx)
  BY <1>0, <1>5, ConversionsType DEF List, ListOK
<1>6. CASE Buy(tx)
  <2>1. IsOpen(tx) => position[tx.order] \in PositionRow
    BY DEF Tx, IsOpen
  <2>. QED
    BY <1>0, <1>6, <2>1 DEF Buy, BuyOK, PositionRow, IsOpen
<1>7. CASE Delist(tx)
  <2>1. IsOpen(tx) => position[tx.order] \in PositionRow
    BY DEF Tx, IsOpen
  <2>. QED
    BY <1>0, <1>7, <2>1 DEF Delist, DelistOK, PositionRow, IsOpen
<1>8. CASE Other(tx)
  BY <1>0, <1>8 DEF Other
<1>. QED
  BY <1>1, <1>2, <1>3, <1>4, <1>5, <1>6, <1>7, <1>8 DEF Process
-----------------------------------------------------------------------------
(* The saves *)

\* Every save of a handler keeps the tables well typed; no debit takes a
\* balance below zero.
LEMMA SavePreservesType ==
    ASSUME NEW id \in TxId, NEW tx \in Tx,
           TypeOK, StepInv(tx), Save(id, tx)
    PROVE  TypeOK' /\ pc' \in Saves \cup {"done", "failed"}
<1>. USE DEF Goto, Saves, SaveHistory
<1>0. /\ tx.tick \in Ticker /\ tx.sender \in Addr /\ tx.dst \in Addr
      /\ tx.order \in TxId /\ tx.open \in Nat
      /\ Round(tx.amount) \in Units /\ Round(tx.lim) \in Units
      /\ Round(tx.pre) \in Units /\ 0 \in Units
  BY ConversionsType, WideAssumption DEF Tx, Units
<1>1. amt \in Units /\ amt \in Nat
  BY WideAssumption DEF TypeOK, Units
<1>2. token[tx.tick] # NoToken => token[tx.tick] \in TokenRow
  BY <1>0 DEF TypeOK
<1>3. CASE SaveToken(tx)
  BY <1>0, <1>3 DEF SaveToken, TypeOK, TokenRow
<1>4. CASE SaveMintHistory(id, tx)
  BY <1>4 DEF SaveMintHistory, TypeOK
<1>5. CASE SaveSupply(tx)
  <2>1. token[tx.tick] \in TokenRow
    BY <1>2, <1>5 DEF SaveSupply, StepInv
  <2>2. token'[tx.tick] \in TokenRow
    BY <1>0, <1>1, <2>1, <1>5 DEF SaveSupply, TypeOK, TokenRow
  <2>. QED
    BY <1>0, <1>5, <2>2 DEF SaveSupply, TypeOK
<1>6. CASE SaveDebit(tx)
  <2>1. holder[tx.tick][tx.sender] - amt \in Nat
    BY <1>0, <1>1, <1>6 DEF SaveDebit, StepInv, TypeOK, NoRow
  <2>. QED
    BY <1>0, <1>6, <2>1 DEF SaveDebit, TypeOK
<1>7. CASE SaveCredit(tx)
  <2>1. Recipient(tx) \in Addr
    BY <1>0 DEF Recipient
  <2>2. Balance(tx.tick, Recipient(tx)) + amt \in Nat
    BY <1>0, <1>1, <2>1 DEF Balance, TypeOK, NoRow
  <2>. QED
    BY <1>0, <1>7, <2>1, <2>2 DEF SaveCredit, TypeOK
<1>8. CASE SaveBurn(tx)
  <2>1. token[tx.tick] \in TokenRow
    BY <1>2, <1>8 DEF SaveBurn, StepInv
  <2>2. /\ token[tx.tick].circ \in Nat /\ token[tx.tick].cap \in Units
        /\ token[tx.tick].cap \in Nat
    BY <2>1, WideAssumption DEF TokenRow, Units
  <2>3. /\ Minus(token[tx.tick].circ, amt) \in Nat
        /\ Minus(token[tx.tick].cap, amt) \in Units
    BY <1>1, <2>2, MinusType
  <2>4. token'[tx.tick] \in TokenRow
    BY <1>0, <2>1, <2>3, <1>8 DEF SaveBurn, TypeOK, TokenRow
  <2>. QED
    BY <1>0, <1>8, <2>4 DEF SaveBurn, TypeOK
<1>9. CASE SavePosition(id, tx)
  BY <1>0, <1>9 DEF SavePosition, TypeOK, PositionRow
<1>10. CASE SaveFill(tx)
  <2>1. position[tx.order] \in PositionRow
    BY <1>0, <1>10 DEF SaveFill, StepInv, IsOpen, TypeOK
  <2>. QED
    BY <1>0, <1>10, <2>1 DEF SaveFill, TypeOK, PositionRow
<1>11. CASE SaveCancel(tx)
  <2>1. position[tx.order] \in PositionRow
    BY <1>0, <1>11 DEF SaveCancel, StepInv, IsOpen, TypeOK
  <2>. QED
    BY <1>0, <1>11, <2>1 DEF SaveCancel, TypeOK, PositionRow
<1>12. CASE SaveActionHistory(id, tx)
  BY <1>12 DEF SaveActionHistory, TypeOK
<1>13. CASE SaveTrade(id, tx)
  BY <1>13 DEF SaveTrade, TypeOK
<1>. QED
  BY <1>3, <1>4, <1>5, <1>6, <1>7, <1>8, <1>9, <1>10, <1>11, <1>12, <1>13
     DEF Save

\* Each save leads to a step of the same operation.
LEMMA SavePreservesStep ==
    ASSUME NEW id \in TxId, NEW tx \in Tx,
           TypeOK, StepInv(tx), Save(id, tx)
    PROVE  StepInv(tx)'
<1>. USE DEF Goto, SaveHistory, StepInv
<1>0. /\ tx.tick \in Ticker /\ tx.sender \in Addr /\ tx.pre \in Half
      /\ tx.order \in TxId
  BY DEF Tx
<1>1. amt \in Nat /\ amt' = amt
  BY WideAssumption DEF TypeOK, Units, Save, SaveToken, SaveMintHistory, SaveSupply,
     SaveDebit, SaveCredit, SaveBurn, SavePosition, SaveFill, SaveCancel,
     SaveActionHistory, SaveTrade
<1>3. CASE SaveToken(tx)
  BY <1>0, <1>1, <1>3, NoRowAssumption, ConversionsType
     DEF SaveToken, TypeOK, TokenRow, Tx, Half
<1>4. CASE SaveMintHistory(id, tx)
  BY <1>0, <1>4 DEF SaveMintHistory, TypeOK
<1>5. CASE SaveSupply(tx)
  BY <1>0, <1>5 DEF SaveSupply, TypeOK
<1>6. CASE SaveDebit(tx)
  BY <1>0, <1>6 DEF SaveDebit, TypeOK
<1>7. CASE SaveCredit(tx)
  BY <1>0, <1>7 DEF SaveCredit, TypeOK
<1>8. CASE SaveBurn(tx)
  BY <1>0, <1>8 DEF SaveBurn, TypeOK
<1>9. CASE SavePosition(id, tx)
  BY <1>0, <1>9 DEF SavePosition, TypeOK
<1>10. CASE SaveFill(tx)
  BY <1>0, <1>10 DEF SaveFill, TypeOK
<1>11. CASE SaveCancel(tx)
  BY <1>0, <1>11 DEF SaveCancel, TypeOK
<1>12. CASE SaveActionHistory(id, tx)
  BY <1>0, <1>12 DEF SaveActionHistory, TypeOK
<1>13. CASE SaveTrade(id, tx)
  BY <1>0, <1>13 DEF SaveTrade, TypeOK
<1>. QED
  BY <1>3, <1>4, <1>5, <1>6, <1>7, <1>8, <1>9, <1>10, <1>11, <1>12, <1>13
     DEF Save

\* The rows of a first run match the saves behind it, and only a first run
\* inserts rows for its transaction.
LEMMA SavePreservesRows ==
    ASSUME NEW id \in TxId, NEW tx \in Tx,
           TypeOK, HandlerInv(id, tx), Save(id, tx)
    PROVE  /\ RowsInv(id, tx)'
           /\ fresh' = fresh
           /\ ~fresh => history' = history /\ trades' = trades
           /\ \A i \in TxId \ {id} : history'[i] = history[i] /\ trades'[i] = trades[i]
           /\ \A i \in TxId : position[i] = NoPosition /\ (i # id \/ ~fresh)
                               => position'[i] = NoPosition
<1>. USE DEF Goto, SaveHistory, HandlerInv, StepInv, RowsInv, HistoryRows, TradeRows
<1>0. tx.order \in TxId /\ tx.pre \in Nat
  BY WideAssumption DEF Tx, Half
<1>3. CASE SaveToken(tx)
  BY <1>0, <1>3 DEF SaveToken, TypeOK
<1>4. CASE SaveMintHistory(id, tx)
  BY <1>0, <1>4 DEF SaveMintHistory, TypeOK
<1>5. CASE SaveSupply(tx)
  BY <1>0, <1>5 DEF SaveSupply, TypeOK
<1>6. CASE SaveDebit(tx)
  BY <1>0, <1>6 DEF SaveDebit, TypeOK
<1>7. CASE SaveCredit(tx)
  BY <1>0, <1>7 DEF SaveCredit, TypeOK
<1>8. CASE SaveBurn(tx)
  BY <1>0, <1>8 DEF SaveBurn, TypeOK
<1>9. CASE SavePosition(id, tx)
  BY <1>0, <1>9 DEF SavePosition, TypeOK
<1>10. CASE SaveFill(tx)
  BY <1>0, <1>10 DEF SaveFill, TypeOK, IsOpen
<1>11. CASE SaveCancel(tx)
  BY <1>0, <1>11 DEF SaveCancel, TypeOK, IsOpen
<1>12. CASE SaveActionHistory(id, tx)
  BY <1>0, <1>12 DEF SaveActionHistory, TypeOK
<1>13. CASE SaveTrade(id, tx)
  BY <1>0, <1>13 DEF SaveTrade, TypeOK
<1>. QED
  BY <1>3, <1>4, <1>5, <1>6, <1>7, <1>8, <1>9, <1>10, <1>11, <1>12, <1>13
     DEF Save
-----------------------------------------------------------------------------
(* The block loop *)

\* A block is a sequence of submitted transactions.
LEMMA BlockIsSeq ==
    ASSUME NEW b \in Block
    PROVE  /\ b \in Seq(Submissions) /\ Len(b) \in 0 .. BlockSize
           /\ DOMAIN b = 1 .. Len(b)
<1>1. PICK n \in 0 .. BlockSize : b \in [1 .. n -> Submissions]
  BY DEF Block
<1>2. b \in Seq(Submissions) /\ Len(b) = n
  BY <1>1, IndexerAssumption
<1>. QED
  BY <1>1, <1>2

\* While a transaction is at hand, it is one of the block's.
LEMMA CurrentType ==
    ASSUME IndexerTypeOK, LoopInv, pc \notin {"idle", "commit"}
    PROVE  Id \in TxId /\ Current \in Tx /\ idx \in 1 .. Len(chain[cur])
<1>1. cur \in 1 .. MaxHeight /\ idx \in 1 .. BlockSize
  BY IndexerAssumption DEF IndexerTypeOK, LoopTypeOK
<1>2. chain[cur] \in Block
  BY DEF IndexerTypeOK, LoopTypeOK
<1>3. idx \in DOMAIN chain[cur]
  BY DEF LoopInv
<1>. QED
  BY <1>1, <1>2, <1>3, BlockIsSeq, IndexerAssumption DEF Id, Current

\* The invariant holds when the operator has seeded the status row.
LEMMA InitEstablishes == IndexerInit => IndexerInv
<1>. SUFFICES ASSUME IndexerInit PROVE IndexerInv
  OBVIOUS
<1>. USE DEF IndexerInit, Init
<1>1. <<>> \in Block
  <2>1. <<>> \in [1 .. 0 -> Submissions]
    OBVIOUS
  <2>2. 0 \in 0 .. BlockSize
    BY IndexerAssumption
  <2>. QED
    BY <2>1, <2>2, Zenon DEF Block
<1>2. chain \in Seq(Block) /\ Len(chain) = 1 /\ chain[1] = <<>>
  BY <1>1
<1>3. IndexerTypeOK
  <2>1. TypeOK
    <3>1. token \in [Ticker -> TokenRow \cup {NoToken}]
      OBVIOUS
    <3>2. holder \in [Ticker -> [Addr -> Nat \cup {NoRow}]]
      OBVIOUS
    <3>3. position \in [TxId -> PositionRow \cup {NoPosition}]
      OBVIOUS
    <3>4. history \in [TxId -> Nat] /\ trades \in [TxId -> Nat]
      OBVIOUS
    <3>5. amt \in Units
      BY WideAssumption DEF Units
    <3>. QED
      BY <3>1, <3>2, <3>3, <3>4, <3>5 DEF TypeOK
  <2>2. LoopTypeOK
    BY <1>2, IndexerAssumption DEF LoopTypeOK, Status
  <2>. QED
    BY <2>1, <2>2 DEF IndexerTypeOK
<1>4. LoopInv /\ FreshInv
  BY <1>2 DEF LoopInv, FreshInv, AtHandler
<1>5. NoGap /\ RecordedOnce /\ SuccessIsRecorded
  <2>1. \A h \in DOMAIN chain : DOMAIN chain[h] = {}
    BY <1>2
  <2>2. NoGap
    BY <1>2, <2>1 DEF NoGap
  <2>3. SuccessIsRecorded
    BY <2>1 DEF SuccessIsRecorded
  <2>. QED
    BY <2>2, <2>3 DEF RecordedOnce
<1>. QED
  BY <1>3, <1>4, <1>5 DEF IndexerInv
-----------------------------------------------------------------------------
(* The step, one conjunct of the invariant at a time *)

\* A step of the handler keeps what is shown of one above, and the loop.
LEMMA HandleFacts ==
    ASSUME IndexerInv, Handle
    PROVE  /\ TypeOK' /\ HandlerInv(Id, Current)'
           /\ pc' \in Saves \cup {"done", "failed"}
           /\ fresh' = fresh /\ AtHandler
           /\ ~fresh => history' = history /\ trades' = trades
           /\ \A i \in TxId \ {Id} : history'[i] = history[i] /\ trades'[i] = trades[i]
           /\ \A i \in TxId : position[i] = NoPosition /\ (i # Id \/ ~fresh)
                               => position'[i] = NoPosition
           /\ Id' = Id /\ Current' = Current /\ UNCHANGED <<chain, loopVars, crashes>>
<1>1. AtHandler
  BY DEF Handle, AtHandler, Process, Save, Check, Deploy, Mint, Transfer, Burn, List, Buy,
     Delist, Other, SaveToken, SaveMintHistory, SaveHistory, SaveSupply, SaveDebit,
     SaveCredit, SaveBurn, SavePosition, SaveFill, SaveCancel, SaveActionHistory, SaveTrade
<1>2. Id \in TxId /\ Current \in Tx
  BY <1>1, CurrentType DEF IndexerInv, AtHandler
<1>3. TypeOK /\ HandlerInv(Id, Current)
  BY <1>1 DEF IndexerInv, IndexerTypeOK, FreshInv
<1>4. Id' = Id /\ Current' = Current /\ UNCHANGED <<chain, loopVars, crashes>>
  BY DEF Handle, loopVars, Id, Current
\* The transaction at hand is fixed during the step.
<1>5. PICK i0 \in TxId, tx0 \in Tx, now0 \in Int : i0 = Id /\ tx0 = Current /\ now0 = cur
  BY <1>2 DEF IndexerInv, IndexerTypeOK, LoopTypeOK
<1>6. TypeOK /\ HandlerInv(i0, tx0) /\ (Process(i0, tx0, now0) \/ Save(i0, tx0))
  BY <1>3, <1>5 DEF Handle
<1>7. CASE Process(i0, tx0, now0)
  <2>1. TypeOK' /\ HandlerInv(i0, tx0)' /\ pc' \in Saves \cup {"failed"}
    BY <1>6, <1>7, ProcessPreserves DEF HandlerInv
  <2>2. UNCHANGED <<tables, fresh>>
    BY <1>7 DEF Process, Check, Deploy, Mint, Transfer, Burn, List, Buy, Delist, Other
  <2>. QED
    BY <1>1, <1>4, <1>5, <2>1, <2>2 DEF tables
<1>8. CASE Save(i0, tx0)
  <2>1. TypeOK' /\ pc' \in Saves \cup {"done", "failed"}
    BY <1>6, <1>8, SavePreservesType DEF HandlerInv
  <2>2. StepInv(tx0)'
    BY <1>6, <1>8, SavePreservesStep DEF HandlerInv
  <2>3. /\ RowsInv(i0, tx0)'
        /\ fresh' = fresh
        /\ ~fresh => history' = history /\ trades' = trades
        /\ \A i \in TxId \ {i0} : history'[i] = history[i] /\ trades'[i] = trades[i]
        /\ \A i \in TxId : position[i] = NoPosition /\ (i # i0 \/ ~fresh)
                            => position'[i] = NoPosition
    BY <1>6, <1>8, SavePreservesRows
  <2>. QED
    BY <1>1, <1>4, <1>5, <2>1, <2>2, <2>3 DEF HandlerInv
<1>. QED
  BY <1>6, <1>7, <1>8

\* Every step keeps the tables and the loop's variables well typed.
LEMMA TypeStep == IndexerInv /\ [Next]_vars => IndexerTypeOK'
<1>. SUFFICES ASSUME IndexerInv, [Next]_vars PROVE IndexerTypeOK'
  OBVIOUS
<1>0. /\ TypeOK /\ LoopTypeOK /\ LoopInv
      /\ MaxHeight \in Nat /\ BlockSize \in Nat \ {0} /\ MaxCrashes \in Nat
      /\ 1 \in 1 .. BlockSize /\ 0 \in Units
  BY IndexerAssumption, WideAssumption DEF IndexerInv, IndexerTypeOK, Units
<1>. USE DEF IndexerTypeOK, TypeOK, LoopTypeOK
<1>1. CASE NewBlock
  <2>1. PICK b \in Block : chain' = Append(chain, b)
    BY <1>1 DEF NewBlock
  <2>2. chain' \in Seq(Block) /\ Len(chain') = Len(chain) + 1
    BY <1>0, <2>1
  <2>. QED
    BY <1>0, <1>1, <2>2 DEF NewBlock, cftVars, tables, loopVars
<1>2. CASE Poll
  BY <1>0, <1>2 DEF Poll, tables
<1>3. CASE InsertTx
  BY <1>0, <1>3 DEF InsertTx, tables, Status
<1>4. CASE Handle
  BY <1>0, <1>4, HandleFacts DEF loopVars
<1>5. CASE SaveStatus
  <2>1. chain[cur] \in Block
    BY <1>0
  <2>2. idx < Len(chain[cur]) => idx + 1 \in 1 .. BlockSize
    BY <1>0, <2>1, BlockIsSeq
  <2>. QED
    BY <1>0, <1>5, <2>2 DEF SaveStatus, NextInBlock, tables, Status
<1>6. CASE Commit
  BY <1>0, <1>6 DEF Commit, tables, LoopInv
<1>7. CASE Stop
  <2>1. TypeOK'
    BY <1>0, <1>7 DEF Stop, tables
  <2>2. LoopTypeOK'
    <3>1. crashes' \in 0 .. MaxCrashes
      BY <1>0, <1>7 DEF Stop
    <3>. QED
      BY <1>0, <1>7, <3>1 DEF Stop
  <2>. QED
    BY <2>1, <2>2
<1>8. CASE Start
  BY <1>0, <1>8 DEF Start, cftVars, tables
<1>9. CASE UNCHANGED vars
  BY <1>0, <1>9 DEF vars, cftVars, tables, loopVars
<1>. QED
  BY <1>1, <1>2, <1>3, <1>4, <1>5, <1>6, <1>7, <1>8, <1>9 DEF Next, Loop

\* Where the loop is in the block.
LEMMA LoopStep == IndexerInv /\ [Next]_vars => LoopInv'
<1>. SUFFICES ASSUME IndexerInv, [Next]_vars PROVE LoopInv'
  OBVIOUS
<1>0. /\ LoopInv /\ IndexerTypeOK /\ NoGap
      /\ chain \in Seq(Block) /\ lastProcessed \in 1 .. Len(chain) /\ cur \in 1 .. Len(chain)
      /\ idx \in 1 .. BlockSize /\ txRow \in [TxId -> Status]
  BY DEF IndexerInv, IndexerTypeOK, LoopTypeOK
<1>a. /\ chain[cur] \in Block /\ Len(chain[cur]) \in Nat
      /\ DOMAIN chain[cur] = 1 .. Len(chain[cur])
  BY <1>0, BlockIsSeq
<1>. USE DEF LoopInv, AtHandler, Id
<1>1. CASE NewBlock
  <2>1. PICK b \in Block : chain' = Append(chain, b)
    BY <1>1 DEF NewBlock
  <2>2. /\ Len(chain') = Len(chain) + 1
        /\ pc # "idle" => chain'[cur] = chain[cur]
    BY <1>0, <2>1
  <2>3. \A i \in TxId : i[1] \in Nat
    BY IndexerAssumption
  <2>4. UNCHANGED <<pc, lastProcessed, txRow, running, cur, idx>>
    BY <1>1 DEF NewBlock, cftVars, loopVars
  <2>. QED
    BY <1>0, <1>1, <2>2, <2>3, <2>4 DEF NewBlock
<1>2. CASE Poll
  <2>1. chain[cur] # <<>> => Len(chain[cur]) > 0
    BY <1>a, BlockIsSeq
  <2>2. chain[cur] = <<>> => DOMAIN chain[cur] = {}
    OBVIOUS
  <2>. QED
    BY <1>0, <1>2, <1>a, <2>1, <2>2 DEF Poll
<1>3. CASE InsertTx
  <2>1. Id \in TxId
    BY <1>0, <1>3, CurrentType DEF InsertTx
  <2>2. /\ txRow'[Id] # "none"
        /\ \A i \in TxId : txRow[i] # "none" => txRow'[i] # "none"
    BY <1>0, <1>3, <2>1 DEF InsertTx
  <2>3. \A k \in DOMAIN chain[cur] : k < idx => txRow'[<<cur, k>>] # "none"
    <3>1. \A k \in DOMAIN chain[cur] : <<cur, k>> \in TxId
      BY <1>0, <1>a, BlockIsSeq, IndexerAssumption DEF IndexerTypeOK, LoopTypeOK
    <3>. QED
      BY <1>0, <1>3, <2>2, <3>1 DEF InsertTx
  <2>. QED
    BY <1>0, <1>3, <2>2, <2>3 DEF InsertTx
<1>4. CASE Handle
  <2>1. /\ pc' \in Saves \cup {"done", "failed"} /\ AtHandler
        /\ UNCHANGED <<chain, lastProcessed, txRow, cur, idx, running>>
    BY <1>4, HandleFacts DEF loopVars
  <2>. QED
    BY <1>0, <2>1 DEF Saves
<1>5. CASE SaveStatus
  <2>1. Id \in TxId
    BY <1>0, <1>5, CurrentType DEF SaveStatus, NextInBlock
  <2>2. \A i \in TxId : txRow[i] # "none" => txRow'[i] # "none"
    BY <1>0, <1>5, <2>1 DEF SaveStatus, NextInBlock
  <2>3. \A k \in DOMAIN chain[cur] : <<cur, k>> \in TxId
    BY <1>0, <1>a, BlockIsSeq, IndexerAssumption DEF IndexerTypeOK, LoopTypeOK
  <2>4. \A k \in DOMAIN chain[cur] : k <= idx => txRow'[<<cur, k>>] # "none"
    <3>1. \A k \in DOMAIN chain[cur] : k <= idx => k = idx \/ k < idx
      BY <1>0, <1>a
    <3>. QED
      BY <1>0, <1>5, <2>2, <2>3, <3>1 DEF SaveStatus, NextInBlock
  <2>5. CASE idx < Len(chain[cur])
    <3>1. \A k \in DOMAIN chain[cur] : k < idx + 1 => k <= idx
      BY <1>0, <1>a
    <3>. QED
      BY <1>0, <1>5, <1>a, <2>4, <2>5, <3>1 DEF SaveStatus, NextInBlock
  <2>6. CASE ~(idx < Len(chain[cur]))
    <3>1. \A k \in DOMAIN chain[cur] : k <= idx
      BY <1>0, <1>a, <2>6
    <3>. QED
      BY <1>0, <1>5, <1>a, <2>4, <2>6, <3>1 DEF SaveStatus, NextInBlock
  <2>. QED
    BY <2>5, <2>6
<1>6. CASE Commit
  BY <1>0, <1>6 DEF Commit
<1>7. CASE Stop
  BY <1>0, <1>7 DEF Stop
<1>8. CASE Start
  BY <1>0, <1>8 DEF Start, cftVars
<1>9. CASE UNCHANGED vars
  BY <1>0, <1>9 DEF vars, cftVars, loopVars
<1>. QED
  BY <1>1, <1>2, <1>3, <1>4, <1>5, <1>6, <1>7, <1>8, <1>9 DEF Next, Loop

\* A run with an ID is on an unanswered row, and its handler is on track.
LEMMA FreshStep == IndexerInv /\ [Next]_vars => FreshInv'
<1>. SUFFICES ASSUME IndexerInv, [Next]_vars PROVE FreshInv'
  OBVIOUS
<1>0. /\ LoopInv /\ FreshInv /\ IndexerTypeOK /\ TypeOK
      /\ chain \in Seq(Block) /\ cur \in 1 .. Len(chain) /\ cur \in Nat
      /\ txRow \in [TxId -> Status] /\ history \in [TxId -> Nat] /\ trades \in [TxId -> Nat]
  BY DEF IndexerInv, IndexerTypeOK, LoopTypeOK, TypeOK
<1>. USE DEF FreshInv, AtHandler
<1>1. CASE NewBlock
  BY <1>0, <1>1 DEF NewBlock, cftVars, tables, loopVars
<1>2. CASE Poll
  BY <1>0, <1>2 DEF Poll, tables
<1>3. CASE InsertTx
  <2>1. Id \in TxId /\ Current \in Tx /\ Id' = Id /\ Current' = Current
    BY <1>0, <1>3, CurrentType DEF InsertTx, Id, Current
  <2>2. /\ fresh' => txRow'[Id] = "pending" /\ history'[Id] = 0 /\ trades'[Id] = 0
                        /\ position'[Id] = NoPosition
        /\ \A i \in TxId : txRow'[i] = "none" => txRow[i] = "none"
    BY <1>0, <1>3, <2>1 DEF InsertTx, tables
  <2>3. pc' = "process" /\ UNCHANGED tables
    BY <1>3 DEF InsertTx
  <2>4. HandlerInv(Id, Current)'
    BY <2>1, <2>2, <2>3 DEF HandlerInv, StepInv, RowsInv, HistoryRows, TradeRows
  <2>. QED
    BY <1>0, <2>1, <2>2, <2>3, <2>4 DEF tables
<1>4. CASE Handle
  <2>1. /\ HandlerInv(Id, Current)' /\ pc' \in Saves \cup {"done", "failed"}
        /\ fresh' = fresh /\ Id' = Id /\ txRow' = txRow /\ Id \in TxId
        /\ \A i \in TxId \ {Id} : history'[i] = history[i] /\ trades'[i] = trades[i]
        /\ \A i \in TxId : position[i] = NoPosition /\ (i # Id \/ ~fresh)
                            => position'[i] = NoPosition
        /\ txRow[Id] # "none" /\ AtHandler
    BY <1>0, <1>4, HandleFacts, CurrentType DEF loopVars, LoopInv
  <2>. QED
    BY <1>0, <2>1 DEF Saves
<1>5. CASE SaveStatus
  <2>1. Id \in TxId
    BY <1>0, <1>5, CurrentType DEF SaveStatus, NextInBlock
  <2>2. \A i \in TxId : txRow'[i] = "none" => txRow[i] = "none"
    BY <1>0, <1>5, <2>1 DEF SaveStatus, NextInBlock
  <2>. QED
    BY <1>0, <1>5, <2>2 DEF SaveStatus, NextInBlock, tables
<1>6. CASE Commit
  BY <1>0, <1>6 DEF Commit, tables
<1>7. CASE Stop
  BY <1>0, <1>7 DEF Stop, tables
<1>8. CASE Start
  BY <1>0, <1>8 DEF Start, cftVars, tables, LoopInv
<1>9. CASE UNCHANGED vars
  <2>1. HandlerInv(Id, Current)' = HandlerInv(Id, Current)
    BY <1>9 DEF vars, cftVars, tables, loopVars, HandlerInv, StepInv, RowsInv, Id, Current,
       IsOpen, HistoryRows, TradeRows
  <2>. QED
    BY <1>0, <1>9, <2>1 DEF vars, cftVars, tables, loopVars, Id
<1>. QED
  BY <1>1, <1>2, <1>3, <1>4, <1>5, <1>6, <1>7, <1>8, <1>9 DEF Next, Loop

\* No transaction of a recorded block lacks a row.
LEMMA NoGapStep == IndexerInv /\ [Next]_vars => NoGap'
<1>. SUFFICES ASSUME IndexerInv, [Next]_vars PROVE NoGap'
  OBVIOUS
<1>0. /\ LoopInv /\ NoGap /\ IndexerTypeOK
      /\ chain \in Seq(Block) /\ lastProcessed \in 1 .. Len(chain) /\ cur \in 1 .. Len(chain)
      /\ txRow \in [TxId -> Status]
  BY DEF IndexerInv, IndexerTypeOK, LoopTypeOK
<1>1. ASSUME UNCHANGED <<chain, lastProcessed>>,
             \A i \in TxId : txRow[i] # "none" => txRow'[i] # "none"
      PROVE  NoGap'
  <2>1. \A h \in 1 .. lastProcessed : \A k \in DOMAIN chain[h] : <<h, k>> \in TxId
    <3>. TAKE h \in 1 .. lastProcessed
    <3>1. chain[h] \in Block /\ h \in 1 .. MaxHeight
      BY <1>0, IndexerAssumption DEF IndexerTypeOK, LoopTypeOK
    <3>2. DOMAIN chain[h] = 1 .. Len(chain[h]) /\ Len(chain[h]) \in 0 .. BlockSize
      BY <3>1, BlockIsSeq
    <3>. QED
      BY <3>1, <3>2, IndexerAssumption
  <2>. QED
    BY <1>0, <1>1, <2>1 DEF NoGap
<1>2. CASE NewBlock
  <2>1. PICK b \in Block : chain' = Append(chain, b)
    BY <1>2 DEF NewBlock
  <2>2. \A h \in 1 .. lastProcessed : chain'[h] = chain[h]
    BY <1>0, <2>1
  <2>. QED
    BY <1>0, <1>2, <2>2 DEF NewBlock, loopVars, NoGap
<1>3. CASE InsertTx
  <2>1. Id \in TxId
    BY <1>0, <1>3, CurrentType DEF InsertTx
  <2>. QED
    BY <1>0, <1>1, <1>3, <2>1 DEF InsertTx
<1>4. CASE SaveStatus
  <2>1. Id \in TxId
    BY <1>0, <1>4, CurrentType DEF SaveStatus, NextInBlock
  <2>. QED
    BY <1>0, <1>1, <1>4, <2>1 DEF SaveStatus, NextInBlock
<1>5. CASE Commit
  <2>1. /\ \A h \in 1 .. lastProcessed' : h \in 1 .. lastProcessed \/ h = cur
        /\ \A k \in DOMAIN chain[cur] : txRow[<<cur, k>>] # "none"
        /\ chain' = chain /\ txRow' = txRow
    BY <1>0, <1>5 DEF Commit, LoopInv
  <2>. QED
    BY <1>0, <2>1 DEF NoGap
<1>6. CASE Handle
  BY <1>1, <1>6, HandleFacts DEF loopVars
<1>7. CASE Poll \/ Stop \/ Start \/ UNCHANGED vars
  BY <1>1, <1>7 DEF Poll, Stop, Start, vars, loopVars
<1>. QED
  BY <1>2, <1>3, <1>4, <1>5, <1>6, <1>7 DEF Next, Loop

\* Where the transactions of a block have their rows.
LEMMA ChainIds ==
    ASSUME IndexerTypeOK, NEW h \in DOMAIN chain, NEW k \in DOMAIN chain[h]
    PROVE  <<h, k>> \in TxId /\ chain[h][k] \in Tx
<1>1. chain[h] \in Block /\ h \in 1 .. MaxHeight
  BY IndexerAssumption DEF IndexerTypeOK, LoopTypeOK
<1>. QED
  BY <1>1, BlockIsSeq, IndexerAssumption

\* No step inserts a second row of history for a transaction.
LEMMA RecordedStep == IndexerInv /\ [Next]_vars => RecordedOnce'
<1>. SUFFICES ASSUME IndexerInv, [Next]_vars PROVE RecordedOnce'
  OBVIOUS
<1>1. CASE Handle
  <2>1. /\ HandlerInv(Id, Current)' /\ fresh' = fresh /\ Id' = Id /\ Id \in TxId
        /\ ~fresh => history' = history /\ trades' = trades
        /\ \A i \in TxId \ {Id} : history'[i] = history[i] /\ trades'[i] = trades[i]
    BY <1>1, HandleFacts, CurrentType DEF IndexerInv, AtHandler
  <2>2. RecordedOnce
    BY DEF IndexerInv
  <2>3. fresh => history'[Id] <= 1 /\ trades'[Id] <= history'[Id]
    BY <2>1 DEF HandlerInv, RowsInv, HistoryRows, TradeRows
  <2>. QED
    BY <2>1, <2>2, <2>3 DEF RecordedOnce
<1>2. CASE ~Handle
  <2>1. UNCHANGED <<history, trades>>
    BY <1>2 DEF Next, Loop, NewBlock, Poll, InsertTx, SaveStatus, Commit, Stop, Start, vars,
       cftVars, tables
  <2>. QED
    BY <2>1 DEF RecordedOnce, IndexerInv
<1>. QED
  BY <1>1, <1>2

\* No step reports success of a transaction whose rows are not all there,
\* and none removes rows of a transaction reported as successful.
LEMMA SuccessStep == IndexerInv /\ [Next]_vars => SuccessIsRecorded'
<1>. SUFFICES ASSUME IndexerInv, [Next]_vars PROVE SuccessIsRecorded'
  OBVIOUS
<1>0. /\ LoopInv /\ FreshInv /\ SuccessIsRecorded /\ IndexerTypeOK /\ IndexerTypeOK'
      /\ chain \in Seq(Block) /\ txRow \in [TxId -> Status] /\ cur \in 1 .. Len(chain)
      /\ Len(chain) \in Nat /\ history \in [TxId -> Nat] /\ trades \in [TxId -> Nat]
  BY TypeStep DEF IndexerInv, IndexerTypeOK, LoopTypeOK, TypeOK
<1>. SUFFICES ASSUME NEW h \in DOMAIN chain', NEW k \in DOMAIN chain'[h],
                     txRow'[<<h, k>>] = "success"
              PROVE  /\ history'[<<h, k>>] = HistoryRows(chain'[h][k])
                     /\ trades'[<<h, k>>] = TradeRows(chain'[h][k])
  BY DEF SuccessIsRecorded, HistoryRows, TradeRows
<1>. DEFINE i == <<h, k>>
<1>1. i \in TxId /\ i[1] = h
  <2>1. chain' \in Seq(Block) /\ Len(chain') \in 1 .. MaxHeight
    BY <1>0 DEF IndexerTypeOK, LoopTypeOK
  <2>2. chain'[h] \in Block /\ h \in 1 .. MaxHeight
    BY <2>1, IndexerAssumption
  <2>. QED
    BY <2>2, BlockIsSeq, IndexerAssumption
<1>2. ASSUME UNCHANGED <<chain, txRow, history, trades>>
      PROVE  history'[i] = HistoryRows(chain'[h][k]) /\ trades'[i] = TradeRows(chain'[h][k])
  BY <1>0, <1>2 DEF SuccessIsRecorded
<1>3. CASE NewBlock
  <2>1. PICK b \in Block : chain' = Append(chain, b)
    BY <1>3 DEF NewBlock
  <2>2. UNCHANGED <<txRow, history, trades>>
    BY <1>3 DEF NewBlock, cftVars, tables, loopVars
  <2>3. h < Len(chain)
    BY <1>0, <1>1, <2>1, <2>2 DEF LoopInv
  <2>4. h \in DOMAIN chain /\ chain'[h] = chain[h]
    BY <1>0, <2>1, <2>3
  <2>. QED
    BY <1>0, <2>2, <2>4 DEF SuccessIsRecorded
<1>4. CASE InsertTx
  <2>1. Id \in TxId
    BY <1>0, <1>4, CurrentType DEF InsertTx
  <2>2. txRow[i] = "success"
    BY <1>0, <1>1, <1>4, <2>1 DEF InsertTx
  <2>. QED
    BY <1>0, <1>4, <2>2 DEF InsertTx, tables, SuccessIsRecorded
<1>5. CASE Handle
  <2>1. /\ fresh => txRow[Id] = "pending"
        /\ ~fresh => history' = history /\ trades' = trades
        /\ \A j \in TxId \ {Id} : history'[j] = history[j] /\ trades'[j] = trades[j]
        /\ txRow' = txRow /\ chain' = chain
    BY <1>0, <1>5, HandleFacts DEF FreshInv, loopVars
  <2>. QED
    BY <1>0, <1>1, <2>1 DEF SuccessIsRecorded
<1>6. CASE SaveStatus
  <2>1. /\ Id \in TxId /\ UNCHANGED <<chain, history, trades>>
    BY <1>0, <1>6, CurrentType DEF SaveStatus, NextInBlock, tables
  <2>2. CASE txRow[i] = "success"
    BY <1>0, <2>1, <2>2 DEF SuccessIsRecorded
  <2>3. CASE txRow[i] # "success"
    <3>1. i = Id /\ fresh /\ pc = "done"
      BY <1>0, <1>1, <1>6, <2>1, <2>3 DEF SaveStatus, NextInBlock
    <3>2. HandlerInv(Id, Current)
      BY <1>0, <3>1 DEF FreshInv, AtHandler
    <3>3. h = cur /\ k = idx
      BY <3>1 DEF Id
    <3>. QED
      BY <2>1, <3>1, <3>2, <3>3 DEF HandlerInv, RowsInv, Current
  <2>. QED
    BY <2>2, <2>3
<1>7. CASE Poll \/ Commit \/ Stop \/ Start \/ UNCHANGED vars
  BY <1>2, <1>7 DEF Poll, Commit, Stop, Start, vars, cftVars, tables, loopVars
<1>. QED
  BY <1>3, <1>4, <1>5, <1>6, <1>7 DEF Next, Loop
-----------------------------------------------------------------------------
(* The theorems *)

\* IndexerInv holds in every state of the indexer: the types, where the loop
\* is in its block (indexBlocks), which rows the running handler has inserted
\* (Process), and the three properties of the next theorem.
THEOREM IndexerInvariant == Spec => []IndexerInv
<1>1. IndexerInv /\ [Next]_vars => IndexerInv'
  BY TypeStep, LoopStep, FreshStep, NoGapStep, RecordedStep, SuccessStep DEF IndexerInv
<1>. QED
  BY InitEstablishes, <1>1, PTL DEF Spec

\* Types: no balance of transfer, burn or list (cft20.go) goes below zero,
\* and the heights of indexBlocks stay on the chain.
THEOREM TypeCorrect == Spec => []IndexerTypeOK
<1>1. IndexerInv => IndexerTypeOK
  BY DEF IndexerInv
<1>. QED
  BY <1>1, IndexerInvariant, PTL

\* However often a block is processed again, its transactions leave one row of
\* history and at most one trade each: the foreign key on transaction_id turns
\* every later run away.
THEOREM HistoryOnce == Spec => []RecordedOnce
<1>1. IndexerInv => RecordedOnce
  BY DEF IndexerInv
<1>. QED
  BY <1>1, IndexerInvariant, PTL

\* indexBlocks reports success only of transactions whose handler inserted all
\* of its history, in the same run.
THEOREM SuccessRecorded == Spec => []SuccessIsRecorded
<1>1. IndexerInv => SuccessIsRecorded
  BY DEF IndexerInv
<1>. QED
  BY <1>1, IndexerInvariant, PTL

\* Whenever the indexer stops, it resumes at a height below which no
\* transaction lacks its row.
THEOREM NoGaps == Spec => []NoGap
<1>1. IndexerInv => NoGap
  BY DEF IndexerInv
<1>. QED
  BY <1>1, IndexerInvariant, PTL

\* Processing a block again never changes the status users were given:
\* indexBlocks saves a status only for a row it has just inserted.
THEOREM StatusFinal == Spec => StatusIsFinal
<1>1. IndexerInv /\ [Next]_vars =>
        [\A i \in TxId : txRow[i] \in {"success", "error"} => txRow'[i] = txRow[i]]_vars
  <2>. SUFFICES ASSUME IndexerInv, Next, NEW i \in TxId, txRow[i] \in {"success", "error"}
                PROVE  txRow'[i] = txRow[i]
    OBVIOUS
  <2>0. txRow \in [TxId -> Status] /\ LoopInv /\ FreshInv /\ IndexerTypeOK
    BY DEF IndexerInv, IndexerTypeOK, LoopTypeOK
  <2>1. CASE InsertTx
    <3>1. Id \in TxId
      BY <2>0, <2>1, CurrentType DEF InsertTx
    <3>. QED
      BY <2>0, <2>1, <3>1 DEF InsertTx
  <2>2. CASE SaveStatus
    <3>1. Id \in TxId /\ (fresh => txRow[Id] = "pending")
      BY <2>0, <2>2, CurrentType DEF SaveStatus, NextInBlock, FreshInv
    <3>. QED
      BY <2>0, <2>2, <3>1 DEF SaveStatus, NextInBlock
  <2>3. CASE NewBlock \/ Poll \/ Handle \/ Commit \/ Stop \/ Start
    BY <2>3 DEF NewBlock, Poll, Handle, Commit, Stop, Start, loopVars
  <2>. QED
    BY <2>1, <2>2, <2>3 DEF Next, Loop
<1>. QED
  BY <1>1, IndexerInvariant, PTL DEF Spec, StatusIsFinal

\* The height in the status row (indexBlocks) never moves back, so a restart
\* never processes a block below the last one recorded.
THEOREM HeightsAdvance == Spec => HeightAdvances
<1>1. IndexerInv /\ [Next]_vars => [lastProcessed' >= lastProcessed]_vars
  <2>. SUFFICES ASSUME IndexerInv, Next PROVE lastProcessed' >= lastProcessed
    OBVIOUS
  <2>1. /\ lastProcessed \in Int /\ cur \in {lastProcessed, lastProcessed + 1}
    BY DEF IndexerInv, IndexerTypeOK, LoopTypeOK, LoopInv
  <2>. QED
    BY <2>1 DEF Next, Loop, NewBlock, Poll, InsertTx, Handle, SaveStatus, Commit, Stop,
       Start, loopVars
<1>. QED
  BY <1>1, IndexerInvariant, PTL DEF Spec, HeightAdvances
-----------------------------------------------------------------------------
(* The units held and on their way *)

\* No sell position is of an amount with more decimals than its token has: of
\* such an amount List debits what is cut off and offers what is rounded.
WholeAmounts == \A t \in Submissions : t.op = "list" => t.amount % 2 = 0

\* Units of a token that the running handler has in hand.
Flight(t) ==
    IF pc \in {"credit", "burn", "position"} /\ Current.tick = t THEN amt ELSE 0

\* The units held and those on their way are covered by the supply, and until a
\* stop they are the supply.
Balanced ==
    \A t \in Ticker : token[t] # NoToken =>
        /\ Held(t) + Flight(t) <= token[t].circ
        /\ token[t].circ <= token[t].cap
        /\ crashes = 0 => Held(t) + Flight(t) = token[t].circ

\* Nobody holds or offers units of a ticker that has no token.
Unissued ==
    \A t \in Ticker : token[t] = NoToken =>
        /\ \A a \in Addr : holder[t][a] = NoRow
        /\ \A i \in TxId : position[i] # NoPosition => position[i].tick # t

\* A handler is at a save for a token that is there, or that it deploys.
OfToken ==
    /\ pc = "token" => token[Current.tick] = NoToken
    /\ pc \in {"mint", "supply", "debit", "credit", "burn", "position", "fill", "cancel"} =>
          token[Current.tick] # NoToken
    /\ pc = "position" => amt = Trunc(Current.amount)

\* Until a stop no transaction is run a second time.
FirstRuns ==
    crashes = 0 =>
        /\ running
        /\ AtHandler => fresh
        /\ \A i \in TxId : txRow[i] # "none" =>
              \/ i[1] < cur
              \/ /\ i[1] = cur /\ pc # "idle"
                 /\ i[2] < idx \/ (i[2] = idx /\ AtHandler) \/ pc = "commit"

UnitsInv == Unissued /\ OfToken /\ FirstRuns /\ Balanced
-----------------------------------------------------------------------------
(* The units of a token *)

LEMMA TxIdFinite == IsFiniteSet(TxId)
<1>. DEFINE heights == 1 .. MaxHeight
            places == 1 .. BlockSize
<1>1. IsFiniteSet(heights) /\ IsFiniteSet(places) /\ TxId = heights \X places
  BY FS_Interval, IndexerAssumption
<1>. HIDE DEF heights, places
<1>. QED
  BY <1>1, FS_Product

\* The sums that Held is made of.
LEMMA HeldCoins ==
    TypeOK => \A t \in Ticker :
        /\ balances(t) \in [Addr -> Nat] /\ escrows(t) \in [TxId -> Nat]
        /\ Worth(Addr, balances(t)) \in Nat /\ Worth(TxId, escrows(t)) \in Nat
        /\ Held(t) \in Nat
<1>. SUFFICES ASSUME TypeOK, NEW t \in Ticker
              PROVE  /\ balances(t) \in [Addr -> Nat] /\ escrows(t) \in [TxId -> Nat]
                     /\ Worth(Addr, balances(t)) \in Nat /\ Worth(TxId, escrows(t)) \in Nat
                     /\ Held(t) \in Nat
  OBVIOUS
<1>1. balances(t) \in [Addr -> Nat]
  <2>1. \A a \in Addr : Balance(t, a) \in Nat
    BY DEF TypeOK, Balance, NoRow
  <2>. QED
    BY <2>1 DEF balances
<1>2. escrows(t) \in [TxId -> Nat]
  <2>1. \A i \in TxId : EscrowOf(t, i) \in Nat
    BY WideAssumption DEF TypeOK, EscrowOf, PositionRow, Units
  <2>. QED
    BY <2>1 DEF escrows
<1>3. Worth(Addr, balances(t)) \in Nat /\ Worth(TxId, escrows(t)) \in Nat
  BY <1>1, <1>2, CoinsFinite, TxIdFinite, AddrAssumption
<1>. QED
  BY <1>1, <1>2, <1>3 DEF Held

LEMMA HeldCoinsNext ==
    TypeOK' => \A t \in Ticker :
        /\ balances(t)' \in [Addr -> Nat] /\ escrows(t)' \in [TxId -> Nat]
        /\ Worth(Addr, balances(t)') \in Nat /\ Worth(TxId, escrows(t)') \in Nat
        /\ Held(t)' \in Nat
<1>1. (TypeOK => \A t \in Ticker :
        /\ balances(t) \in [Addr -> Nat] /\ escrows(t) \in [TxId -> Nat]
        /\ Worth(Addr, balances(t)) \in Nat /\ Worth(TxId, escrows(t)) \in Nat
        /\ Held(t) \in Nat)'
  BY HeldCoins, PTL
<1>. QED
  BY <1>1 DEF Worth, Coins
-----------------------------------------------------------------------------
LEMMA HeldSame ==
    ASSUME TypeOK, TypeOK', NEW t \in Ticker,
           \A a \in Addr : Balance(t, a)' = Balance(t, a),
           \A i \in TxId : EscrowOf(t, i)' = EscrowOf(t, i)
    PROVE  Held(t)' = Held(t) /\ Held(t) \in Nat
<1>1. balances(t)' = balances(t) /\ escrows(t)' = escrows(t)
  BY DEF balances, escrows
<1>. QED
  BY <1>1, HeldCoins DEF Held, Worth, Coins

LEMMA HeldInBalance ==
    ASSUME TypeOK, TypeOK', NEW t \in Ticker, NEW a \in Addr,
           \A b \in Addr \ {a} : Balance(t, b)' = Balance(t, b),
           \A i \in TxId : EscrowOf(t, i)' = EscrowOf(t, i)
    PROVE  /\ Held(t)' + Balance(t, a) = Held(t) + Balance(t, a)'
           /\ Held(t) \in Nat /\ Held(t)' \in Nat
<1>1. escrows(t)' = escrows(t) /\ \A b \in Addr \ {a} : balances(t)'[b] = balances(t)[b]
  BY DEF balances, escrows
<1>2. balances(t)[a] = Balance(t, a) /\ balances(t)'[a] = Balance(t, a)'
  BY DEF balances
<1>3. balances(t) \in [Addr -> Nat] /\ balances(t)' \in [Addr -> Nat]
  BY HeldCoins, HeldCoinsNext
<1>4. Worth(Addr, balances(t)') + balances(t)[a] = Worth(Addr, balances(t)) + balances(t)'[a]
  BY <1>1, <1>3, OnePileChanges, AddrAssumption
<1>5. Balance(t, a) \in Nat /\ Balance(t, a)' \in Nat
  BY <1>2, <1>3
<1>6. Held(t)' = Worth(Addr, balances(t)') + Worth(TxId, escrows(t))
  BY <1>1 DEF Held, Worth, Coins
<1>. QED
  BY <1>2, <1>4, <1>5, <1>6, HeldCoins, HeldCoinsNext DEF Held

LEMMA HeldInPosition ==
    ASSUME TypeOK, TypeOK', NEW t \in Ticker, NEW i \in TxId,
           \A a \in Addr : Balance(t, a)' = Balance(t, a),
           \A j \in TxId \ {i} : EscrowOf(t, j)' = EscrowOf(t, j)
    PROVE  /\ Held(t)' + EscrowOf(t, i) = Held(t) + EscrowOf(t, i)'
           /\ Held(t) \in Nat /\ Held(t)' \in Nat
<1>1. balances(t)' = balances(t) /\ \A j \in TxId \ {i} : escrows(t)'[j] = escrows(t)[j]
  BY DEF balances, escrows
<1>2. escrows(t)[i] = EscrowOf(t, i) /\ escrows(t)'[i] = EscrowOf(t, i)'
  BY DEF escrows
<1>3. escrows(t) \in [TxId -> Nat] /\ escrows(t)' \in [TxId -> Nat]
  BY HeldCoins, HeldCoinsNext
<1>4. Worth(TxId, escrows(t)') + escrows(t)[i] = Worth(TxId, escrows(t)) + escrows(t)'[i]
  BY <1>1, <1>3, OnePileChanges, TxIdFinite
<1>5. EscrowOf(t, i) \in Nat /\ EscrowOf(t, i)' \in Nat
  BY <1>2, <1>3
<1>6. Held(t)' = Worth(Addr, balances(t)) + Worth(TxId, escrows(t)')
  BY <1>1 DEF Held, Worth, Coins
<1>. QED
  BY <1>2, <1>4, <1>5, <1>6, HeldCoins, HeldCoinsNext DEF Held

\* Of a ticker without a token nothing is held.
LEMMA NothingHeld ==
    ASSUME TypeOK, Unissued, NEW t \in Ticker, token[t] = NoToken
    PROVE  Held(t) = 0
<1>1. \A a \in Addr : balances(t)[a] = 0
  BY DEF Unissued, balances, Balance
<1>2. \A i \in TxId : escrows(t)[i] = 0
  BY DEF Unissued, escrows, EscrowOf
<1>3. Worth(Addr, balances(t)) = 0 /\ Worth(TxId, escrows(t)) = 0
  BY <1>1, <1>2, NoPiles
<1>. QED
  BY <1>3 DEF Held
-----------------------------------------------------------------------------
(* A save of the handler of tx *)

Handling(id, tx) ==
    /\ TypeOK /\ TypeOK' /\ HandlerInv(id, tx) /\ UnitsInv
    /\ Current = tx /\ Current' = tx /\ crashes' = crashes

Covered(t) ==
    /\ Held(t) + Flight(t) <= token[t].circ
    /\ token[t].circ <= token[t].cap
    /\ crashes = 0 => Held(t) + Flight(t) = token[t].circ

\* It is about one token.
LEMMA OneToken ==
    ASSUME NEW id \in TxId, NEW tx \in Tx, Handling(id, tx),
           \A t \in Ticker \ {tx.tick} :
              /\ token'[t] = token[t] /\ holder'[t] = holder[t]
              /\ \A i \in TxId : EscrowOf(t, i)' = EscrowOf(t, i),
           token'[tx.tick] # NoToken => Covered(tx.tick)'
    PROVE  Balanced'
<1>. SUFFICES ASSUME NEW t \in Ticker, token'[t] # NoToken PROVE Covered(t)'
  BY DEF Balanced, Covered
<1>1. CASE t = tx.tick
  BY <1>1
<1>2. CASE t # tx.tick
  <2>1. Flight(t) = 0 /\ Flight(t)' = 0
    BY <1>2 DEF Handling, Flight
  <2>2. Held(t)' = Held(t)
    BY <1>2, HeldSame DEF Handling, Balance
  <2>3. Covered(t) /\ token'[t] = token[t]
    BY <1>2 DEF Handling, UnitsInv, Balanced, Covered
  <2>. QED
    BY <2>1, <2>2, <2>3 DEF Covered, Handling
<1>. QED
  BY <1>1, <1>2

\* A save that moves no units.
LEMMA NothingMoves ==
    ASSUME NEW id \in TxId, NEW tx \in Tx, Handling(id, tx),
           UNCHANGED <<token, holder, position>>, Flight(tx.tick)' = Flight(tx.tick)
    PROVE  Balanced'
<1>1. \A t \in Ticker : /\ \A a \in Addr : Balance(t, a)' = Balance(t, a)
                        /\ \A i \in TxId : EscrowOf(t, i)' = EscrowOf(t, i)
  BY DEF Balance, EscrowOf
<1>2. token[tx.tick] # NoToken => Covered(tx.tick)
  BY DEF Handling, UnitsInv, Balanced, Covered, Tx
<1>3. Held(tx.tick)' = Held(tx.tick)
  BY <1>1, HeldSame DEF Handling, Tx
<1>. QED
  BY <1>1, <1>2, <1>3, OneToken DEF Covered, Handling
-----------------------------------------------------------------------------
LEMMA SaveTokenUnits ==
    ASSUME NEW id \in TxId, NEW tx \in Tx, Handling(id, tx), SaveToken(tx)
    PROVE  Balanced'
<1>0. tx.tick \in Ticker /\ TypeOK /\ TypeOK' /\ pc = "token"
  BY DEF Handling, SaveToken, Tx
<1>1. CASE fresh
  <2>1. token[tx.tick] = NoToken
    BY <1>0 DEF Handling, UnitsInv, OfToken
  <2>2. /\ token' = [token EXCEPT ![tx.tick] =
                [cap |-> Round(tx.amount), circ |-> 0, lim |-> Round(tx.lim),
                 pre |-> Round(tx.pre), open |-> tx.open]]
        /\ pc' \in {"mint", "done"} /\ UNCHANGED <<holder, position>>
    BY <1>1, Zenon DEF SaveToken, Goto
  <2>3. /\ token'[tx.tick].circ = 0 /\ token'[tx.tick].cap = Round(tx.amount)
        /\ \A t \in Ticker \ {tx.tick} : token'[t] = token[t]
    BY <1>0, <2>2 DEF TypeOK
  <2>4. Round(tx.amount) \in Nat
    BY ConversionsType DEF Tx, Units
  <2>5. /\ \A t \in Ticker, a \in Addr : Balance(t, a)' = Balance(t, a)
        /\ \A t \in Ticker, i \in TxId : EscrowOf(t, i)' = EscrowOf(t, i)
    BY <2>2 DEF Balance, EscrowOf
  <2>6. Held(tx.tick) = 0
    BY <1>0, <2>1, NothingHeld DEF Handling, UnitsInv
  <2>7. Held(tx.tick)' = 0
    BY <1>0, <2>5, <2>6, HeldSame
  <2>8. Flight(tx.tick)' = 0
    BY <2>2 DEF Flight
  <2>9. Covered(tx.tick)'
    BY <2>3, <2>4, <2>7, <2>8 DEF Covered
  <2>. QED
    BY <2>2, <2>3, <2>5, <2>9, OneToken
<1>2. CASE ~fresh
  BY <1>0, <1>2, NothingMoves DEF SaveToken, Goto, Flight
<1>. QED
  BY <1>1, <1>2

LEMMA SaveSupplyUnits ==
    ASSUME NEW id \in TxId, NEW tx \in Tx, Handling(id, tx), SaveSupply(tx)
    PROVE  Balanced'
<1>0. /\ tx.tick \in Ticker /\ TypeOK /\ TypeOK'
      /\ pc = "supply" /\ pc' = "credit" /\ amt' = amt /\ amt \in Nat
      /\ UNCHANGED <<holder, position>>
  BY WideAssumption DEF Handling, SaveSupply, Goto, Tx, TypeOK, Units
<1>1. token[tx.tick] # NoToken /\ token[tx.tick].circ + amt <= token[tx.tick].cap
  BY <1>0 DEF Handling, HandlerInv, StepInv
<1>2. Covered(tx.tick)
  BY <1>0, <1>1 DEF Handling, UnitsInv, Balanced, Covered
<1>3. /\ token'[tx.tick].circ = token[tx.tick].circ + amt
      /\ token'[tx.tick].cap = token[tx.tick].cap
      /\ token[tx.tick].circ \in Nat
      /\ \A t \in Ticker \ {tx.tick} : token'[t] = token[t]
  BY <1>0, <1>1 DEF SaveSupply, TypeOK, TokenRow
<1>4. /\ \A t \in Ticker, a \in Addr : Balance(t, a)' = Balance(t, a)
      /\ \A t \in Ticker, i \in TxId : EscrowOf(t, i)' = EscrowOf(t, i)
  BY <1>0 DEF Balance, EscrowOf
<1>5. Held(tx.tick)' = Held(tx.tick) /\ Held(tx.tick) \in Nat
  BY <1>0, <1>4, HeldSame
<1>6. Flight(tx.tick) = 0 /\ Flight(tx.tick)' = amt
  BY <1>0 DEF Flight, Handling
<1>7. Covered(tx.tick)'
  BY <1>0, <1>1, <1>2, <1>3, <1>5, <1>6 DEF Covered, Handling
<1>. QED
  BY <1>0, <1>3, <1>4, <1>7, OneToken

LEMMA SaveDebitUnits ==
    ASSUME NEW id \in TxId, NEW tx \in Tx, Handling(id, tx), SaveDebit(tx)
    PROVE  Balanced'
<1>0. /\ tx.tick \in Ticker /\ tx.sender \in Addr /\ TypeOK /\ TypeOK'
      /\ pc = "debit" /\ pc' \in {"credit", "burn", "position"} /\ amt' = amt /\ amt \in Nat
      /\ UNCHANGED <<token, position>>
  BY WideAssumption DEF Handling, SaveDebit, Goto, Tx, TypeOK, Units
<1>1. token[tx.tick] # NoToken /\ holder[tx.tick][tx.sender] >= amt
  BY <1>0 DEF Handling, HandlerInv, StepInv
<1>2. Covered(tx.tick) /\ token[tx.tick].circ \in Nat
  BY <1>0, <1>1 DEF Handling, UnitsInv, Balanced, Covered, TypeOK, TokenRow
<1>3. /\ \A t \in Ticker \ {tx.tick} : holder'[t] = holder[t]
      /\ \A b \in Addr \ {tx.sender} : holder'[tx.tick][b] = holder[tx.tick][b]
      /\ holder'[tx.tick][tx.sender] = holder[tx.tick][tx.sender] - amt
      /\ holder[tx.tick][tx.sender] \in Nat
  BY <1>0, <1>1 DEF SaveDebit, TypeOK, NoRow
<1>4. /\ \A b \in Addr \ {tx.sender} : Balance(tx.tick, b)' = Balance(tx.tick, b)
      /\ Balance(tx.tick, tx.sender)' + amt = Balance(tx.tick, tx.sender)
      /\ Balance(tx.tick, tx.sender)' \in Nat
      /\ \A t \in Ticker, i \in TxId : EscrowOf(t, i)' = EscrowOf(t, i)
  BY <1>0, <1>1, <1>3 DEF Balance, EscrowOf, NoRow
<1>5. /\ Held(tx.tick)' + amt = Held(tx.tick)
      /\ Held(tx.tick) \in Nat /\ Held(tx.tick)' \in Nat
  BY <1>0, <1>4, HeldInBalance
<1>6. Flight(tx.tick) = 0 /\ Flight(tx.tick)' = amt
  BY <1>0 DEF Flight, Handling
<1>7. Covered(tx.tick)'
  BY <1>0, <1>2, <1>5, <1>6 DEF Covered, Handling
<1>. QED
  BY <1>0, <1>3, <1>4, <1>7, OneToken

LEMMA SaveCreditUnits ==
    ASSUME NEW id \in TxId, NEW tx \in Tx, Handling(id, tx), SaveCredit(tx)
    PROVE  Balanced'
<1>. DEFINE to == Recipient(tx)
<1>0. /\ tx.tick \in Ticker /\ to \in Addr /\ TypeOK /\ TypeOK'
      /\ pc = "credit" /\ pc' \in {"done", "history"} /\ amt \in Nat
      /\ UNCHANGED <<token, position>>
  BY WideAssumption DEF Handling, SaveCredit, Goto, Tx, TypeOK, Units, Recipient
<1>1. token[tx.tick] # NoToken
  BY <1>0 DEF Handling, UnitsInv, OfToken
<1>2. Covered(tx.tick) /\ token[tx.tick].circ \in Nat
  BY <1>0, <1>1 DEF Handling, UnitsInv, Balanced, Covered, TypeOK, TokenRow
<1>3. Balance(tx.tick, to) \in Nat
  BY <1>0 DEF Balance, TypeOK, NoRow
<1>4. /\ \A t \in Ticker \ {tx.tick} : holder'[t] = holder[t]
      /\ \A b \in Addr \ {to} : holder'[tx.tick][b] = holder[tx.tick][b]
      /\ holder'[tx.tick][to] = Balance(tx.tick, to) + amt
  BY <1>0, <1>1 DEF SaveCredit, TypeOK
<1>5. /\ \A b \in Addr \ {to} : Balance(tx.tick, b)' = Balance(tx.tick, b)
      /\ \A t \in Ticker, i \in TxId : EscrowOf(t, i)' = EscrowOf(t, i)
  BY <1>0, <1>4 DEF Balance, EscrowOf
<1>6. Balance(tx.tick, to)' = Balance(tx.tick, to) + amt
  <2>1. holder'[tx.tick][to] # NoRow
    BY <1>0, <1>3, <1>4 DEF NoRow
  <2>2. Balance(tx.tick, to)' = holder'[tx.tick][to]
    BY <2>1 DEF Balance
  <2>. QED
    BY <1>4, <2>2
<1>. HIDE DEF to
<1>7. /\ Held(tx.tick)' = Held(tx.tick) + amt
      /\ Held(tx.tick) \in Nat /\ Held(tx.tick)' \in Nat
  BY <1>0, <1>3, <1>5, <1>6, HeldInBalance
<1>8. Flight(tx.tick) = amt /\ Flight(tx.tick)' = 0
  BY <1>0 DEF Flight, Handling
<1>9. Covered(tx.tick)'
  BY <1>0, <1>2, <1>7, <1>8 DEF Covered, Handling
<1>. QED
  BY <1>0, <1>4, <1>5, <1>9, OneToken
-----------------------------------------------------------------------------
\* What is burned circulates, so that no subtraction wraps.
LEMMA BurnSubtracts ==
    ASSUME NEW id \in TxId, NEW tx \in Tx, Handling(id, tx), SaveBurn(tx)
    PROVE  /\ token[tx.tick] # NoToken /\ amt <= token[tx.tick].circ
           /\ token'[tx.tick] # NoToken
           /\ token'[tx.tick].circ = token[tx.tick].circ - amt
           /\ token'[tx.tick].cap = token[tx.tick].cap - amt
           /\ \A t \in Ticker \ {tx.tick} : token'[t] = token[t]
<1>0. /\ tx.tick \in Ticker /\ TypeOK /\ pc = "burn" /\ amt \in Nat
  BY WideAssumption DEF Handling, SaveBurn, Tx, TypeOK, Units
<1>1. token[tx.tick] # NoToken /\ token[tx.tick] \in TokenRow
  BY <1>0 DEF Handling, UnitsInv, OfToken, TypeOK
<1>2. Held(tx.tick) \in Nat
  BY <1>0, HeldCoins
<1>3. Flight(tx.tick) = amt
  BY <1>0 DEF Flight, Handling
<1>4. amt <= token[tx.tick].circ /\ amt <= token[tx.tick].cap
  <2>1. /\ Held(tx.tick) + amt <= token[tx.tick].circ
        /\ token[tx.tick].circ <= token[tx.tick].cap
    BY <1>0, <1>1, <1>3 DEF Handling, UnitsInv, Balanced
  <2>2. token[tx.tick].circ \in Nat /\ token[tx.tick].cap \in Nat
    BY <1>1, WideAssumption DEF TokenRow, Units
  <2>. QED
    BY <1>0, <1>2, <2>1, <2>2
<1>5. /\ Minus(token[tx.tick].circ, amt) = token[tx.tick].circ - amt
      /\ Minus(token[tx.tick].cap, amt) = token[tx.tick].cap - amt
  BY <1>4 DEF Minus
<1>6. token' = [token EXCEPT ![tx.tick].circ = Minus(@, amt), ![tx.tick].cap = Minus(@, amt)]
  BY DEF SaveBurn
<1>7. /\ token'[tx.tick] = [token[tx.tick] EXCEPT !.circ = Minus(@, amt), !.cap = Minus(@, amt)]
      /\ \A t \in Ticker \ {tx.tick} : token'[t] = token[t]
  BY <1>0, <1>6 DEF TypeOK
<1>8. /\ token'[tx.tick].circ = Minus(token[tx.tick].circ, amt)
      /\ token'[tx.tick].cap = Minus(token[tx.tick].cap, amt)
  BY <1>1, <1>7 DEF TokenRow
<1>9. token'[tx.tick] # NoToken
  <2>1. token'[tx.tick] \in TokenRow
    <3>1. Minus(token[tx.tick].cap, amt) \in Units
      BY <1>0, <1>1, <1>4, <1>5, WideAssumption DEF TokenRow, Units
    <3>2. Minus(token[tx.tick].circ, amt) \in Nat
      BY <1>0, <1>1, <1>4, <1>5 DEF TokenRow
    <3>. QED
      BY <1>1, <1>7, <3>1, <3>2 DEF TokenRow
  <2>. QED
    BY <2>1, NoRowAssumption
<1>. QED
  BY <1>1, <1>4, <1>5, <1>7, <1>8, <1>9

LEMMA SaveBurnUnits ==
    ASSUME NEW id \in TxId, NEW tx \in Tx, Handling(id, tx), SaveBurn(tx)
    PROVE  Balanced'
<1>0. /\ tx.tick \in Ticker /\ TypeOK /\ TypeOK'
      /\ pc = "burn" /\ pc' = "history" /\ amt \in Nat
      /\ UNCHANGED <<holder, position>>
  BY WideAssumption DEF Handling, SaveBurn, Goto, Tx, TypeOK, Units
<1>1. /\ token[tx.tick] # NoToken
      /\ token'[tx.tick].circ = token[tx.tick].circ - amt
      /\ token'[tx.tick].cap = token[tx.tick].cap - amt
      /\ \A t \in Ticker \ {tx.tick} : token'[t] = token[t]
  BY BurnSubtracts
<1>2. Covered(tx.tick) /\ token[tx.tick].circ \in Nat /\ token[tx.tick].cap \in Nat
  BY <1>0, <1>1, WideAssumption
     DEF Handling, UnitsInv, Balanced, Covered, TypeOK, TokenRow, Units
<1>3. /\ \A t \in Ticker, a \in Addr : Balance(t, a)' = Balance(t, a)
      /\ \A t \in Ticker, i \in TxId : EscrowOf(t, i)' = EscrowOf(t, i)
  BY <1>0 DEF Balance, EscrowOf
<1>4. Held(tx.tick)' = Held(tx.tick) /\ Held(tx.tick) \in Nat
  BY <1>0, <1>3, HeldSame
<1>5. Flight(tx.tick) = amt /\ Flight(tx.tick)' = 0
  BY <1>0 DEF Flight, Handling
<1>6. Covered(tx.tick)'
  BY <1>0, <1>1, <1>2, <1>4, <1>5 DEF Covered, Handling
<1>. QED
  BY <1>0, <1>1, <1>3, <1>6, OneToken

LEMMA WholeIsExact ==
    ASSUME NEW h \in Nat, h % 2 = 0
    PROVE  Trunc(h) = Round(h)
BY DEF Trunc, Round

LEMMA SavePositionUnits ==
    ASSUME NEW id \in TxId, NEW tx \in Tx, Handling(id, tx), SavePosition(id, tx),
           tx.op = "list" => tx.amount % 2 = 0
    PROVE  Balanced'
<1>0. /\ tx.tick \in Ticker /\ TypeOK /\ TypeOK' /\ amt \in Nat
      /\ pc = "position" /\ pc' \in {"history", "failed"}
      /\ UNCHANGED <<token, holder>>
  BY WideAssumption DEF Handling, SavePosition, Goto, Tx, TypeOK, Units
<1>1. Covered(tx.tick) /\ token[tx.tick].circ \in Nat
  BY <1>0 DEF Handling, UnitsInv, OfToken, Balanced, Covered, TypeOK, TokenRow
<1>2. Flight(tx.tick) = amt /\ Flight(tx.tick)' = 0
  BY <1>0 DEF Flight, Handling
<1>3. \A t \in Ticker, a \in Addr : Balance(t, a)' = Balance(t, a)
  BY <1>0 DEF Balance
<1>4. CASE fresh
  <2>1. position[id] = NoPosition
    BY <1>0, <1>4 DEF Handling, HandlerInv, RowsInv
  <2>2. amt = Round(tx.amount)
    <3>1. tx.amount \in Nat /\ tx.op = "list"
      BY <1>0, WideAssumption DEF Tx, Half, Handling, HandlerInv, StepInv
    <3>2. amt = Trunc(tx.amount)
      BY <1>0 DEF Handling, UnitsInv, OfToken
    <3>. QED
      BY <3>1, <3>2, WholeIsExact
  <2>3. /\ position'[id] = [seller |-> tx.sender, tick |-> tx.tick,
                            amount |-> Round(tx.amount), state |-> "open"]
        /\ \A i \in TxId \ {id} : position'[i] = position[i]
    BY <1>0, <1>4 DEF SavePosition, TypeOK
  <2>4. position'[id] # NoPosition
    <3>1. Round(tx.amount) \in Units
      BY ConversionsType DEF Tx
    <3>2. position'[id] \in PositionRow
      BY <1>0, <2>3, <3>1 DEF PositionRow, Tx
    <3>. QED
      BY <3>2, NoRowAssumption
  <2>5. /\ \A t \in Ticker, i \in TxId \ {id} : EscrowOf(t, i)' = EscrowOf(t, i)
        /\ \A t \in Ticker \ {tx.tick} : EscrowOf(t, id)' = EscrowOf(t, id)
        /\ EscrowOf(tx.tick, id) = 0 /\ EscrowOf(tx.tick, id)' = amt
    BY <2>1, <2>2, <2>3, <2>4 DEF EscrowOf
  <2>6. /\ Held(tx.tick)' = Held(tx.tick) + amt
        /\ Held(tx.tick) \in Nat /\ Held(tx.tick)' \in Nat
    BY <1>0, <1>3, <2>5, HeldInPosition
  <2>7. Covered(tx.tick)'
    BY <1>0, <1>1, <1>2, <2>6 DEF Covered, Handling
  <2>8. \A t \in Ticker \ {tx.tick}, i \in TxId : EscrowOf(t, i)' = EscrowOf(t, i)
    BY <2>5
  <2>. QED
    BY <1>0, <2>7, <2>8, OneToken
<1>5. CASE ~fresh
  <2>1. crashes # 0
    BY <1>0, <1>5 DEF Handling, UnitsInv, FirstRuns, AtHandler
  <2>2. \A t \in Ticker, i \in TxId : EscrowOf(t, i)' = EscrowOf(t, i)
    BY <1>5 DEF EscrowOf, SavePosition
  <2>3. Held(tx.tick)' = Held(tx.tick) /\ Held(tx.tick) \in Nat
    BY <1>0, <1>3, <2>2, HeldSame
  <2>4. Covered(tx.tick)'
    BY <1>0, <1>1, <1>2, <2>1, <2>3 DEF Covered, Handling
  <2>. QED
    BY <1>0, <2>2, <2>4, OneToken
<1>. QED
  BY <1>4, <1>5

\* A position is closed: its units are on their way to the buyer or seller.
LEMMA ClosePositionUnits ==
    ASSUME NEW id \in TxId, NEW tx \in Tx, Handling(id, tx), SaveFill(tx) \/ SaveCancel(tx)
    PROVE  /\ position[tx.order] # NoPosition /\ amt = EscrowOf(tx.tick, tx.order)
           /\ EscrowOf(tx.tick, tx.order)' = 0
           /\ \A t \in Ticker, i \in TxId :
                 i # tx.order \/ t # tx.tick => EscrowOf(t, i)' = EscrowOf(t, i)
           /\ Balanced'
<1>0. /\ tx.tick \in Ticker /\ tx.order \in TxId /\ TypeOK /\ TypeOK' /\ amt \in Nat
      /\ pc \in {"fill", "cancel"} /\ pc' = "credit" /\ amt' = amt
      /\ UNCHANGED <<token, holder>>
  BY WideAssumption DEF Handling, SaveFill, SaveCancel, Goto, Tx, TypeOK, Units
<1>1. IsOpen(tx) /\ amt = position[tx.order].amount
  BY <1>0 DEF Handling, HandlerInv, StepInv
<1>2. Covered(tx.tick) /\ token[tx.tick].circ \in Nat
  BY <1>0 DEF Handling, UnitsInv, OfToken, Balanced, Covered, TypeOK, TokenRow
<1>3. Flight(tx.tick) = 0 /\ Flight(tx.tick)' = amt
  BY <1>0 DEF Flight, Handling
<1>4. \A t \in Ticker, a \in Addr : Balance(t, a)' = Balance(t, a)
  BY <1>0 DEF Balance
<1>5. /\ position'[tx.order].state # "open" /\ position'[tx.order].tick = tx.tick
      /\ \A i \in TxId \ {tx.order} : position'[i] = position[i]
  BY <1>0, <1>1 DEF SaveFill, SaveCancel, TypeOK, PositionRow, IsOpen
<1>6. /\ \A t \in Ticker, i \in TxId \ {tx.order} : EscrowOf(t, i)' = EscrowOf(t, i)
      /\ \A t \in Ticker \ {tx.tick} : EscrowOf(t, tx.order)' = EscrowOf(t, tx.order)
      /\ EscrowOf(tx.tick, tx.order) = amt /\ EscrowOf(tx.tick, tx.order)' = 0
  BY <1>0, <1>1, <1>5 DEF EscrowOf, IsOpen
<1>7. /\ Held(tx.tick)' + amt = Held(tx.tick)
      /\ Held(tx.tick) \in Nat /\ Held(tx.tick)' \in Nat
  BY <1>0, <1>4, <1>6, HeldInPosition
<1>8. Covered(tx.tick)'
  BY <1>0, <1>2, <1>3, <1>7 DEF Covered, Handling
<1>9. \A t \in Ticker \ {tx.tick}, i \in TxId : EscrowOf(t, i)' = EscrowOf(t, i)
  BY <1>6
<1>10. Balanced'
  BY <1>0, <1>8, <1>9, OneToken
<1>. QED
  BY <1>0, <1>1, <1>6, <1>10 DEF IsOpen
-----------------------------------------------------------------------------
\* No save takes a token's row away, and a deployment leaves one.
LEMMA TokenStays ==
    ASSUME NEW id \in TxId, NEW tx \in Tx, Handling(id, tx), Save(id, tx)
    PROVE  /\ \A t \in Ticker : token[t] # NoToken => token'[t] # NoToken
           /\ pc = "token" /\ pc' # "failed" => token'[tx.tick] # NoToken
<1>0. tx.tick \in Ticker /\ TypeOK /\ TypeOK' /\ amt \in Nat
  BY WideAssumption DEF Handling, Tx, TypeOK, Units
<1>1. CASE SaveToken(tx)
  <2>1. CASE fresh
    <3>1. token' = [token EXCEPT ![tx.tick] =
                [cap |-> Round(tx.amount), circ |-> 0, lim |-> Round(tx.lim),
                 pre |-> Round(tx.pre), open |-> tx.open]]
      BY <1>1, <2>1 DEF SaveToken
    <3>2. Round(tx.amount) \in Units /\ Round(tx.lim) \in Units /\ Round(tx.pre) \in Units
      BY ConversionsType DEF Tx
    <3>3. token'[tx.tick] \in TokenRow
      BY <1>0, <3>1, <3>2 DEF TypeOK, TokenRow, Tx
    <3>4. \A t \in Ticker \ {tx.tick} : token'[t] = token[t]
      BY <1>0, <3>1 DEF TypeOK
    <3>. QED
      BY <3>3, <3>4, NoRowAssumption
  <2>2. CASE ~fresh
    BY <1>1, <2>2 DEF SaveToken, Goto
  <2>. QED
    BY <2>1, <2>2
<1>2. CASE SaveSupply(tx)
  <2>1. token[tx.tick] \in TokenRow
    BY <1>0, <1>2 DEF Handling, UnitsInv, OfToken, SaveSupply, TypeOK
  <2>2. /\ token'[tx.tick] = [token[tx.tick] EXCEPT !.circ = @ + amt]
        /\ \A t \in Ticker \ {tx.tick} : token'[t] = token[t]
    BY <1>0, <1>2 DEF SaveSupply, TypeOK
  <2>3. token'[tx.tick] \in TokenRow
    BY <1>0, <2>1, <2>2 DEF TokenRow
  <2>. QED
    BY <1>2, <2>2, <2>3, NoRowAssumption DEF SaveSupply
<1>3. CASE SaveBurn(tx)
  BY <1>3, BurnSubtracts DEF SaveBurn
<1>4. CASE ~(SaveToken(tx) \/ SaveSupply(tx) \/ SaveBurn(tx))
  BY <1>4 DEF Save, SaveMintHistory, SaveHistory, SaveDebit, SaveCredit, SavePosition,
     SaveFill, SaveCancel, SaveActionHistory, SaveTrade
<1>. QED
  BY <1>1, <1>2, <1>3, <1>4

\* The checks of a handler find the token its saves are for.
LEMMA ProcessUnits ==
    ASSUME NEW id \in TxId, NEW tx \in Tx, NEW now \in Int, Handling(id, tx),
           Process(id, tx, now)
    PROVE  Unissued' /\ OfToken' /\ Balanced'
<1>1. UNCHANGED tables
  BY DEF Process, Check, Deploy, Mint, Transfer, Burn, List, Buy, Delist, Other
<1>2. Unissued'
  BY <1>1 DEF Handling, UnitsInv, Unissued, tables
<1>3. OfToken'
  <2>1. /\ pc' = "token" => token[tx.tick] = NoToken
        /\ pc' \in {"mint", "debit", "fill", "cancel"} => token[tx.tick] # NoToken
        /\ pc' \in {"token", "mint", "debit", "fill", "cancel", "failed"}
    BY DEF Process, Check, Deploy, Mint, Transfer, Burn, List, Buy, Delist, Other,
       DeployOK, MintOK, TransferOK, BurnOK, ListOK, BuyOK, DelistOK
  <2>. QED
    BY <1>1, <2>1 DEF OfToken, tables, Handling
<1>4. Balanced'
  <2>1. /\ pc = "process"
        /\ pc' \in {"token", "mint", "debit", "fill", "cancel", "failed"}
    BY DEF Process, Check, Deploy, Mint, Transfer, Burn, List, Buy, Delist, Other
  <2>2. Flight(tx.tick)' = 0 /\ Flight(tx.tick) = 0
    BY <2>1 DEF Flight
  <2>. QED
    BY <1>1, <2>2, NothingMoves DEF tables
<1>. QED
  BY <1>2, <1>3, <1>4

\* What a save writes is of the handler's token.
LEMMA SaveUnits ==
    ASSUME NEW id \in TxId, NEW tx \in Tx, Handling(id, tx), Save(id, tx),
           tx.op = "list" => tx.amount % 2 = 0
    PROVE  Unissued' /\ OfToken' /\ Balanced'
<1>0. tx.tick \in Ticker /\ TypeOK /\ TypeOK' /\ tx.order \in TxId
  BY DEF Handling, Tx
<1>1. /\ \A t \in Ticker : token[t] # NoToken => token'[t] # NoToken
      /\ pc = "token" /\ pc' # "failed" => token'[tx.tick] # NoToken
  BY TokenStays
<1>2. OfToken'
  <2>1. /\ pc' # "token"
        /\ pc' \in {"supply", "credit", "burn", "position"} =>
              pc \in {"mint", "supply", "debit", "fill", "cancel"}
        /\ pc' = "mint" => pc = "token"
        /\ pc' \notin {"debit", "fill", "cancel"}
        /\ pc' = "position" => pc = "debit" /\ tx.op \notin {"transfer", "burn"} /\ amt' = amt
    BY DEF Save, SaveToken, SaveMintHistory, SaveHistory, SaveSupply, SaveDebit,
       SaveCredit, SaveBurn, SavePosition, SaveFill, SaveCancel, SaveActionHistory,
       SaveTrade, Goto
  <2>2. pc' \in {"mint", "supply", "credit", "burn", "position"} => token'[tx.tick] # NoToken
    BY <1>0, <1>1, <2>1 DEF Handling, UnitsInv, OfToken
  <2>3. pc' = "position" => amt' = Trunc(tx.amount)
    BY <2>1 DEF Handling, HandlerInv, StepInv
  <2>. QED
    BY <2>1, <2>2, <2>3 DEF OfToken, Handling
<1>3. Unissued'
  <2>. SUFFICES ASSUME NEW t \in Ticker, token'[t] = NoToken
                PROVE  /\ \A a \in Addr : holder'[t][a] = NoRow
                       /\ \A i \in TxId : position'[i] # NoPosition => position'[i].tick # t
    BY DEF Unissued
  <2>1. /\ token[t] = NoToken
        /\ \A a \in Addr : holder[t][a] = NoRow
        /\ \A i \in TxId : position[i] # NoPosition => position[i].tick # t
    BY <1>1 DEF Handling, UnitsInv, Unissued
  <2>2. pc \in {"debit", "credit", "position", "fill", "cancel"} => t # tx.tick
    BY <2>1 DEF Handling, UnitsInv, OfToken
  <2>3. holder'[t] = holder[t]
    BY <1>0, <2>2 DEF Save, SaveToken, SaveMintHistory, SaveHistory, SaveSupply, SaveDebit,
       SaveCredit, SaveBurn, SavePosition, SaveFill, SaveCancel, SaveActionHistory,
       SaveTrade, TypeOK
  <2>4. \A i \in TxId : position'[i] # NoPosition => position'[i].tick # t
    <3>1. CASE SavePosition(id, tx) /\ fresh
      <4>1. /\ position'[id].tick = tx.tick
            /\ \A i \in TxId \ {id} : position'[i] = position[i]
        BY <1>0, <3>1 DEF SavePosition, TypeOK
      <4>. QED
        BY <2>1, <2>2, <3>1, <4>1 DEF SavePosition
    <3>2. CASE SaveFill(tx) \/ SaveCancel(tx)
      <4>1. position[tx.order] # NoPosition /\ position[tx.order].tick = tx.tick
        BY <3>2 DEF Handling, HandlerInv, StepInv, IsOpen, SaveFill, SaveCancel
      <4>2. /\ position'[tx.order].tick = tx.tick
            /\ \A i \in TxId \ {tx.order} : position'[i] = position[i]
        <5>1. position[tx.order] \in PositionRow
          BY <1>0, <4>1 DEF TypeOK
        <5>2. CASE SaveFill(tx)
          BY <1>0, <4>1, <5>1, <5>2 DEF SaveFill, TypeOK, PositionRow
        <5>3. CASE SaveCancel(tx)
          BY <1>0, <4>1, <5>1, <5>3 DEF SaveCancel, TypeOK, PositionRow
        <5>. QED
          BY <3>2, <5>2, <5>3
      <4>. QED
        BY <2>1, <2>2, <3>2, <4>2 DEF SaveFill, SaveCancel
    <3>3. CASE position' = position
      BY <2>1, <3>3
    <3>. QED
      BY <3>1, <3>2, <3>3 DEF Save, SaveToken, SaveMintHistory, SaveHistory, SaveSupply,
         SaveDebit, SaveCredit, SaveBurn, SavePosition, SaveActionHistory, SaveTrade
  <2>. QED
    BY <2>1, <2>3, <2>4
<1>4. Balanced'
  <2>1. CASE SaveMintHistory(id, tx) \/ SaveActionHistory(id, tx) \/ SaveTrade(id, tx)
    <3>1. UNCHANGED <<token, holder, position>>
      BY <2>1 DEF SaveMintHistory, SaveActionHistory, SaveHistory, SaveTrade
    <3>2. Flight(tx.tick) = 0 /\ Flight(tx.tick)' = 0
      BY <2>1 DEF SaveMintHistory, SaveActionHistory, SaveHistory, SaveTrade, Goto, Flight
    <3>. QED
      BY <3>1, <3>2, NothingMoves
  <2>. QED
    BY <2>1, SaveTokenUnits, SaveSupplyUnits, SaveDebitUnits, SaveCreditUnits,
       SaveBurnUnits, SavePositionUnits, ClosePositionUnits DEF Save
<1>. QED
  BY <1>2, <1>3, <1>4
-----------------------------------------------------------------------------
(* The invariant *)

LEMMA InitUnits == IndexerInit => UnitsInv
<1>. SUFFICES ASSUME IndexerInit PROVE UnitsInv
  OBVIOUS
<1>1. /\ \A t \in Ticker : token[t] = NoToken
      /\ \A t \in Ticker, a \in Addr : holder[t][a] = NoRow
      /\ \A i \in TxId : position[i] = NoPosition /\ txRow[i] = "none"
      /\ pc = "idle" /\ running
  BY DEF IndexerInit, Init
<1>. QED
  BY <1>1 DEF UnitsInv, Unissued, OfToken, FirstRuns, Balanced, AtHandler

\* A transaction at hand is one that was submitted.
LEMMA CurrentSubmitted ==
    ASSUME IndexerTypeOK, LoopInv, pc \notin {"idle", "commit"}
    PROVE  Current \in Submissions
<1>1. chain[cur] \in Block /\ idx \in DOMAIN chain[cur]
  BY DEF IndexerTypeOK, LoopTypeOK, LoopInv
<1>. QED
  BY <1>1, BlockIsSeq DEF Current

\* The state of a handler at a step of it.
LEMMA HandleIs ==
    ASSUME IndexerInv, UnitsInv, WholeAmounts, Handle
    PROVE  \E id \in TxId, tx \in Tx, now \in Int :
              /\ Handling(id, tx) /\ id = Id
              /\ Process(id, tx, now) \/ Save(id, tx)
              /\ tx.op = "list" => tx.amount % 2 = 0
<1>1. /\ AtHandler /\ TypeOK' /\ Current' = Current
      /\ UNCHANGED <<chain, loopVars, crashes>>
  BY HandleFacts
<1>2. Id \in TxId /\ Current \in Tx /\ Current \in Submissions
  BY <1>1, CurrentType, CurrentSubmitted DEF IndexerInv, AtHandler
<1>3. TypeOK /\ HandlerInv(Id, Current) /\ cur \in Int
  BY <1>1 DEF IndexerInv, IndexerTypeOK, LoopTypeOK, FreshInv
<1>4. PICK id \in TxId, tx \in Tx, now \in Int : id = Id /\ tx = Current /\ now = cur
  BY <1>2, <1>3
<1>5. Handling(id, tx)
  BY <1>1, <1>3, <1>4 DEF Handling
<1>6. Process(id, tx, now) \/ Save(id, tx)
  BY <1>4 DEF Handle
<1>7. tx.op = "list" => tx.amount % 2 = 0
  BY <1>2, <1>4 DEF WholeAmounts
<1>. QED
  BY <1>4, <1>5, <1>6, <1>7

\* A step that saves nothing in the tables keeps what is on its way, when it is
\* not a stop.
LEMMA TablesKept ==
    ASSUME TypeOK, TypeOK', UnitsInv, UNCHANGED tables, pc' # "token",
           pc' \notin {"mint", "supply", "debit", "credit", "burn", "position", "fill", "cancel"},
           \/ crashes' = crashes /\ pc \notin {"credit", "burn", "position"}
           \/ crashes' # 0
    PROVE  Unissued' /\ OfToken' /\ Balanced'
<1>1. Unissued' /\ OfToken'
  BY DEF UnitsInv, Unissued, OfToken, tables
<1>2. Balanced'
  <2>. SUFFICES ASSUME NEW t \in Ticker, token'[t] # NoToken PROVE Covered(t)'
    BY DEF Balanced, Covered
  <2>1. Covered(t) /\ token'[t] = token[t] /\ token[t].circ \in Nat
    BY DEF UnitsInv, Balanced, Covered, tables, TypeOK, TokenRow
  <2>2. Held(t)' = Held(t) /\ Held(t) \in Nat
    <3>1. /\ \A a \in Addr : Balance(t, a)' = Balance(t, a)
          /\ \A i \in TxId : EscrowOf(t, i)' = EscrowOf(t, i)
      BY DEF tables, Balance, EscrowOf
    <3>. QED
      BY <3>1, HeldSame
  <2>3. Flight(t)' = 0 /\ Flight(t) \in Nat
    BY WideAssumption DEF Flight, TypeOK, Units
  <2>4. crashes' = 0 => Flight(t) = 0 /\ crashes = 0
    BY DEF Flight
  <2>. QED
    BY <2>1, <2>2, <2>3, <2>4 DEF Covered
<1>. QED
  BY <1>1, <1>2

\* Until a stop the rows are those of the transactions behind the loop.
LEMMA FirstRunsStep == IndexerInv /\ FirstRuns /\ [Next]_vars => FirstRuns'
<1>. SUFFICES ASSUME IndexerInv, FirstRuns, [Next]_vars, crashes' = 0
              PROVE  /\ running'
                     /\ AtHandler' => fresh'
                     /\ \A i \in TxId : txRow'[i] # "none" =>
                           \/ i[1] < cur'
                           \/ /\ i[1] = cur' /\ pc' # "idle"
                              /\ \/ i[2] < idx'
                                 \/ i[2] = idx' /\ AtHandler'
                                 \/ pc' = "commit"
  BY DEF FirstRuns, AtHandler
<1>0. /\ cur \in Int /\ idx \in Int /\ crashes \in Nat /\ txRow \in [TxId -> Status]
      /\ \A i \in TxId : i[1] \in Int /\ i[2] \in Int
      /\ \A i \in TxId : i = <<i[1], i[2]>>
  BY IndexerAssumption DEF IndexerInv, IndexerTypeOK, LoopTypeOK
<1>1. crashes = 0
  BY <1>0 DEF Next, NewBlock, Loop, Poll, InsertTx, Handle, SaveStatus, Commit, Stop, Start, vars
<1>2. /\ running
      /\ AtHandler => fresh
      /\ \A i \in TxId : txRow[i] # "none" =>
            \/ i[1] < cur
            \/ /\ i[1] = cur /\ pc # "idle"
               /\ i[2] < idx \/ (i[2] = idx /\ AtHandler) \/ pc = "commit"
  BY <1>1 DEF FirstRuns
<1>. USE DEF AtHandler
<1>3. CASE NewBlock
  BY <1>2, <1>3 DEF NewBlock, cftVars, loopVars
<1>4. CASE Poll
  BY <1>2, <1>4 DEF Poll
<1>5. CASE InsertTx
  <2>1. Id \in TxId /\ Id = <<cur, idx>>
    BY <1>5, CurrentType DEF InsertTx, IndexerInv, Id
  <2>2. txRow[Id] = "none"
    BY <1>0, <1>2, <1>5, <2>1 DEF InsertTx
  <2>3. \A i \in TxId : txRow'[i] # "none" => i = Id \/ txRow[i] # "none"
    BY <1>0, <1>5, <2>1 DEF InsertTx
  <2>. QED
    BY <1>0, <1>2, <1>5, <2>1, <2>2, <2>3 DEF InsertTx
<1>6. CASE Handle
  <2>1. /\ pc' \in Saves \cup {"done", "failed"} /\ AtHandler /\ fresh' = fresh
        /\ UNCHANGED <<txRow, cur, idx, running>>
    BY <1>6, HandleFacts DEF loopVars
  <2>. QED
    BY <1>2, <2>1 DEF Saves
<1>7. CASE SaveStatus
  <2>1. /\ Id \in TxId /\ Id = <<cur, idx>>
    BY <1>7, CurrentType DEF SaveStatus, NextInBlock, IndexerInv, Id
  <2>2. \A i \in TxId : txRow'[i] # "none" => i = Id \/ txRow[i] # "none"
    BY <1>0, <1>7, <2>1 DEF SaveStatus, NextInBlock
  <2>3. \A i \in TxId : txRow'[i] # "none" => i[1] < cur \/ (i[1] = cur /\ i[2] <= idx)
    BY <1>0, <1>2, <1>7, <2>1, <2>2 DEF SaveStatus, NextInBlock
  <2>. QED
    BY <1>0, <1>2, <1>7, <2>3 DEF SaveStatus, NextInBlock
<1>8. CASE Commit
  BY <1>0, <1>2, <1>8 DEF Commit
<1>9. CASE Stop
  BY <1>0, <1>9 DEF Stop
<1>10. CASE Start
  BY <1>2, <1>10 DEF Start
<1>11. CASE UNCHANGED vars
  BY <1>2, <1>11 DEF vars, cftVars, loopVars
<1>. QED
  BY <1>3, <1>4, <1>5, <1>6, <1>7, <1>8, <1>9, <1>10, <1>11 DEF Next, Loop

LEMMA UnitsStep ==
    ASSUME WholeAmounts
    PROVE  IndexerInv /\ UnitsInv /\ [Next]_vars => UnitsInv'
<1>. SUFFICES ASSUME IndexerInv, UnitsInv, [Next]_vars PROVE UnitsInv'
  OBVIOUS
<1>1. TypeOK /\ TypeOK' /\ LoopInv /\ crashes \in Nat /\ FirstRuns'
  BY TypeStep, FirstRunsStep, IndexerAssumption
     DEF IndexerInv, IndexerTypeOK, LoopTypeOK, UnitsInv
<1>2. CASE Handle
  <2>1. PICK id \in TxId, tx \in Tx, now \in Int :
              /\ Handling(id, tx) /\ id = Id
              /\ Process(id, tx, now) \/ Save(id, tx)
              /\ tx.op = "list" => tx.amount % 2 = 0
    BY <1>2, HandleIs
  <2>2. Unissued' /\ OfToken' /\ Balanced'
    BY <2>1, ProcessUnits, SaveUnits
  <2>. QED
    BY <1>1, <2>2 DEF UnitsInv
<1>3. CASE NewBlock \/ Poll \/ InsertTx \/ SaveStatus \/ Commit
  <2>1. /\ UNCHANGED <<tables, crashes>>
        /\ pc \in {"idle", "insert", "done", "failed", "commit"}
        /\ pc' \in {"idle", "insert", "process", "commit"}
    BY <1>3 DEF NewBlock, Poll, InsertTx, SaveStatus, NextInBlock, Commit, cftVars
  <2>. QED
    BY <1>1, <2>1, TablesKept DEF UnitsInv
<1>4. CASE Stop
  BY <1>1, <1>4, TablesKept DEF UnitsInv, Stop
<1>5. CASE Start
  BY <1>1, <1>5, TablesKept DEF UnitsInv, Start, LoopInv, cftVars
<1>6. CASE UNCHANGED vars
  <2>1. \A t \in Ticker : Flight(t)' = Flight(t)
    BY <1>6 DEF Flight, Current, vars, cftVars, loopVars
  <2>2. \A t \in Ticker : Held(t)' = Held(t)
    BY <1>6 DEF vars, cftVars, tables, Held, balances, escrows, EscrowOf,
       Balance, Worth, Coins
  <2>3. Balanced'
    BY <1>6, <2>1, <2>2 DEF UnitsInv, Balanced, vars, cftVars, tables
  <2>4. Unissued' /\ OfToken'
    BY <1>6 DEF UnitsInv, Unissued, OfToken, vars, cftVars, tables, Current, loopVars
  <2>. QED
    BY <1>1, <2>3, <2>4 DEF UnitsInv
<1>. QED
  BY <1>2, <1>3, <1>4, <1>5, <1>6 DEF Next, Loop
-----------------------------------------------------------------------------
(* The theorems *)

LEMMA UnitsInvariant ==
    ASSUME WholeAmounts
    PROVE  Spec => [](IndexerInv /\ UnitsInv)
<1>1. IndexerInit => IndexerInv /\ UnitsInv
  BY InitEstablishes, InitUnits
<1>2. IndexerInv /\ UnitsInv /\ [Next]_vars => (IndexerInv /\ UnitsInv)'
  BY UnitsStep, TypeStep, LoopStep, FreshStep, NoGapStep, RecordedStep, SuccessStep
     DEF IndexerInv
<1>. QED
  BY <1>1, <1>2, PTL DEF Spec

\* No sequence of operations, and no restart in the middle of one (indexBlocks),
\* puts more units into balances and open positions than circulate, or lets
\* more circulate than the token's maximum supply.
THEOREM UnitsBacked ==
    ASSUME WholeAmounts
    PROVE  Spec => []Backed
<1>1. IndexerInv /\ UnitsInv => Backed
  <2>. SUFFICES ASSUME IndexerInv, UnitsInv, NEW t \in Ticker, token[t] # NoToken
                PROVE  Held(t) <= token[t].circ /\ token[t].circ <= token[t].cap
    BY DEF Backed
  <2>1. TypeOK
    BY DEF IndexerInv, IndexerTypeOK
  <2>2. Held(t) \in Nat /\ Flight(t) \in Nat /\ token[t].circ \in Nat
    BY <2>1, HeldCoins, WideAssumption DEF Flight, TypeOK, Units, TokenRow
  <2>. QED
    BY <2>2 DEF UnitsInv, Balanced
<1>. QED
  BY <1>1, UnitsInvariant, PTL

\* Until a stop the indexer loses no unit either: between two transactions every
\* circulating unit is in a balance or an open position.
THEOREM UnitsConserved ==
    ASSUME WholeAmounts
    PROVE  Spec => []Conserved
<1>1. IndexerInv /\ UnitsInv => Conserved
  <2>. SUFFICES ASSUME IndexerInv, UnitsInv, crashes = 0, pc \in {"idle", "insert"},
                       NEW t \in Ticker, token[t] # NoToken
                PROVE  Held(t) = token[t].circ
    BY DEF Conserved
  <2>1. Held(t) \in Nat /\ Flight(t) = 0
    BY HeldCoins DEF IndexerInv, IndexerTypeOK, Flight
  <2>. QED
    BY <2>1 DEF UnitsInv, Balanced
<1>. QED
  BY <1>1, UnitsInvariant, PTL
-----------------------------------------------------------------------------
(* The ledger, place by place *)

Cap(t) == IF token[t] = NoToken THEN 0 ELSE token[t].cap
Circ(t) == IF token[t] = NoToken THEN 0 ELSE token[t].circ
Purse(t, a) == Balance(t, a) + InFlight(t, a)

LEMMA SameCap ==
    ASSUME \A t \in Ticker : Cap(t)' = Cap(t)
    PROVE  capOf' = capOf
BY Zenon DEF Cap, capOf

LEMMA SameSupply ==
    ASSUME \A t \in Ticker : Circ(t)' = Circ(t)
    PROVE  supplyOf' = supplyOf
BY Zenon DEF Circ, supplyOf

LEMMA SamePurses ==
    ASSUME \A t \in Ticker, a \in Addr : Purse(t, a)' = Purse(t, a)
    PROVE  balOf' = balOf
BY DEF Purse, balOf

LEMMA SameEscrow ==
    ASSUME \A t \in Ticker, i \in TxId : EscrowOf(t, i)' = EscrowOf(t, i)
    PROVE  escrowOf' = escrowOf
BY Zenon DEF escrowOf, escrows

LEMMA OneCap ==
    ASSUME NEW t \in Ticker, \A s \in Ticker \ {t} : Cap(s)' = Cap(s)
    PROVE  capOf' = [capOf EXCEPT ![t] = Cap(t)'] /\ capOf[t] = Cap(t)
BY DEF Cap, capOf

LEMMA OneSupply ==
    ASSUME NEW t \in Ticker, \A s \in Ticker \ {t} : Circ(s)' = Circ(s)
    PROVE  supplyOf' = [supplyOf EXCEPT ![t] = Circ(t)'] /\ supplyOf[t] = Circ(t)
BY DEF Circ, supplyOf

LEMMA OnePurse ==
    ASSUME NEW t \in Ticker, NEW a \in Addr,
           \A s \in Ticker, x \in Addr : s # t \/ x # a => Purse(s, x)' = Purse(s, x)
    PROVE  balOf' = [balOf EXCEPT ![t][a] = Purse(t, a)'] /\ balOf[t][a] = Purse(t, a)
BY DEF Purse, balOf

LEMMA OneEscrow ==
    ASSUME NEW t \in Ticker, NEW i \in TxId,
           \A s \in Ticker, j \in TxId : s # t \/ j # i => EscrowOf(s, j)' = EscrowOf(s, j)
    PROVE  /\ escrowOf' = [escrowOf EXCEPT ![t][i] = EscrowOf(t, i)']
           /\ escrowOf[t][i] = EscrowOf(t, i)
BY DEF escrowOf, escrows

\* What a handler has in hand.
LEMMA HandFlight ==
    ASSUME NEW tx, Current = tx, Current' = tx, NEW t \in Ticker, NEW a \in Addr
    PROVE  /\ Purse(t, a) =
                 Balance(t, a)
                   + IF /\ pc \in {"credit", "burn", "position"} /\ tx.tick = t
                        /\ a = IF pc = "credit" THEN Recipient(tx) ELSE tx.sender
                     THEN amt ELSE 0
           /\ Purse(t, a)' =
                 Balance(t, a)'
                   + IF /\ pc' \in {"credit", "burn", "position"} /\ tx.tick = t
                        /\ a = IF pc' = "credit" THEN Recipient(tx) ELSE tx.sender
                     THEN amt' ELSE 0
BY DEF Purse, InFlight, Recipient
-----------------------------------------------------------------------------
(* The saves as steps of the ledger *)

LedgerStep == \E n \in Units : Ledger!Step(n)
LedgerKept == UNCHANGED <<capOf, supplyOf, balOf, escrowOf>>

\* A step that moves no units is one of none.
LEMMA Stutters ==
    ASSUME UNCHANGED token,
           \A t \in Ticker, a \in Addr : Purse(t, a)' = Purse(t, a),
           \A t \in Ticker, i \in TxId : EscrowOf(t, i)' = EscrowOf(t, i)
    PROVE  LedgerKept
<1>1. \A t \in Ticker : Cap(t)' = Cap(t) /\ Circ(t)' = Circ(t)
  BY DEF Cap, Circ
<1>. QED
  BY <1>1, SameCap, SameSupply, SamePurses, SameEscrow DEF LedgerKept

LEMMA SaveTokenLedger ==
    ASSUME NEW id \in TxId, NEW tx \in Tx, Handling(id, tx), SaveToken(tx)
    PROVE  LedgerStep \/ LedgerKept
<1>0. tx.tick \in Ticker /\ tx.sender \in Addr /\ TypeOK /\ TypeOK' /\ pc = "token"
      /\ UNCHANGED <<holder, position>> /\ pc' \in {"mint", "done", "failed"}
  BY DEF Handling, SaveToken, Tx, Goto
<1>1. \A t \in Ticker, i \in TxId : EscrowOf(t, i)' = EscrowOf(t, i)
  BY <1>0 DEF EscrowOf
<1>2. \A t \in Ticker, a \in Addr : Purse(t, a)' = Purse(t, a)
  BY <1>0, HandFlight DEF Handling, Balance
<1>3. CASE fresh
  <2>1. token[tx.tick] = NoToken
    BY <1>0 DEF Handling, UnitsInv, OfToken
  <2>2. token' = [token EXCEPT ![tx.tick] =
                [cap |-> Round(tx.amount), circ |-> 0, lim |-> Round(tx.lim),
                 pre |-> Round(tx.pre), open |-> tx.open]]
    BY <1>3 DEF SaveToken
  <2>3. token'[tx.tick].cap = Round(tx.amount) /\ token'[tx.tick].circ = 0
    BY <1>0, <2>2 DEF TypeOK
  <2>4. token'[tx.tick] # NoToken
    <3>1. SaveToken(tx) /\ pc' # "failed"
      BY <1>3, Zenon DEF SaveToken, Goto
    <3>. QED
      BY <1>0, <3>1, TokenStays DEF Save
  <2>5. Round(tx.amount) \in Units
    BY ConversionsType DEF Tx
  <2>6. /\ Cap(tx.tick) = 0 /\ Cap(tx.tick)' = Round(tx.amount)
        /\ \A t \in Ticker \ {tx.tick} : Cap(t)' = Cap(t)
        /\ \A t \in Ticker : Circ(t)' = Circ(t)
    BY <1>0, <2>1, <2>2, <2>3, <2>4 DEF Cap, Circ, TypeOK
  <2>7. UNCHANGED <<supplyOf, balOf, escrowOf>>
    BY <1>1, <1>2, <2>6, SameSupply, SamePurses, SameEscrow
  <2>8. capOf' = [capOf EXCEPT ![tx.tick] = Round(tx.amount)] /\ capOf[tx.tick] = 0
    BY <1>0, <2>6, OneCap
  <2>9. Ledger!Found(tx.tick, Round(tx.amount))
    BY <2>7, <2>8 DEF Ledger!Found
  <2>. QED
    BY <1>0, <2>5, <2>9 DEF LedgerStep, Ledger!Step
<1>4. CASE ~fresh
  BY <1>1, <1>2, <1>4, Stutters DEF SaveToken
<1>. QED
  BY <1>3, <1>4

LEMMA SaveSupplyLedger ==
    ASSUME NEW id \in TxId, NEW tx \in Tx, Handling(id, tx), SaveSupply(tx)
    PROVE  LedgerStep
<1>. DEFINE to == Recipient(tx)
<1>0. /\ tx.tick \in Ticker /\ to \in Addr /\ TypeOK /\ TypeOK' /\ amt \in Units
      /\ pc = "supply" /\ pc' = "credit" /\ amt' = amt /\ amt \in Nat
      /\ UNCHANGED <<holder, position>>
  BY WideAssumption DEF Handling, SaveSupply, Goto, Tx, TypeOK, Units, Recipient
<1>1. token[tx.tick] # NoToken /\ token[tx.tick].circ + amt <= token[tx.tick].cap
  BY <1>0 DEF Handling, HandlerInv, StepInv
<1>2. /\ token'[tx.tick].circ = token[tx.tick].circ + amt
      /\ token'[tx.tick].cap = token[tx.tick].cap
      /\ token'[tx.tick] # NoToken
      /\ \A t \in Ticker \ {tx.tick} : token'[t] = token[t]
  <2>1. token'[tx.tick] # NoToken
    BY <1>0, <1>1, TokenStays DEF Save
  <2>. QED
    BY <1>0, <1>1, <2>1 DEF SaveSupply, TypeOK, TokenRow
<1>3. \A t \in Ticker, i \in TxId : EscrowOf(t, i)' = EscrowOf(t, i)
  BY <1>0 DEF EscrowOf
<1>4. /\ \A t \in Ticker : Cap(t)' = Cap(t)
      /\ \A t \in Ticker \ {tx.tick} : Circ(t)' = Circ(t)
      /\ Circ(tx.tick)' = Circ(tx.tick) + amt /\ Circ(tx.tick) + amt <= Cap(tx.tick)
  BY <1>0, <1>1, <1>2 DEF Cap, Circ
<1>5. /\ \A t \in Ticker, x \in Addr : t # tx.tick \/ x # to => Purse(t, x)' = Purse(t, x)
      /\ Purse(tx.tick, to)' = Purse(tx.tick, to) + amt
  <2>1. \A t \in Ticker, x \in Addr : Balance(t, x)' = Balance(t, x) /\ Balance(t, x) \in Nat
    BY <1>0 DEF Balance, TypeOK, NoRow
  <2>2. \A t \in Ticker, x \in Addr :
           /\ Purse(t, x) = Balance(t, x) + 0
           /\ Purse(t, x)' = Balance(t, x)' + IF tx.tick = t /\ x = to THEN amt ELSE 0
    BY <1>0, HandFlight DEF Handling
  <2>. HIDE DEF to
  <2>. QED
    BY <1>0, <2>1, <2>2
<1>. HIDE DEF to
<1>6. UNCHANGED <<capOf, escrowOf>>
  BY <1>3, <1>4, SameCap, SameEscrow
<1>7. /\ supplyOf' = [supplyOf EXCEPT ![tx.tick] = supplyOf[tx.tick] + amt]
      /\ supplyOf[tx.tick] + amt <= capOf[tx.tick]
  BY <1>0, <1>4, OneSupply, OneCap
<1>8. balOf' = [balOf EXCEPT ![tx.tick][to] = balOf[tx.tick][to] + amt]
  BY <1>0, <1>5, OnePurse
<1>9. Ledger!Issue(tx.tick, to, amt)
  BY <1>6, <1>7, <1>8 DEF Ledger!Issue
<1>. QED
  BY <1>0, <1>9 DEF LedgerStep, Ledger!Step

LEMMA SaveCreditLedger ==
    ASSUME NEW id \in TxId, NEW tx \in Tx, Handling(id, tx), SaveCredit(tx)
    PROVE  LedgerKept
<1>. DEFINE to == Recipient(tx)
<1>0. /\ tx.tick \in Ticker /\ to \in Addr /\ TypeOK /\ TypeOK' /\ amt \in Nat
      /\ pc = "credit" /\ pc' \in {"done", "history"}
      /\ UNCHANGED <<token, position>>
  BY WideAssumption DEF Handling, SaveCredit, Goto, Tx, TypeOK, Units, Recipient
<1>1. \A t \in Ticker, x \in Addr : Balance(t, x) \in Nat
  BY <1>0 DEF Balance, TypeOK, NoRow
<1>2. /\ \A t \in Ticker \ {tx.tick} : holder'[t] = holder[t]
      /\ \A x \in Addr \ {to} : holder'[tx.tick][x] = holder[tx.tick][x]
      /\ holder'[tx.tick][to] = Balance(tx.tick, to) + amt
  BY <1>0 DEF SaveCredit, TypeOK
<1>3. \A t \in Ticker, x \in Addr : t # tx.tick \/ x # to => Balance(t, x)' = Balance(t, x)
  BY <1>0, <1>2 DEF Balance
<1>4. Balance(tx.tick, to)' = Balance(tx.tick, to) + amt
  <2>1. holder'[tx.tick][to] # NoRow
    BY <1>0, <1>1, <1>2 DEF NoRow
  <2>2. Balance(tx.tick, to)' = holder'[tx.tick][to]
    BY <2>1 DEF Balance
  <2>. QED
    BY <1>2, <2>2
<1>5. \A t \in Ticker, x \in Addr :
         /\ Purse(t, x) = Balance(t, x) + IF tx.tick = t /\ x = to THEN amt ELSE 0
         /\ Purse(t, x)' = Balance(t, x)' + 0
  BY <1>0, HandFlight DEF Handling
<1>6. \A t \in Ticker, i \in TxId : EscrowOf(t, i)' = EscrowOf(t, i)
  BY <1>0 DEF EscrowOf
<1>. HIDE DEF to
<1>7. \A t \in Ticker, x \in Addr : Purse(t, x)' = Purse(t, x)
  BY <1>0, <1>1, <1>3, <1>4, <1>5
<1>. QED
  BY <1>0, <1>6, <1>7, Stutters
-----------------------------------------------------------------------------
LEMMA SaveDebitLedger ==
    ASSUME NEW id \in TxId, NEW tx \in Tx, Handling(id, tx), SaveDebit(tx)
    PROVE  LedgerStep \/ LedgerKept
<1>. DEFINE from == tx.sender
            to == tx.dst
            move == [x \in Addr |-> balOf[tx.tick][x] - (IF x = from THEN amt ELSE 0)
                                                      + (IF x = to THEN amt ELSE 0)]
<1>0. /\ tx.tick \in Ticker /\ from \in Addr /\ to \in Addr /\ TypeOK /\ TypeOK'
      /\ amt \in Nat /\ amt \in Units
      /\ pc = "debit" /\ amt' = amt /\ UNCHANGED <<token, position>>
  BY WideAssumption DEF Handling, SaveDebit, Goto, Tx, TypeOK, Units
<1>1. /\ tx.op \in {"transfer", "burn", "list"}
      /\ holder[tx.tick][from] >= amt
      /\ pc' = CASE tx.op = "transfer" -> "credit" [] tx.op = "burn" -> "burn"
                 [] OTHER -> "position"
  BY <1>0 DEF Handling, HandlerInv, StepInv, SaveDebit, Goto
<1>2. \A t \in Ticker, x \in Addr : Balance(t, x) \in Nat
  BY <1>0 DEF Balance, TypeOK, NoRow
<1>3. /\ \A t \in Ticker \ {tx.tick} : holder'[t] = holder[t]
      /\ \A x \in Addr \ {from} : holder'[tx.tick][x] = holder[tx.tick][x]
      /\ holder'[tx.tick][from] = holder[tx.tick][from] - amt
      /\ holder[tx.tick][from] \in Nat
  BY <1>0, <1>1 DEF SaveDebit, TypeOK, NoRow
<1>4. /\ \A t \in Ticker, x \in Addr : t # tx.tick \/ x # from => Balance(t, x)' = Balance(t, x)
      /\ Balance(tx.tick, from)' = Balance(tx.tick, from) - amt
      /\ amt <= Balance(tx.tick, from)
  BY <1>0, <1>1, <1>3 DEF Balance, NoRow
<1>5. \A t \in Ticker, i \in TxId : EscrowOf(t, i)' = EscrowOf(t, i)
  BY <1>0 DEF EscrowOf
<1>6. CASE tx.op = "transfer"
  <2>1. \A t \in Ticker, x \in Addr :
           /\ Purse(t, x) = Balance(t, x) + 0
           /\ Purse(t, x)' = Balance(t, x)' + IF tx.tick = t /\ x = to THEN amt ELSE 0
    BY <1>0, <1>1, <1>6, HandFlight DEF Handling, Recipient
  <2>. HIDE DEF from, to
  <2>2. \A t \in Ticker \ {tx.tick}, x \in Addr : Purse(t, x)' = Purse(t, x)
    BY <1>0, <1>2, <1>4, <2>1
  <2>3. \A x \in Addr :
           Purse(tx.tick, x)' = Purse(tx.tick, x) - (IF x = from THEN amt ELSE 0)
                                                  + (IF x = to THEN amt ELSE 0)
    BY <1>0, <1>2, <1>4, <2>1
  <2>4. \A x \in Addr : balOf[tx.tick][x] = Purse(tx.tick, x)
    BY <1>0 DEF balOf, Purse
  <2>5. balOf' = [balOf EXCEPT ![tx.tick] = [x \in Addr |-> Purse(tx.tick, x)']]
    BY <1>0, <2>2 DEF balOf, Purse
  <2>6. [x \in Addr |-> Purse(tx.tick, x)'] = move
    BY <2>3, <2>4
  <2>7. amt <= balOf[tx.tick][from]
    BY <1>0, <1>2, <1>4, <2>1, <2>4
  <2>8. UNCHANGED <<capOf, supplyOf, escrowOf>>
    BY <1>0, <1>5, SameEscrow DEF capOf, supplyOf
  <2>9. Ledger!Move(tx.tick, from, to, amt)
    BY <2>5, <2>6, <2>7, <2>8 DEF Ledger!Move
  <2>. QED
    BY <1>0, <2>9 DEF LedgerStep, Ledger!Step
<1>7. CASE tx.op # "transfer"
  <2>1. pc' \in {"burn", "position"}
    BY <1>1, <1>7
  <2>2. \A t \in Ticker, x \in Addr :
           /\ Purse(t, x) = Balance(t, x) + 0
           /\ Purse(t, x)' = Balance(t, x)' + IF tx.tick = t /\ x = from THEN amt ELSE 0
    BY <1>0, <2>1, HandFlight DEF Handling
  <2>. HIDE DEF from
  <2>3. \A t \in Ticker, x \in Addr : Purse(t, x)' = Purse(t, x)
    BY <1>0, <1>2, <1>4, <2>2
  <2>. QED
    BY <1>0, <1>5, <2>3, Stutters
<1>. QED
  BY <1>6, <1>7

LEMMA SaveBurnLedger ==
    ASSUME NEW id \in TxId, NEW tx \in Tx, Handling(id, tx), SaveBurn(tx)
    PROVE  LedgerStep
<1>. DEFINE from == tx.sender
<1>0. /\ tx.tick \in Ticker /\ from \in Addr /\ TypeOK /\ TypeOK'
      /\ amt \in Nat /\ amt \in Units
      /\ pc = "burn" /\ pc' = "history" /\ UNCHANGED <<holder, position>>
  BY WideAssumption DEF Handling, SaveBurn, Goto, Tx, TypeOK, Units
<1>1. /\ token[tx.tick] # NoToken /\ token'[tx.tick] # NoToken
      /\ token'[tx.tick].circ = token[tx.tick].circ - amt
      /\ token'[tx.tick].cap = token[tx.tick].cap - amt
      /\ \A t \in Ticker \ {tx.tick} : token'[t] = token[t]
  BY BurnSubtracts
<1>2. \A t \in Ticker, x \in Addr : Balance(t, x)' = Balance(t, x) /\ Balance(t, x) \in Nat
  BY <1>0 DEF Balance, TypeOK, NoRow
<1>3. \A t \in Ticker, i \in TxId : EscrowOf(t, i)' = EscrowOf(t, i)
  BY <1>0 DEF EscrowOf
<1>4. \A t \in Ticker, x \in Addr :
         /\ Purse(t, x) = Balance(t, x) + IF tx.tick = t /\ x = from THEN amt ELSE 0
         /\ Purse(t, x)' = Balance(t, x)' + 0
  BY <1>0, HandFlight DEF Handling
<1>. HIDE DEF from
<1>5. /\ \A t \in Ticker, x \in Addr : t # tx.tick \/ x # from => Purse(t, x)' = Purse(t, x)
      /\ Purse(tx.tick, from)' = Purse(tx.tick, from) - amt
      /\ amt <= Purse(tx.tick, from)
  BY <1>0, <1>2, <1>4
<1>6. /\ \A t \in Ticker \ {tx.tick} : Cap(t)' = Cap(t) /\ Circ(t)' = Circ(t)
      /\ Cap(tx.tick)' = Cap(tx.tick) - amt /\ Circ(tx.tick)' = Circ(tx.tick) - amt
  BY <1>1 DEF Cap, Circ
<1>7. capOf' = [capOf EXCEPT ![tx.tick] = capOf[tx.tick] - amt]
  BY <1>0, <1>6, OneCap
<1>8. supplyOf' = [supplyOf EXCEPT ![tx.tick] = supplyOf[tx.tick] - amt]
  BY <1>0, <1>6, OneSupply
<1>9. /\ balOf' = [balOf EXCEPT ![tx.tick][from] = balOf[tx.tick][from] - amt]
      /\ amt <= balOf[tx.tick][from]
  BY <1>0, <1>5, OnePurse
<1>10. Ledger!Burn(tx.tick, from, amt)
  BY <1>3, <1>7, <1>8, <1>9, SameEscrow DEF Ledger!Burn
<1>. QED
  BY <1>0, <1>10 DEF LedgerStep, Ledger!Step

\* What an indexer that stops, or whose position cannot be saved, has in hand
\* is lost.
LEMMA LeakLedger ==
    ASSUME NEW t \in Ticker, NEW a \in Addr, NEW n \in Units, MaxCrashes > 0,
           UNCHANGED token,
           \A s \in Ticker, x \in Addr : s # t \/ x # a => Purse(s, x)' = Purse(s, x),
           Purse(t, a)' = Purse(t, a) - n, n <= Purse(t, a),
           \A s \in Ticker, i \in TxId : EscrowOf(s, i)' = EscrowOf(s, i)
    PROVE  LedgerStep
<1>1. balOf' = [balOf EXCEPT ![t][a] = balOf[t][a] - n] /\ n <= balOf[t][a]
  BY OnePurse
<1>2. UNCHANGED <<capOf, supplyOf, escrowOf>>
  BY SameEscrow DEF capOf, supplyOf
<1>3. Ledger!Leak(t, a, n)
  BY <1>1, <1>2 DEF Ledger!Leak
<1>. QED
  BY <1>3 DEF LedgerStep, Ledger!Step

LEMMA SavePositionLedger ==
    ASSUME NEW id \in TxId, NEW tx \in Tx, Handling(id, tx), SavePosition(id, tx),
           tx.op = "list" => tx.amount % 2 = 0, crashes # 0 => MaxCrashes > 0
    PROVE  LedgerStep
<1>. DEFINE from == tx.sender
<1>0. /\ tx.tick \in Ticker /\ from \in Addr /\ TypeOK /\ TypeOK'
      /\ amt \in Nat /\ amt \in Units
      /\ pc = "position" /\ pc' \in {"history", "failed"} /\ UNCHANGED <<token, holder>>
  BY WideAssumption DEF Handling, SavePosition, Goto, Tx, TypeOK, Units
<1>1. \A t \in Ticker, x \in Addr : Balance(t, x)' = Balance(t, x) /\ Balance(t, x) \in Nat
  BY <1>0 DEF Balance, TypeOK, NoRow
<1>2. \A t \in Ticker, x \in Addr :
         /\ Purse(t, x) = Balance(t, x) + IF tx.tick = t /\ x = from THEN amt ELSE 0
         /\ Purse(t, x)' = Balance(t, x)' + 0
  BY <1>0, HandFlight DEF Handling
<1>3. CASE fresh
  <2>1. position[id] = NoPosition
    BY <1>0, <1>3 DEF Handling, HandlerInv, RowsInv
  <2>2. amt = Round(tx.amount)
    <3>1. tx.amount \in Nat /\ tx.op = "list"
      BY <1>0, WideAssumption DEF Tx, Half, Handling, HandlerInv, StepInv
    <3>2. amt = Trunc(tx.amount)
      BY <1>0 DEF Handling, UnitsInv, OfToken
    <3>. QED
      BY <3>1, <3>2, WholeIsExact
  <2>3. /\ position'[id] = [seller |-> tx.sender, tick |-> tx.tick,
                            amount |-> Round(tx.amount), state |-> "open"]
        /\ \A i \in TxId \ {id} : position'[i] = position[i]
    BY <1>0, <1>3 DEF SavePosition, TypeOK
  <2>4. position'[id] # NoPosition
    <3>1. position'[id] \in PositionRow
      BY <1>0, <2>2, <2>3 DEF PositionRow, Tx
    <3>. QED
      BY <3>1, NoRowAssumption
  <2>5. /\ \A t \in Ticker, i \in TxId : t # tx.tick \/ i # id => EscrowOf(t, i)' = EscrowOf(t, i)
        /\ EscrowOf(tx.tick, id) = 0 /\ EscrowOf(tx.tick, id)' = amt
    BY <2>1, <2>2, <2>3, <2>4 DEF EscrowOf
  <2>. HIDE DEF from
  <2>6. /\ \A t \in Ticker, x \in Addr : t # tx.tick \/ x # from => Purse(t, x)' = Purse(t, x)
        /\ Purse(tx.tick, from)' = Purse(tx.tick, from) - amt
        /\ amt <= Purse(tx.tick, from)
    BY <1>0, <1>1, <1>2
  <2>7. /\ balOf' = [balOf EXCEPT ![tx.tick][from] = balOf[tx.tick][from] - amt]
        /\ amt <= balOf[tx.tick][from]
    BY <1>0, <2>6, OnePurse
  <2>8. escrowOf' = [escrowOf EXCEPT ![tx.tick][id] = amt] /\ escrowOf[tx.tick][id] = 0
    BY <1>0, <2>5, OneEscrow
  <2>9. Ledger!Lock(tx.tick, from, id, amt)
    BY <1>0, <2>7, <2>8 DEF Ledger!Lock, capOf, supplyOf
  <2>. QED
    BY <1>0, <2>9 DEF LedgerStep, Ledger!Step
<1>4. CASE ~fresh
  <2>1. MaxCrashes > 0
    BY <1>0, <1>4 DEF Handling, UnitsInv, FirstRuns, AtHandler
  <2>2. \A t \in Ticker, i \in TxId : EscrowOf(t, i)' = EscrowOf(t, i)
    BY <1>4 DEF EscrowOf, SavePosition
  <2>. HIDE DEF from
  <2>3. /\ \A t \in Ticker, x \in Addr : t # tx.tick \/ x # from => Purse(t, x)' = Purse(t, x)
        /\ Purse(tx.tick, from)' = Purse(tx.tick, from) - amt
        /\ amt <= Purse(tx.tick, from)
    BY <1>0, <1>1, <1>2
  <2>. QED
    BY <1>0, <2>1, <2>2, <2>3, LeakLedger
<1>. QED
  BY <1>3, <1>4

LEMMA ClosePositionLedger ==
    ASSUME NEW id \in TxId, NEW tx \in Tx, Handling(id, tx), SaveFill(tx) \/ SaveCancel(tx)
    PROVE  LedgerStep
<1>. DEFINE to == Recipient(tx)
<1>0. /\ tx.tick \in Ticker /\ tx.order \in TxId /\ to \in Addr /\ TypeOK /\ TypeOK'
      /\ amt \in Nat /\ pc \in {"fill", "cancel"} /\ pc' = "credit" /\ amt' = amt
      /\ UNCHANGED <<token, holder>>
  BY WideAssumption
     DEF Handling, SaveFill, SaveCancel, Goto, Tx, TypeOK, Units, Recipient
<1>1. /\ amt = EscrowOf(tx.tick, tx.order) /\ EscrowOf(tx.tick, tx.order)' = 0
      /\ \A t \in Ticker, i \in TxId :
            i # tx.order \/ t # tx.tick => EscrowOf(t, i)' = EscrowOf(t, i)
  BY ClosePositionUnits
<1>2. \A t \in Ticker, x \in Addr : Balance(t, x)' = Balance(t, x) /\ Balance(t, x) \in Nat
  BY <1>0 DEF Balance, TypeOK, NoRow
<1>3. \A t \in Ticker, x \in Addr :
         /\ Purse(t, x) = Balance(t, x) + 0
         /\ Purse(t, x)' = Balance(t, x)' + IF tx.tick = t /\ x = to THEN amt ELSE 0
  BY <1>0, HandFlight DEF Handling
<1>. HIDE DEF to
<1>4. /\ \A t \in Ticker, x \in Addr : t # tx.tick \/ x # to => Purse(t, x)' = Purse(t, x)
      /\ Purse(tx.tick, to)' = Purse(tx.tick, to) + amt
  BY <1>0, <1>2, <1>3
<1>5. /\ escrowOf' = [escrowOf EXCEPT ![tx.tick][tx.order] = 0]
      /\ escrowOf[tx.tick][tx.order] = amt
  BY <1>0, <1>1, OneEscrow
<1>6. balOf' = [balOf EXCEPT ![tx.tick][to] = balOf[tx.tick][to] + escrowOf[tx.tick][tx.order]]
  BY <1>0, <1>4, <1>5, OnePurse
<1>7. Ledger!Release(tx.tick, tx.order, to)
  BY <1>0, <1>5, <1>6 DEF Ledger!Release, capOf, supplyOf
<1>8. 0 \in Units
  BY WideAssumption DEF Units
<1>. QED
  BY <1>0, <1>7, <1>8 DEF LedgerStep, Ledger!Step
-----------------------------------------------------------------------------
\* The other saves and the checks move nothing.
LEMMA QuietLedger ==
    ASSUME NEW id \in TxId, NEW tx \in Tx, Handling(id, tx),
           UNCHANGED <<token, holder, position>>,
           pc \notin {"credit", "burn", "position"}, pc' \notin {"credit", "burn", "position"}
    PROVE  LedgerKept
<1>1. \A t \in Ticker, i \in TxId : EscrowOf(t, i)' = EscrowOf(t, i)
  BY DEF EscrowOf
<1>2. \A t \in Ticker, a \in Addr : Purse(t, a)' = Purse(t, a)
  BY HandFlight DEF Handling, Balance
<1>. QED
  BY <1>1, <1>2, Stutters

LEMMA HandleLedger ==
    ASSUME IndexerInv, UnitsInv, WholeAmounts, Handle
    PROVE  LedgerStep \/ LedgerKept
<1>1. PICK id \in TxId, tx \in Tx, now \in Int :
            /\ Handling(id, tx) /\ id = Id
            /\ Process(id, tx, now) \/ Save(id, tx)
            /\ tx.op = "list" => tx.amount % 2 = 0
  BY HandleIs
<1>2. crashes # 0 => MaxCrashes > 0
  BY IndexerAssumption DEF IndexerInv, IndexerTypeOK, LoopTypeOK
<1>3. CASE Process(id, tx, now)
  <2>1. /\ UNCHANGED tables /\ pc = "process"
        /\ pc' \in {"token", "mint", "debit", "fill", "cancel", "failed"}
    BY <1>3 DEF Process, Check, Deploy, Mint, Transfer, Burn, List, Buy, Delist, Other
  <2>. QED
    BY <1>1, <2>1, QuietLedger DEF tables
<1>4. CASE SaveMintHistory(id, tx) \/ SaveActionHistory(id, tx) \/ SaveTrade(id, tx)
  <2>1. /\ UNCHANGED <<token, holder, position>>
        /\ pc \in {"mint", "history", "trade"}
        /\ pc' \in {"supply", "trade", "done", "failed"}
    BY <1>4 DEF SaveMintHistory, SaveActionHistory, SaveHistory, SaveTrade, Goto
  <2>. QED
    BY <1>1, <2>1, QuietLedger
<1>. QED
  BY <1>1, <1>2, <1>3, <1>4, SaveTokenLedger, SaveSupplyLedger, SaveDebitLedger,
     SaveCreditLedger, SaveBurnLedger, SavePositionLedger, ClosePositionLedger DEF Save

\* A stop loses what the handler has in hand.
LEMMA StopLedger ==
    ASSUME IndexerInv, Stop
    PROVE  LedgerStep \/ LedgerKept
<1>0. /\ TypeOK /\ LoopInv /\ amt \in Units /\ amt \in Nat
      /\ UNCHANGED <<token, holder, position>> /\ pc' = "idle" /\ MaxCrashes > 0
  BY IndexerAssumption, WideAssumption
     DEF IndexerInv, IndexerTypeOK, LoopTypeOK, TypeOK, Units, Stop, tables
<1>1. \A t \in Ticker, x \in Addr : Balance(t, x)' = Balance(t, x) /\ Balance(t, x) \in Nat
  BY <1>0 DEF Balance, TypeOK, NoRow
<1>2. \A t \in Ticker, i \in TxId : EscrowOf(t, i)' = EscrowOf(t, i)
  BY <1>0 DEF EscrowOf
<1>3. \A t \in Ticker, x \in Addr : Purse(t, x)' = Balance(t, x)' + 0
  BY <1>0 DEF Purse, InFlight
<1>4. CASE pc \in {"credit", "burn", "position"}
  <2>. DEFINE from == IF pc = "credit" THEN Recipient(Current) ELSE Current.sender
  <2>1. Current \in Tx
    BY <1>4, CurrentType DEF IndexerInv
  <2>2. PICK t \in Ticker, a \in Addr : t = Current.tick /\ a = from
    BY <2>1 DEF Tx, Recipient
  <2>3. \A s \in Ticker, x \in Addr :
           Purse(s, x) = Balance(s, x) + IF s = t /\ x = a THEN amt ELSE 0
    BY <1>4, <2>2 DEF Purse, InFlight
  <2>4. /\ \A s \in Ticker, x \in Addr : s # t \/ x # a => Purse(s, x)' = Purse(s, x)
        /\ Purse(t, a)' = Purse(t, a) - amt
        /\ amt <= Purse(t, a)
    BY <1>0, <1>1, <1>3, <2>3
  <2>. QED
    BY <1>0, <1>2, <2>4, LeakLedger
<1>5. CASE pc \notin {"credit", "burn", "position"}
  <2>1. \A t \in Ticker, x \in Addr : Purse(t, x) = Balance(t, x) + 0
    BY <1>5 DEF Purse, InFlight
  <2>2. \A t \in Ticker, x \in Addr : Purse(t, x)' = Purse(t, x)
    BY <1>1, <1>3, <2>1
  <2>. QED
    BY <1>0, <1>2, <2>2, Stutters
<1>. QED
  BY <1>4, <1>5

LEMMA NextLedger ==
    ASSUME WholeAmounts
    PROVE  IndexerInv /\ UnitsInv /\ [Next]_vars => LedgerStep \/ LedgerKept
<1>. SUFFICES ASSUME IndexerInv, UnitsInv, [Next]_vars PROVE LedgerStep \/ LedgerKept
  OBVIOUS
<1>1. CASE NewBlock \/ Poll \/ InsertTx \/ SaveStatus \/ Commit \/ Start
  <2>1. /\ UNCHANGED <<token, holder, position>>
        /\ pc \notin {"credit", "burn", "position"}
        /\ pc' \notin {"credit", "burn", "position"}
    BY <1>1 DEF NewBlock, Poll, InsertTx, SaveStatus, NextInBlock, Commit, Start, cftVars,
       tables, IndexerInv, LoopInv
  <2>2. \A t \in Ticker, a \in Addr : Purse(t, a)' = Purse(t, a)
    BY <2>1 DEF Purse, InFlight, Balance
  <2>3. \A t \in Ticker, i \in TxId : EscrowOf(t, i)' = EscrowOf(t, i)
    BY <2>1 DEF EscrowOf
  <2>. QED
    BY <2>1, <2>2, <2>3, Stutters
<1>2. CASE UNCHANGED vars
  <2>1. \A t \in Ticker, a \in Addr : Purse(t, a)' = Purse(t, a)
    BY <1>2 DEF vars, cftVars, tables, loopVars, Purse, InFlight, Balance, Current
  <2>2. \A t \in Ticker, i \in TxId : EscrowOf(t, i)' = EscrowOf(t, i)
    BY <1>2 DEF vars, cftVars, tables, EscrowOf
  <2>. QED
    BY <1>2, <2>1, <2>2, Stutters DEF vars, cftVars, tables
<1>. QED
  BY <1>1, <1>2, HandleLedger, StopLedger DEF Next, Loop

LEMMA InitLedger == IndexerInit => Ledger!Init
<1>. SUFFICES ASSUME IndexerInit PROVE Ledger!Init
  OBVIOUS
<1>1. /\ \A t \in Ticker : token[t] = NoToken
      /\ \A t \in Ticker, a \in Addr : Balance(t, a) = 0
      /\ \A t \in Ticker, i \in TxId : EscrowOf(t, i) = 0
      /\ \A t \in Ticker, a \in Addr : InFlight(t, a) = 0
  BY DEF IndexerInit, Init, Balance, EscrowOf, InFlight
<1>. QED
  BY <1>1 DEF Ledger!Init, capOf, supplyOf, balOf, escrowOf, escrows

\* The saves of the handlers, of which a stop may leave some undone, implement
\* the ledger: every step of the indexer issues, moves, locks, releases or burns
\* units as TokenLedger does, or changes nothing in it, and a stop only loses
\* what the handler had in hand.
THEOREM LedgerImplemented ==
    ASSUME WholeAmounts
    PROVE  Spec => ImplementsLedger
<1>1. IndexerInv /\ UnitsInv /\ [Next]_vars =>
         [\E n \in Units : Ledger!Step(n)]_<<capOf, supplyOf, balOf, escrowOf>>
  BY NextLedger DEF LedgerStep, LedgerKept
<1>2. Spec => Ledger!Init /\ [][\E n \in Units : Ledger!Step(n)]_<<capOf, supplyOf, balOf, escrowOf>>
  BY <1>1, InitLedger, UnitsInvariant, PTL DEF Spec
<1>. QED
  BY <1>2 DEF ImplementsLedger, Ledger!Spec, Ledger!ledger
=============================================================================
