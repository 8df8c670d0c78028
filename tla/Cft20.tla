-------------------------------- MODULE Cft20 --------------------------------
(***************************************************************************)
(* The CFT-20 processor (metaprotocol/cft20.go).  A handler checks a       *)
(* transaction against the database and then saves rows one after another, *)
(* each save a database transaction of its own: every action below is one  *)
(* save, or the checks that precede the first one, and pc names the next.  *)
(* The processor runs in the indexer's only block goroutine; whatever can  *)
(* happen between two saves (a stop of the process) is in module Indexer.  *)
(***************************************************************************)
EXTENDS Integers

CONSTANTS
    Addr,         \* addresses that hold tokens
    Ticker,       \* tickers that may be deployed
    TxId,         \* identity (hash) of a transaction
    NoToken,      \* a ticker without a token row
    NoPosition,   \* a transaction that opened no position
    Wide,         \* 2^64: amounts are uint64
    Scale,        \* 10^decimals of a token
    LimitShare    \* 100: a mint limit is at most 1/LimitShare of the supply

ASSUME WideAssumption == Wide \in Nat /\ Wide > 1
ASSUME ScaleAssumption == Scale \in Nat \ {0} /\ LimitShare \in Nat \ {0}

VARIABLES
    token,      \* table token, by ticker
    holder,     \* table token_holder: [Ticker -> [Addr -> balance or NoRow]]
    position,   \* table token_open_position, by the transaction that listed
    history,    \* table token_address_history: rows of each transaction
    trades,     \* table token_trade_history: rows of each transaction
    pc,         \* the next save of the running handler
    amt,        \* the handler's amount, in base units
    fresh       \* the transaction's row was inserted by this run (ID # 0)

tables == <<token, holder, position, history, trades>>
cftVars == <<tables, pc, amt, fresh>>
-----------------------------------------------------------------------------
Units == 0 .. Wide - 1
Half == 0 .. 2 * (Wide - 1)   \* a parsed decimal, in halves of a base unit

Ops == {"deploy", "mint", "transfer", "burn", "list", "buy", "delist", "other"}

\* A transaction's memo, with the fields of every operation; a field an
\* operation does not read is ignored.  paid says that the first MsgSend, if
\* there is one, carries exactly the position's total to its seller.
Tx == [op: Ops, sender: Addr, tick: Ticker, dst: Addr, amount: Half,
       order: TxId, paid: BOOLEAN, lim: Half, pre: Half, open: Nat]

NoRow == -1
TokenRow == [cap: Units, circ: Nat, lim: Units, pre: Units, open: Nat]
PositionRow == [seller: Addr, tick: Ticker, amount: Units,
                state: {"open", "filled", "cancelled"}]

ASSUME NoRowAssumption == NoToken \notin TokenRow /\ NoPosition \notin PositionRow

Saves == {"token", "mint", "supply", "debit", "credit", "burn", "position",
          "fill", "cancel", "history", "trade"}

TypeOK ==
    /\ token \in [Ticker -> TokenRow \cup {NoToken}]
    /\ holder \in [Ticker -> [Addr -> Nat \cup {NoRow}]]
    /\ position \in [TxId -> PositionRow \cup {NoPosition}]
    /\ history \in [TxId -> Nat]
    /\ trades \in [TxId -> Nat]
    /\ pc \in Saves \cup {"idle", "insert", "process", "done", "failed", "commit"}
    /\ amt \in Units
    /\ fresh \in BOOLEAN

Init ==
    /\ token = [t \in Ticker |-> NoToken]
    /\ holder = [t \in Ticker |-> [a \in Addr |-> NoRow]]
    /\ position = [i \in TxId |-> NoPosition]
    /\ history = [i \in TxId |-> 0]
    /\ trades = [i \in TxId |-> 0]
    /\ pc = "idle" /\ amt = 0 /\ fresh = FALSE
-----------------------------------------------------------------------------
(* Conversions *)

\* uint64(math.Round(x)) and uint64(x) of a parsed decimal x.
Round(h) == (h + 1) \div 2
Trunc(h) == h \div 2

\* amount * uint64(math.Pow10(decimals)) in uint64.
Scaled(n) == (n * Scale) % Wide

Balance(t, a) == IF holder[t][a] = NoRow THEN 0 ELSE holder[t][a]

\* uint64 subtraction.
Minus(x, y) == IF x >= y THEN x - y ELSE x + Wide - y

MintAmount(t) ==
    LET row == token[t]
    IN  IF row.circ + row.lim > row.cap THEN row.cap - row.circ ELSE row.lim

IsOpen(tx) ==
    /\ position[tx.order] # NoPosition
    /\ position[tx.order].tick = tx.tick
    /\ position[tx.order].state = "open"

\* The balance a handler credits.
Recipient(tx) == IF tx.op = "transfer" THEN tx.dst ELSE tx.sender
-----------------------------------------------------------------------------
(* The checks of each operation, and the amount and first save they lead to *)

DeployOK(tx) ==
    /\ tx.amount > 0 /\ tx.lim > 0
    /\ Round(tx.pre) <= Round(tx.amount)
    /\ tx.lim * LimitShare <= tx.amount
    /\ token[tx.tick] = NoToken

MintOK(tx, now) ==
    /\ token[tx.tick] # NoToken
    /\ token[tx.tick].circ < token[tx.tick].cap
    /\ token[tx.tick].open <= now

TransferOK(tx) ==
    /\ token[tx.tick] # NoToken
    /\ tx.amount > 0 /\ tx.amount < Wide
    /\ holder[tx.tick][tx.sender] >= Scaled(tx.amount)

BurnOK(tx) ==
    /\ token[tx.tick] # NoToken
    /\ tx.amount > 0
    /\ holder[tx.tick][tx.sender] >= Round(tx.amount)

ListOK(tx) ==
    /\ token[tx.tick] # NoToken
    /\ tx.amount > 0
    /\ holder[tx.tick][tx.sender] >= Trunc(tx.amount)

\* Mutant: the position's status is not checked.
BuyOKAnyStatus(tx) ==
    /\ token[tx.tick] # NoToken
    /\ position[tx.order] # NoPosition /\ position[tx.order].tick = tx.tick
    /\ tx.paid

BuyOK(tx) == token[tx.tick] # NoToken /\ IsOpen(tx) /\ tx.paid

DelistOK(tx) ==
    /\ token[tx.tick] # NoToken
    /\ IsOpen(tx)
    /\ position[tx.order].seller = tx.sender

Check(tx, op, ok, first, n) ==
    /\ pc = "process" /\ tx.op = op
    /\ IF ok THEN pc' = first /\ amt' = n ELSE pc' = "failed" /\ amt' = 0
    /\ UNCHANGED <<tables, fresh>>

Deploy(tx) == Check(tx, "deploy", DeployOK(tx), "token", Round(tx.pre))
Mint(tx, now) == Check(tx, "mint", MintOK(tx, now), "mint", MintAmount(tx.tick))
Transfer(tx) == Check(tx, "transfer", TransferOK(tx), "debit", Scaled(tx.amount))
Burn(tx) == Check(tx, "burn", BurnOK(tx), "debit", Round(tx.amount))
List(tx) == Check(tx, "list", ListOK(tx), "debit", Trunc(tx.amount))
Buy(tx) == Check(tx, "buy", BuyOK(tx), "fill", position[tx.order].amount)
Delist(tx) == Check(tx, "delist", DelistOK(tx), "cancel", position[tx.order].amount)

\* A memo no processor accepts.
Other(tx) == Check(tx, "other", FALSE, "failed", 0)
-----------------------------------------------------------------------------
(* The saves.  A row that references the transaction's row cannot be       *)
(* inserted when that row was not inserted by this run: its ID is then 0   *)
(* and the foreign key fails.                                              *)

Goto(step) == pc' = step /\ UNCHANGED <<amt, fresh>>

SaveToken(tx) ==
    /\ pc = "token"
    /\ IF fresh
       THEN /\ token' = [token EXCEPT ![tx.tick] =
                   [cap |-> Round(tx.amount), circ |-> 0, lim |-> Round(tx.lim),
                    pre |-> Round(tx.pre), open |-> tx.open]]
            /\ Goto(IF tx.pre > 0 THEN "mint" ELSE "done")
       ELSE Goto("failed") /\ UNCHANGED token
    /\ UNCHANGED <<holder, position, history, trades>>

\* Mutant: no foreign key refuses a row without the transaction's ID.
SaveHistoryNoKey(id, tx, step, next) ==
    /\ pc = step
    /\ history' = [history EXCEPT ![id] = @ + 1]
    /\ Goto(next)
    /\ UNCHANGED <<token, holder, position, trades>>

SaveHistory(id, tx, step, next) ==
    /\ pc = step
    /\ IF fresh
       THEN history' = [history EXCEPT ![id] = @ + 1] /\ Goto(next)
       ELSE Goto("failed") /\ UNCHANGED history
    /\ UNCHANGED <<token, holder, position, trades>>

SaveMintHistory(id, tx) == SaveHistory(id, tx, "mint", "supply")

SaveSupply(tx) ==
    /\ pc = "supply"
    /\ token' = [token EXCEPT ![tx.tick].circ = @ + amt]
    /\ Goto("credit")
    /\ UNCHANGED <<holder, position, history, trades>>

SaveDebit(tx) ==
    /\ pc = "debit"
    /\ holder' = [holder EXCEPT ![tx.tick][tx.sender] = @ - amt]
    /\ Goto(CASE tx.op = "transfer" -> "credit"
              [] tx.op = "burn" -> "burn"
              [] OTHER -> "position")
    /\ UNCHANGED <<token, position, history, trades>>

SaveCredit(tx) ==
    /\ pc = "credit"
    /\ LET to == Recipient(tx)
       IN  holder' = [holder EXCEPT ![tx.tick][to] = Balance(tx.tick, to) + amt]
    /\ Goto(IF tx.op \in {"deploy", "mint"} THEN "done" ELSE "history")
    /\ UNCHANGED <<token, position, history, trades>>

\* Mutant: a burn lowers the maximum supply but not the circulating one.
SaveBurnCapOnly(tx) ==
    /\ pc = "burn"
    /\ token' = [token EXCEPT ![tx.tick].cap = Minus(@, amt)]
    /\ Goto("history")
    /\ UNCHANGED <<holder, position, history, trades>>

SaveBurn(tx) ==
    /\ pc = "burn"
    /\ token' = [token EXCEPT ![tx.tick].circ = Minus(@, amt),
                              ![tx.tick].cap = Minus(@, amt)]
    /\ Goto("history")
    /\ UNCHANGED <<holder, position, history, trades>>

SavePosition(id, tx) ==
    /\ pc = "position"
    /\ IF fresh
       THEN /\ position' = [position EXCEPT ![id] =
                   [seller |-> tx.sender, tick |-> tx.tick,
                    amount |-> Round(tx.amount), state |-> "open"]]
            /\ Goto("history")
       ELSE Goto("failed") /\ UNCHANGED position
    /\ UNCHANGED <<token, holder, history, trades>>

\* Mutants: a position is paid out and stays open.
SaveFillStaysOpen(tx) ==
    /\ pc = "fill"
    /\ Goto("credit")
    /\ UNCHANGED tables

SaveFill(tx) ==
    /\ pc = "fill"
    /\ position' = [position EXCEPT ![tx.order].state = "filled"]
    /\ Goto("credit")
    /\ UNCHANGED <<token, holder, history, trades>>

SaveCancelStaysOpen(tx) ==
    /\ pc = "cancel"
    /\ Goto("credit")
    /\ UNCHANGED tables

SaveCancel(tx) ==
    /\ pc = "cancel"
    /\ position' = [position EXCEPT ![tx.order].state = "cancelled"]
    /\ Goto("credit")
    /\ UNCHANGED <<token, holder, history, trades>>

SaveActionHistory(id, tx) ==
    SaveHistory(id, tx, "history", IF tx.op = "buy" THEN "trade" ELSE "done")

SaveTrade(id, tx) ==
    /\ pc = "trade"
    /\ trades' = [trades EXCEPT ![id] = @ + 1]
    /\ Goto("done")
    /\ UNCHANGED <<token, holder, position, history>>
-----------------------------------------------------------------------------
Process(id, tx, now) ==
    \/ Deploy(tx) \/ Mint(tx, now) \/ Transfer(tx) \/ Burn(tx)
    \/ List(tx) \/ Buy(tx) \/ Delist(tx) \/ Other(tx)

Save(id, tx) ==
    \/ SaveToken(tx) \/ SaveMintHistory(id, tx) \/ SaveSupply(tx)
    \/ SaveDebit(tx) \/ SaveCredit(tx) \/ SaveBurn(tx) \/ SavePosition(id, tx)
    \/ SaveFill(tx) \/ SaveCancel(tx) \/ SaveActionHistory(id, tx)
    \/ SaveTrade(id, tx)
-----------------------------------------------------------------------------
(* What holds between two saves of the handler of tx *)

\* A handler is only ever at a save of its own operation, and what its checks
\* established still stands there.
StepInv(tx) ==
    /\ pc = "token" => tx.op = "deploy" /\ amt = Round(tx.pre)
                                       /\ amt <= Round(tx.amount)
    /\ pc \in {"mint", "supply"} =>
           /\ tx.op = "mint" \/ (tx.op = "deploy" /\ tx.pre > 0)
           /\ token[tx.tick] # NoToken
           /\ token[tx.tick].circ + amt <= token[tx.tick].cap
    /\ pc = "debit" =>
           /\ tx.op \in {"transfer", "burn", "list"}
           /\ token[tx.tick] # NoToken
           /\ holder[tx.tick][tx.sender] >= amt
           /\ tx.op = "list" => amt = Trunc(tx.amount)
    /\ pc = "credit" =>
           \/ tx.op \in {"mint", "transfer", "buy", "delist"}
           \/ tx.op = "deploy" /\ tx.pre > 0
    /\ pc = "burn" => tx.op = "burn" /\ token[tx.tick] # NoToken
    /\ pc = "position" => tx.op = "list"
    /\ pc = "fill" => tx.op = "buy" /\ IsOpen(tx) /\ amt = position[tx.order].amount
    /\ pc = "cancel" => tx.op = "delist" /\ IsOpen(tx) /\ amt = position[tx.order].amount
    /\ pc = "history" => tx.op \in {"transfer", "burn", "list", "buy", "delist"}
    /\ pc = "trade" => tx.op = "buy" /\ fresh
    /\ pc = "done" => tx.op # "other"

\* The rows a finished run of tx leaves in the two histories.
HistoryRows(tx) == IF tx.op = "deploy" /\ tx.pre = 0 THEN 0 ELSE 1
TradeRows(tx) == IF tx.op = "buy" THEN 1 ELSE 0

\* A first run has inserted exactly the rows of the saves behind it.
RowsInv(id, tx) ==
    fresh =>
        /\ history[id] =
              IF \/ pc \in {"supply", "trade", "done"}
                 \/ pc = "credit" /\ tx.op \in {"deploy", "mint"}
              THEN HistoryRows(tx) ELSE 0
        /\ trades[id] = IF pc = "done" THEN TradeRows(tx) ELSE 0
        /\ pc \in {"process", "debit", "position"} => position[id] = NoPosition

HandlerInv(id, tx) == StepInv(tx) /\ RowsInv(id, tx)
=============================================================================
