------------------------------- MODULE Indexer -------------------------------
(***************************************************************************)
(* The block loop of the indexer (indexer.go, indexBlocks) driving the     *)
(* CFT-20 processor.  No database transaction spans two saves, and the     *)
(* process may stop at any point: a fetch that fails is fatal, so is a     *)
(* panic in the price goroutine, and so is a kill.  The next run resumes   *)
(* at the last processed height itself, so a block is seen again whenever  *)
(* the process restarts; a transaction whose row exists already is         *)
(* processed again with a row ID of 0.                                     *)
(***************************************************************************)
EXTENDS Cft20, Sequences, Coins

CONSTANTS
    Submissions,  \* the transactions users submit
    MaxHeight,    \* bound: blocks the chain produces
    BlockSize,    \* bound: transactions in a block
    MaxCrashes    \* bound: stops of the process

ASSUME IndexerAssumption ==
    /\ MaxHeight \in Nat \ {0} /\ BlockSize \in Nat \ {0} /\ MaxCrashes \in Nat
    /\ TxId = (1 .. MaxHeight) \X (1 .. BlockSize)
    /\ Submissions \subseteq Tx

\* Units can be counted.
ASSUME AddrAssumption == IsFiniteSet(Addr)

VARIABLES
    chain,          \* the blocks of the chain: a sequence of sequences of Tx
    lastProcessed,  \* status.last_processed_height
    txRow,          \* table transaction: status_message by TxId, or "none"
    running,        \* the process is up
    cur,            \* currentHeight, in memory
    idx,            \* position in the block of the transaction at hand
    crashes         \* stops so far

loopVars == <<lastProcessed, txRow, running, cur, idx>>
vars == <<cftVars, chain, loopVars, crashes>>

Status == {"none", "pending", "success", "error"}
Block == UNION {[1 .. n -> Submissions] : n \in 0 .. BlockSize}

LoopTypeOK ==
    /\ chain \in Seq(Block) /\ Len(chain) \in 1 .. MaxHeight
    /\ lastProcessed \in 1 .. Len(chain)
    /\ txRow \in [TxId -> Status]
    /\ running \in BOOLEAN
    /\ cur \in 1 .. Len(chain)
    /\ idx \in 1 .. BlockSize
    /\ crashes \in 0 .. MaxCrashes

IndexerTypeOK == TypeOK /\ LoopTypeOK

\* The operator has seeded the status row with the height to start from.
IndexerInit ==
    /\ Init
    /\ chain = << <<>> >>
    /\ lastProcessed = 1
    /\ txRow = [i \in TxId |-> "none"]
    /\ running = TRUE /\ cur = 1 /\ idx = 1
    /\ crashes = 0

Id == <<cur, idx>>
Current == chain[cur][idx]
-----------------------------------------------------------------------------
\* The chain commits a block.  The indexer looks at the chain only while idle,
\* and one unprocessed block ahead of it is all it can tell from many.
NewBlock ==
    /\ pc = "idle"
    /\ Len(chain) < MaxHeight /\ Len(chain) <= cur
    /\ \E b \in Block :
        /\ Len(chain) + 1 = MaxHeight => b = <<>>
        /\ chain' = Append(chain, b)
    /\ UNCHANGED <<cftVars, loopVars, crashes>>

\* A tick of the poll: the block at currentHeight is fetched once the chain
\* is beyond it.
Poll ==
    /\ running /\ pc = "idle"
    /\ cur < Len(chain)
    /\ pc' = IF chain[cur] = <<>> THEN "commit" ELSE "insert"
    /\ idx' = 1
    /\ UNCHANGED <<tables, amt, fresh, chain, lastProcessed, txRow, running,
                   cur, crashes>>

\* The transaction's row is saved; a duplicate hash is ignored and leaves the
\* model without an ID.
InsertTx ==
    /\ running /\ pc = "insert"
    /\ pc' = "process"
    /\ fresh' = (txRow[Id] = "none")
    /\ txRow' = IF txRow[Id] = "none" THEN [txRow EXCEPT ![Id] = "pending"]
                                      ELSE txRow
    /\ UNCHANGED <<tables, amt, chain, lastProcessed, running, cur, idx, crashes>>

Handle ==
    /\ running
    /\ Process(Id, Current, cur) \/ Save(Id, Current)
    /\ UNCHANGED <<chain, loopVars, crashes>>

NextInBlock ==
    IF idx < Len(chain[cur])
    THEN idx' = idx + 1 /\ pc' = "insert"
    ELSE idx' = 1 /\ pc' = "commit"

\* Mutants: the status is updated by hash; an error is saved as a success.
SaveStatusByHash ==
    /\ running /\ pc \in {"done", "failed"}
    /\ txRow' = [txRow EXCEPT ![Id] = IF pc = "done" THEN "success" ELSE "error"]
    /\ fresh' = FALSE /\ amt' = 0
    /\ NextInBlock
    /\ UNCHANGED <<tables, chain, lastProcessed, running, cur, crashes>>

SaveStatusNoError ==
    /\ running /\ pc \in {"done", "failed"}
    /\ txRow' = IF fresh THEN [txRow EXCEPT ![Id] = "success"] ELSE txRow
    /\ fresh' = FALSE /\ amt' = 0
    /\ NextInBlock
    /\ UNCHANGED <<tables, chain, lastProcessed, running, cur, crashes>>

\* The outcome is saved in the transaction's row.  Without an ID the save is
\* an insert that fails on the hash, which is only logged.
SaveStatus ==
    /\ running /\ pc \in {"done", "failed"}
    /\ txRow' = IF fresh
                THEN [txRow EXCEPT ![Id] = IF pc = "done" THEN "success" ELSE "error"]
                ELSE txRow
    /\ fresh' = FALSE /\ amt' = 0
    /\ NextInBlock
    /\ UNCHANGED <<tables, chain, lastProcessed, running, cur, crashes>>

\* Mutant: the next height is recorded.
CommitNext ==
    /\ running /\ pc = "commit"
    /\ lastProcessed' = cur + 1 /\ cur' = cur + 1
    /\ pc' = "idle"
    /\ UNCHANGED <<tables, amt, fresh, chain, txRow, running, idx, crashes>>

Commit ==
    /\ running /\ pc = "commit"
    /\ lastProcessed' = cur
    /\ cur' = cur + 1
    /\ pc' = "idle"
    /\ UNCHANGED <<tables, amt, fresh, chain, txRow, running, idx, crashes>>

Stop ==
    /\ running /\ crashes < MaxCrashes
    /\ running' = FALSE
    /\ crashes' = crashes + 1
    /\ pc' = "idle" /\ amt' = 0 /\ fresh' = FALSE /\ idx' = 1
    /\ cur' = lastProcessed
    /\ UNCHANGED <<tables, chain, lastProcessed, txRow>>

\* The new process reads the status row.
Start ==
    /\ ~running
    /\ running' = TRUE
    /\ cur' = lastProcessed
    /\ UNCHANGED <<cftVars, chain, lastProcessed, txRow, idx, crashes>>

Loop == Poll \/ InsertTx \/ Handle \/ SaveStatus \/ Commit

Next == NewBlock \/ Loop \/ Stop \/ Start

Spec == IndexerInit /\ [][Next]_vars
-----------------------------------------------------------------------------
(* Where the units of a token are *)

balances(t) == [a \in Addr |-> Balance(t, a)]

EscrowOf(t, i) ==
    IF position[i] # NoPosition /\ position[i].tick = t /\ position[i].state = "open"
    THEN position[i].amount ELSE 0
escrows(t) == [i \in TxId |-> EscrowOf(t, i)]

Held(t) == Worth(Addr, balances(t)) + Worth(TxId, escrows(t))

\* No sequence of operations, and no restart in the middle of one, puts more
\* units into balances and open positions than circulate, or lets more
\* circulate than the token's maximum supply.
Backed ==
    \A t \in Ticker : token[t] # NoToken =>
        /\ Held(t) <= token[t].circ
        /\ token[t].circ <= token[t].cap

\* Until a stop, nothing is lost either: between transactions every circulating
\* unit is in a balance or an open position.
Conserved ==
    crashes = 0 /\ pc \in {"idle", "insert"} =>
        \A t \in Ticker : token[t] # NoToken => Held(t) = token[t].circ

\* A transaction is recorded in the token history at most once, however often
\* its block is processed.
RecordedOnce == \A i \in TxId : history[i] <= 1 /\ trades[i] <= history[i]

\* A transaction reported as successful left its record, and the trade a
\* purchase makes; only a deployment without a pre-mint has none to leave.
SuccessIsRecorded ==
    \A h \in DOMAIN chain : \A k \in DOMAIN chain[h] :
        LET tx == chain[h][k]
        IN  txRow[<<h, k>>] = "success" =>
                /\ history[<<h, k>>] = HistoryRows(tx)
                /\ trades[<<h, k>>] = TradeRows(tx)

\* The recorded height never runs ahead of the work: every transaction of a
\* block at or below it has a row, and the height never moves back.
NoGap ==
    \A h \in 1 .. lastProcessed : \A k \in DOMAIN chain[h] : txRow[<<h, k>>] # "none"
HeightAdvances == [][lastProcessed' >= lastProcessed]_vars

\* A status is final: once a transaction has succeeded or failed, a second run
\* of its block does not change what users are told.
StatusIsFinal ==
    [][\A i \in TxId : txRow[i] \in {"success", "error"} => txRow'[i] = txRow[i]]_vars
-----------------------------------------------------------------------------
(* The inductive invariant behind the theorems of Indexer_proofs *)

AtHandler == pc \notin {"idle", "insert", "commit"}

\* Where the loop is in the block, and which rows it has inserted there.
LoopInv ==
    /\ cur \in {lastProcessed, lastProcessed + 1}
    /\ ~running => pc = "idle"
    /\ pc # "idle" => cur < Len(chain)
    /\ pc \notin {"idle", "commit"} => idx \in DOMAIN chain[cur]
    /\ AtHandler => txRow[Id] # "none"
    /\ pc # "idle" => \A k \in DOMAIN chain[cur] :
           k < idx \/ pc = "commit" => txRow[<<cur, k>>] # "none"
    /\ \A i \in TxId : i[1] >= Len(chain) => txRow[i] = "none"

\* A run without an ID never inserts history, and a first run is on a row
\* that nobody has answered yet.
FreshInv ==
    /\ fresh => AtHandler /\ txRow[Id] = "pending"
    /\ AtHandler => HandlerInv(Id, Current)
    /\ \A i \in TxId : txRow[i] = "none" =>
           history[i] = 0 /\ trades[i] = 0 /\ position[i] = NoPosition

IndexerInv ==
    /\ IndexerTypeOK /\ LoopInv /\ FreshInv
    /\ NoGap /\ RecordedOnce /\ SuccessIsRecorded
-----------------------------------------------------------------------------
(* The abstract ledger *)

\* Units between a debit and a credit belong to the balance they are on the
\* way to; those a burn or a listing has debited but not yet taken out or
\* locked still belong to the sender.
InFlight(t, a) ==
    IF /\ pc \in {"credit", "burn", "position"}
       /\ Current.tick = t
       /\ a = IF pc = "credit" THEN Recipient(Current) ELSE Current.sender
    THEN amt ELSE 0

capOf == [t \in Ticker |-> IF token[t] = NoToken THEN 0 ELSE token[t].cap]
supplyOf == [t \in Ticker |-> IF token[t] = NoToken THEN 0 ELSE token[t].circ]
balOf == [t \in Ticker |-> [a \in Addr |-> Balance(t, a) + InFlight(t, a)]]
escrowOf == [t \in Ticker |-> escrows(t)]

Ledger == INSTANCE TokenLedger
    WITH Lot <- TxId, Amount <- Units, LeakAllowed <- MaxCrashes > 0,
         cap <- capOf, supply <- supplyOf, bal <- balOf, escrow <- escrowOf

\* Every step of the loop issues, moves, locks, releases or burns units as the
\* ledger does, or changes nothing in it; a stop may lose units, never make any.
ImplementsLedger == Ledger!Spec
=============================================================================
