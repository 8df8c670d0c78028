------------------------------ MODULE Service -------------------------------
(***************************************************************************)
(* The indexer's process (main.go, indexer.go): the goroutine of the block *)
(* loop, the one of the price, the one that waits for a signal, and the    *)
(* nodes they ask, picked at random for every request and not all at the   *)
(* same height.  A block is one transaction, which the chain executed or   *)
(* refused; module Indexer has what processing one does.  A supervisor     *)
(* starts the process again when it ends.                                  *)
(***************************************************************************)
EXTENDS Naturals, FiniteSets

CONSTANTS
    Node,           \* the nodes behind LCD_ENDPOINTS and RPC_ENDPOINTS
    Rpc,            \* those of RPC_ENDPOINTS
    MaxHeight,      \* bound: height of the chain
    Lag,            \* how many blocks a node may be behind another
    Seeded,         \* whether the status row has been put there by hand
    MaxFaults,      \* bound: requests that fail
    MaxSignals      \* bound: signals

VARIABLES
    outcome,        \* of the transaction of a block: the chain refuses it, a
                    \* handler processes it, or a handler panics
    node,           \* height of each node
    row,            \* status.last_processed_height, 0 when there is no row
    price,          \* status.base_token_usd
    handled,        \* heights whose transaction got to a processor
    passed,         \* heights whose transaction was found to have failed
    up,             \* the process runs
    loop, cur, max, \* indexBlocks; currentHeight, maxHeight
    code,           \* transactionResultIndex: the result of the transaction
    quotes,         \* updateBaseToken
    signal,         \* a signal is in signalChannel
    toStop,         \* sends on stopChannel that Stop has still to do
    first,          \* history variable: the height of the very first start
    faults, signals

memory == <<up, loop, cur, max, code, quotes, signal, toStop>>
tables == <<row, price, handled, passed>>
vars == <<outcome, node, tables, memory, first, faults, signals>>

Height == 1 .. MaxHeight

\* The blocks that get processed, and what becomes of their transactions.
Outcomes == [1 .. MaxHeight - 1 -> {"refused", "processed", "panics"}]

ASSUME ServiceAssumption ==
    /\ IsFiniteSet(Node) /\ Rpc \subseteq Node /\ Rpc # {}
    /\ MaxHeight \in Nat \ {0, 1} /\ Lag \in Nat \ {0} /\ Seeded \in BOOLEAN
    /\ MaxFaults \in Nat /\ MaxSignals \in Nat
-----------------------------------------------------------------------------
ServiceTypeOK ==
    /\ outcome \in Outcomes /\ node \in [Node -> Height]
    /\ row \in 0 .. MaxHeight /\ price \in {"old", "quoted", "zero"}
    /\ handled \subseteq Height /\ passed \subseteq Height
    /\ up \in BOOLEAN
    /\ loop \in {"start", "select", "block", "results", "process", "save", "done"}
    /\ cur \in 0 .. MaxHeight /\ max \in 0 .. MaxHeight
    /\ code \in {"success", "failure", "none"}
    /\ quotes \in {"select", "store", "done"}
    /\ signal \in BOOLEAN /\ toStop \in 0 .. 2
    /\ first \in 0 .. MaxHeight /\ faults \in 0 .. MaxFaults /\ signals \in 0 .. MaxSignals
    /\ loop \in {"select", "block", "results", "process", "save"} => cur # 0
    /\ loop \in {"block", "results", "process", "save"} => cur < max

\* Memory of a process that has just begun.
Begun ==
    /\ loop' = "start" /\ quotes' = "select" /\ cur' = 0 /\ max' = 0 /\ code' = "none"
    /\ signal' = FALSE /\ toStop' = 0

Init ==
    /\ outcome \in Outcomes /\ node = [n \in Node |-> 1]
    /\ row = (IF Seeded THEN 1 ELSE 0) /\ price = "old"
    /\ handled = {} /\ passed = {}
    /\ up = TRUE /\ loop = "start" /\ quotes = "select" /\ cur = 0 /\ max = 0
    /\ code = "none" /\ signal = FALSE /\ toStop = 0
    /\ first = 0 /\ faults = 0 /\ signals = 0
-----------------------------------------------------------------------------
(* The chain *)

Grow(n) ==
    /\ node[n] < MaxHeight /\ \A m \in Node : node[n] < node[m] + Lag
    /\ node' = [node EXCEPT ![n] = @ + 1]
    /\ UNCHANGED <<outcome, tables, memory, first, faults, signals>>
-----------------------------------------------------------------------------
(* The process *)

Down ==
    /\ up' = FALSE
    /\ UNCHANGED <<loop, cur, max, code, quotes, signal, toStop>>

\* logger.Fatalf, of a request that fails; a panic ends the process as well.
Fatal(step) ==
    /\ up /\ loop = step
    /\ faults < MaxFaults /\ faults' = faults + 1
    /\ Down /\ UNCHANGED <<outcome, node, tables, first, signals>>

Supervise ==
    /\ ~up /\ up' = TRUE /\ Begun
    /\ UNCHANGED <<outcome, node, tables, first, faults, signals>>

\* Mutant: the record is not looked at.
FromTip(n) == node[n]

\* "if the record doesn't exist, find the current height from the chain"
From(n) == IF row = 0 THEN node[n] ELSE row

Start(n) ==
    /\ up /\ loop = "start"
    /\ cur' = From(n)
    /\ first' = IF first = 0 THEN cur' ELSE first
    /\ loop' = "select"
    /\ UNCHANGED <<outcome, node, tables, up, max, code, quotes, signal, toStop, faults, signals>>

Ready(g) == up /\ g = "select"

\* Mutant: the newest block is fetched too.
TickAtTip(n) ==
    /\ Ready(loop) /\ cur <= node[n]
    /\ max' = node[n] /\ loop' = "block"
    /\ UNCHANGED <<outcome, node, tables, up, cur, code, quotes, signal, toStop, first, faults,
                   signals>>

\* fetchCurrentHeight
Tick(n) ==
    /\ Ready(loop) /\ cur < node[n]
    /\ max' = node[n] /\ loop' = "block"
    /\ UNCHANGED <<outcome, node, tables, up, cur, code, quotes, signal, toStop, first, faults,
                   signals>>

\* fetchTransactions: "requested block height is bigger than the chain length"
\* is an error in the reply, and is fatal.
FetchBlock(n) ==
    /\ up /\ loop = "block"
    /\ IF node[n] >= cur
       THEN loop' = "results" /\ UNCHANGED <<up, cur, max, code, quotes, signal, toStop>>
       ELSE Down
    /\ UNCHANGED <<outcome, node, tables, first, faults, signals>>

\* Mutant: results are not looked at.
ReplyOfNone(n) == "none"

\* An error in the reply is not looked for: there are no results then.
Reply(n) ==
    IF node[n] < cur THEN "none"
    ELSE IF outcome[cur] = "refused" THEN "failure" ELSE "success"

FetchResults(n) ==
    /\ up /\ loop = "results"
    /\ code' = Reply(n)
    /\ loop' = "process"
    /\ UNCHANGED <<outcome, node, tables, up, cur, max, quotes, signal, toStop, first, faults,
                   signals>>

\* No result is one with Code 0.
Process ==
    /\ up /\ loop = "process"
    /\ \/ /\ code = "failure" /\ passed' = passed \cup {cur}
          /\ loop' = "save" /\ UNCHANGED <<handled, up>>
       \/ /\ code # "failure" /\ outcome[cur] # "panics"
          /\ handled' = handled \cup {cur}
          /\ loop' = "save" /\ UNCHANGED <<passed, up>>
       \/ /\ code # "failure" /\ outcome[cur] = "panics"
          /\ up' = FALSE /\ UNCHANGED <<handled, passed, loop>>
    /\ UNCHANGED <<outcome, node, row, price, cur, max, code, quotes, signal, toStop, first,
                   faults, signals>>

\* Mutant: the height that is known is saved as the one processed.
SaveMax ==
    /\ up /\ loop = "save"
    /\ row' = IF row = 0 THEN 0 ELSE max
    /\ cur' = cur + 1
    /\ loop' = "select"
    /\ UNCHANGED <<outcome, node, price, handled, passed, up, max, code, quotes, signal, toStop,
                   first, faults, signals>>

\* UpdateColumns: of no row when there is none.
Save ==
    /\ up /\ loop = "save"
    /\ row' = IF row = 0 THEN 0 ELSE cur
    /\ cur' = cur + 1
    /\ loop' = "select"
    /\ UNCHANGED <<outcome, node, price, handled, passed, up, max, code, quotes, signal, toStop,
                   first, faults, signals>>

\* updateBaseToken
Quote ==
    /\ Ready(quotes) /\ quotes' = "store"
    /\ UNCHANGED <<outcome, node, tables, up, loop, cur, max, code, signal, toStop, first, faults,
                   signals>>

\* queryResult is nil when the request has failed.
QuoteFails ==
    /\ Ready(quotes)
    /\ faults < MaxFaults /\ faults' = faults + 1
    /\ Down /\ UNCHANGED <<outcome, node, tables, first, signals>>

\* What does not parse as a number is 0, and is stored.
Price(good) == IF good THEN "quoted" ELSE "zero"

StorePrice ==
    /\ up /\ quotes = "store"
    /\ \E good \in BOOLEAN :
          /\ good \/ faults < MaxFaults
          /\ faults' = IF good THEN faults ELSE faults + 1
          /\ price' = IF row = 0 THEN price ELSE Price(good)
    /\ quotes' = "select"
    /\ UNCHANGED <<outcome, node, row, handled, passed, up, loop, cur, max, code, signal, toStop,
                   first, signals>>
-----------------------------------------------------------------------------
(* Signals *)

Signal ==
    /\ up /\ ~signal /\ signals < MaxSignals
    /\ signal' = TRUE /\ signals' = signals + 1
    /\ UNCHANGED <<outcome, node, tables, up, loop, cur, max, code, quotes, toStop, first, faults>>

\* The goroutine of main reads signalChannel once.
Signalled == signal /\ toStop = 0 /\ loop # "done" /\ quotes # "done"

\* Stop sends on stopChannel twice.
Stop ==
    /\ up /\ Signalled
    /\ toStop' = 2
    /\ UNCHANGED <<outcome, node, tables, up, loop, cur, max, code, quotes, signal, first, faults,
                   signals>>

\* The channel has no buffer: whoever is in its select receives.
StopLoop ==
    /\ Ready(loop) /\ toStop > 0
    /\ toStop' = toStop - 1 /\ loop' = "done"
    /\ UNCHANGED <<outcome, node, tables, up, cur, max, code, quotes, signal, first, faults,
                   signals>>

\* Mutant: the message ends the select, and not the loop around it.
StopQuotesBreaks ==
    /\ Ready(quotes) /\ toStop > 0
    /\ toStop' = toStop - 1
    /\ UNCHANGED <<outcome, node, tables, up, loop, cur, max, code, quotes, signal, first,
                   faults, signals>>

StopQuotes ==
    /\ Ready(quotes) /\ toStop > 0
    /\ toStop' = toStop - 1 /\ quotes' = "done"
    /\ UNCHANGED <<outcome, node, tables, up, loop, cur, max, code, signal, first, faults, signals>>

\* wg.Wait
Shutdown ==
    /\ up /\ loop = "done" /\ quotes = "done"
    /\ Down /\ UNCHANGED <<outcome, node, tables, first, faults, signals>>
-----------------------------------------------------------------------------
Blocks ==
    \/ \E n \in Node : Start(n) \/ Tick(n) \/ FetchBlock(n)
    \/ \E n \in Rpc : FetchResults(n)
    \/ Process \/ Save

Next ==
    \/ \E n \in Node : Grow(n)
    \/ Supervise \/ Blocks
    \/ \E step \in {"start", "select", "block", "results"} : Fatal(step)
    \/ Quote \/ QuoteFails \/ StorePrice
    \/ Signal \/ Stop \/ StopLoop \/ StopQuotes \/ Shutdown

Spec == Init /\ [][Next]_vars

\* Requests are answered, nodes get every block, and a select takes each of its
\* cases sooner or later.
FairSpec ==
    /\ Spec
    /\ \A n \in Node : WF_vars(Grow(n))
    /\ WF_vars(Supervise) /\ WF_vars(Blocks) /\ WF_vars(StorePrice)
    /\ WF_vars(Stop) /\ SF_vars(StopLoop) /\ SF_vars(StopQuotes) /\ WF_vars(Shutdown)
-----------------------------------------------------------------------------
(* Properties *)

Seen == handled \cup passed

\* indexer.go:127, "stores a record of the last processed block": however often
\* the process ends, no block between the first and the next one is left out.
NoGap == \A h \in Height : first # 0 /\ first <= h /\ h < cur => h \in Seen

\* indexer.go, "Check if the transaction was a success, if not, skip".
FailedIsSkipped == \A h \in handled : outcome[h] # "refused"

\* indexer.go: the loop is never at a block that the chain has not built upon,
\* leaves none out, and processes no transaction that the chain refused.
ServiceInv == ServiceTypeOK /\ NoGap /\ FailedIsSkipped

\* "Run the indexer service forever": every block that the nodes have, save the
\* last, is processed at last, through ends and starts of the process, unless
\* the handler of a transaction at or below it panics.
BlocksComeThrough ==
    \A h \in 1 .. MaxHeight - 1 :
        (\A n \in Node : node[n] > h)
            ~> h \in Seen \/ h < first \/ \E p \in 1 .. h : outcome[p] = "panics"

\* main.go, "Handle stop signals": whoever receives first, both goroutines stop
\* and Run returns, or the process ends otherwise.
SignalEnds == signal ~> ~up
=============================================================================
