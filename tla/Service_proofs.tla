---------------------------- MODULE Service_proofs ----------------------------
(***************************************************************************)
(* Theorems about module Service, for any nodes, chain, outcomes of its    *)
(* transactions, faults and signals.                                       *)
(*                                                                         *)
(* That no block is left out rests on what the row says when the process   *)
(* ends: everything below it was done.  It needs the row to be there.      *)
(* That no refused transaction is processed rests on the nodes: whichever  *)
(* is asked for the results of a block has it, if no node is more than one *)
(* block behind another.                                                   *)
(***************************************************************************)
EXTENDS Service, TLAPS

\* Everything below the row, and below the block at hand, has been done, and
\* the loop starts where the row is.
RowFollows ==
    /\ row # 0
    /\ first # 0 => first <= row
    /\ \A h \in Height : first # 0 /\ first <= h /\ h < row => h \in Seen

LoopFollows ==
    /\ loop \in {"select", "block", "results", "process", "save"} =>
          /\ first # 0 /\ row <= cur
          /\ \A h \in Height : first <= h /\ h < cur => h \in Seen
    /\ loop \in {"start", "done"} => first = 0 \/ cur = 0 \/ NoGap
    /\ loop = "start" => cur = 0
    /\ loop = "save" => cur \in Seen

GapInv == ServiceTypeOK /\ RowFollows /\ LoopFollows /\ NoGap

\* No node is more than a block behind another, every node has the block at
\* hand, and the result of a refused transaction says so.
Close == \A m, n \in Node : node[m] <= node[n] + 1
Fetched == loop \in {"block", "results"} => \A n \in Node : cur <= node[n]
Known == loop = "process" /\ cur # 0 /\ outcome[cur] = "refused" => code = "failure"

ResultInv == ServiceTypeOK /\ Close /\ Fetched /\ Known /\ FailedIsSkipped
-----------------------------------------------------------------------------
(* Types *)

LEMMA InitType == Init => ServiceTypeOK
  <1>1. Init => up \in BOOLEAN /\ signal \in BOOLEAN
    BY DEF Init
  <1>2. Init => node \in [Node -> Height]
    BY ServiceAssumption DEF Init, Height
  <1> QED
    BY <1>1, <1>2, ServiceAssumption DEF Init, ServiceTypeOK, Height

\* What is true or false: up is set by hand, signal too.
LEMMA NextBoolean ==
  ServiceTypeOK /\ [Next]_vars => up' \in BOOLEAN /\ signal' \in BOOLEAN
  <1> SUFFICES ASSUME up \in BOOLEAN, signal \in BOOLEAN, [Next]_vars
               PROVE  up' \in BOOLEAN /\ signal' \in BOOLEAN
    BY DEF ServiceTypeOK
  <1>1. ASSUME NEW n \in Node, Grow(n) PROVE up' \in BOOLEAN /\ signal' \in BOOLEAN
    BY <1>1, Zenon DEF Grow, memory
  <1>2. CASE Supervise
    BY <1>2, Zenon DEF Supervise, Begun
  <1>3. CASE Blocks
    BY <1>3, Zenon DEF Blocks, Start, Tick, FetchBlock, Down, FetchResults, Process, Save
  <1>4. ASSUME NEW step, Fatal(step) PROVE up' \in BOOLEAN /\ signal' \in BOOLEAN
    BY <1>4, Zenon DEF Fatal, Down
  <1>5. CASE Quote \/ QuoteFails \/ StorePrice
    BY <1>5, Zenon DEF Quote, QuoteFails, StorePrice, Down
  <1>6. CASE Signal \/ Stop \/ StopLoop \/ StopQuotes \/ Shutdown
    BY <1>6, Zenon DEF Signal, Stop, StopLoop, StopQuotes, Shutdown, Down
  <1>7. CASE UNCHANGED vars
    BY <1>7, Zenon DEF vars, memory
  <1> QED
    BY <1>1, <1>2, <1>3, <1>4, <1>5, <1>6, <1>7 DEF Next

\* What becomes of the transaction, whatever becomes of the process.
LEMMA Processing ==
  ASSUME Process
  PROVE  /\ UNCHANGED <<outcome, node, row, price, cur, max, code, quotes, toStop, first,
                        faults, signals>>
         /\ \/ UNCHANGED <<handled, passed, loop>>
            \/ loop' = "save" /\ handled' = handled /\ passed' = passed \cup {cur}
            \/ /\ loop' = "save" /\ passed' = passed /\ handled' = handled \cup {cur}
               /\ code # "failure"
         /\ loop = "process"
  BY Zenon DEF Process

LEMMA BlocksType == ServiceTypeOK /\ Blocks => ServiceTypeOK'
  <1> SUFFICES ASSUME ServiceTypeOK, Blocks PROVE ServiceTypeOK'
    OBVIOUS
  <1>b. up' \in BOOLEAN /\ signal' \in BOOLEAN
    BY NextBoolean DEF Next
  <1>1. ASSUME NEW n \in Node, Start(n) PROVE ServiceTypeOK'
    BY <1>1, ServiceAssumption DEF Start, From, ServiceTypeOK, Height, tables
  <1>2. ASSUME NEW n \in Node, Tick(n) PROVE ServiceTypeOK'
    BY <1>2, ServiceAssumption DEF Tick, Ready, ServiceTypeOK, Height, tables
  <1>3. ASSUME NEW n \in Node, FetchBlock(n) PROVE ServiceTypeOK'
    BY <1>3, ServiceAssumption DEF FetchBlock, Down, ServiceTypeOK, Height, tables
  <1>4. ASSUME NEW n \in Rpc, FetchResults(n) PROVE ServiceTypeOK'
    BY <1>4, ServiceAssumption DEF FetchResults, Reply, ServiceTypeOK, Height, tables
  <1>5. CASE Process
    <2>1. UNCHANGED <<outcome, node, row, price, cur, max, code, quotes, toStop, first,
                      faults, signals>>
      BY <1>5, Processing
    <2>2. loop' \in {"process", "save"} /\ cur # 0 /\ cur < max
      BY <1>5, Processing DEF ServiceTypeOK
    <2>3. cur \in Height
      BY <2>2, ServiceAssumption DEF ServiceTypeOK, Height
    <2>4. handled' \subseteq Height /\ passed' \subseteq Height
      BY <1>5, <2>3, Processing DEF ServiceTypeOK
    <2> QED
      BY <1>b, <2>1, <2>2, <2>4 DEF ServiceTypeOK, Outcomes, Height
  <1>6. CASE Save
    BY <1>6, ServiceAssumption DEF Save, ServiceTypeOK, Height
  <1> QED
    BY <1>1, <1>2, <1>3, <1>4, <1>5, <1>6 DEF Blocks

LEMMA NextType == ServiceTypeOK /\ [Next]_vars => ServiceTypeOK'
  <1> SUFFICES ASSUME ServiceTypeOK, [Next]_vars PROVE ServiceTypeOK'
    OBVIOUS
  <1>b. up' \in BOOLEAN /\ signal' \in BOOLEAN
    BY NextBoolean
  <1>1. ASSUME NEW n \in Node, Grow(n) PROVE ServiceTypeOK'
    BY <1>1, ServiceAssumption DEF Grow, ServiceTypeOK, Height, tables, memory
  <1>2. CASE Supervise
    BY <1>2, <1>b, ServiceAssumption DEF Supervise, Begun, ServiceTypeOK, Height, tables
  <1>3. CASE Blocks
    BY <1>3, BlocksType
  <1>4. ASSUME NEW step, Fatal(step) PROVE ServiceTypeOK'
    BY <1>4, <1>b, ServiceAssumption DEF Fatal, Down, ServiceTypeOK, Height, tables
  <1>5. CASE Quote \/ QuoteFails \/ StorePrice
    <2>1. CASE Quote
      BY <1>b, <2>1, ServiceAssumption DEF Quote, ServiceTypeOK, Height, tables
    <2>3. CASE QuoteFails
      BY <1>b, <2>3, ServiceAssumption DEF QuoteFails, Down, ServiceTypeOK, Height, tables
    <2>2. CASE StorePrice
      <3>1. price' \in {"old", "quoted", "zero"} /\ faults' \in 0 .. MaxFaults
        BY <2>2, ServiceAssumption DEF StorePrice, Price, ServiceTypeOK
      <3> QED
        BY <1>b, <2>2, <3>1, ServiceAssumption DEF StorePrice, ServiceTypeOK, Height
    <2> QED
      BY <1>5, <2>1, <2>2, <2>3
  <1>6. CASE Signal \/ Stop \/ StopLoop \/ StopQuotes \/ Shutdown
    <2>1. CASE Signal
      BY <1>b, <2>1, ServiceAssumption DEF Signal, ServiceTypeOK, Height, tables
    <2>2. CASE Stop
      BY <1>b, <2>2, ServiceAssumption DEF Stop, ServiceTypeOK, Height, tables
    <2>3. CASE StopLoop
      BY <1>b, <2>3, ServiceAssumption DEF StopLoop, ServiceTypeOK, Height, tables
    <2>5. CASE StopQuotes
      BY <1>b, <2>5, ServiceAssumption DEF StopQuotes, ServiceTypeOK, Height, tables
    <2>4. CASE Shutdown
      BY <1>b, <2>4, ServiceAssumption DEF Shutdown, Down, ServiceTypeOK, Height, tables
    <2> QED
      BY <1>6, <2>1, <2>2, <2>3, <2>4, <2>5
  <1>7. CASE UNCHANGED vars
    BY <1>7 DEF vars, ServiceTypeOK, tables, memory
  <1> QED
    BY <1>1, <1>2, <1>3, <1>4, <1>5, <1>6, <1>7 DEF Next

\* The memory of the process, its row and its counters stay within their bounds,
\* and a block is only fetched when there is one after it.
THEOREM TypeCorrect == Spec => []ServiceTypeOK
  BY InitType, NextType, PTL DEF Spec
-----------------------------------------------------------------------------
(* No block is left out *)

LEMMA InitGap == Seeded /\ Init => GapInv
  <1> SUFFICES ASSUME Seeded, Init PROVE GapInv
    OBVIOUS
  <1>1. RowFollows /\ LoopFollows /\ NoGap
    BY DEF Init, RowFollows, LoopFollows, NoGap
  <1> QED
    BY <1>1, InitType DEF GapInv

\* What a step of anything else leaves alone.
LEMMA SameGap ==
  ASSUME GapInv, ServiceTypeOK', UNCHANGED <<row, handled, passed, first, cur>>,
         loop' # loop => \/ loop' = "done"
                         \/ {loop, loop'} \subseteq {"select", "block", "results", "process"}
  PROVE  GapInv'
  <1>1. Seen' = Seen
    BY DEF Seen
  <1>2. RowFollows' /\ NoGap'
    BY <1>1 DEF GapInv, RowFollows, NoGap
  <1>3. LoopFollows'
    BY <1>1, <1>2 DEF GapInv, LoopFollows
  <1> QED
    BY <1>2, <1>3 DEF GapInv

LEMMA StartGap == ASSUME GapInv, NEW n \in Node, Start(n) PROVE GapInv'
  <1>1. ServiceTypeOK'
    BY BlocksType DEF GapInv, Blocks
  <1>2. cur' = row /\ loop' = "select" /\ UNCHANGED <<row, handled, passed>>
    BY DEF Start, From, GapInv, RowFollows, tables
  <1>3. first' # 0 /\ first' <= row /\ (first # 0 => first' = first) /\ (first = 0 => first' = row)
    BY <1>2, ServiceAssumption DEF Start, GapInv, RowFollows, ServiceTypeOK
  <1>4. Seen' = Seen
    BY <1>2 DEF Seen
  <1>5. \A h \in Height : first' <= h /\ h < row => h \in Seen
    BY <1>3, ServiceAssumption DEF GapInv, RowFollows, Height, ServiceTypeOK
  <1>6. RowFollows' /\ LoopFollows' /\ NoGap'
    BY <1>2, <1>3, <1>4, <1>5, ServiceAssumption
       DEF GapInv, RowFollows, LoopFollows, NoGap, ServiceTypeOK, Height
  <1> QED
    BY <1>1, <1>6 DEF GapInv

LEMMA ProcessGap == ASSUME GapInv, Process PROVE GapInv'
  <1>1. ServiceTypeOK'
    BY BlocksType DEF GapInv, Blocks
  <1>2. Seen \subseteq Seen' /\ UNCHANGED <<row, first, cur>>
    BY Processing DEF Seen
  <1>3. loop = "process" /\ (loop' # loop => loop' = "save" /\ cur \in Seen')
    BY Processing DEF Seen
  <1>4. RowFollows' /\ NoGap'
    BY <1>2 DEF GapInv, RowFollows, NoGap
  <1>5. LoopFollows'
    BY <1>2, <1>3, <1>4 DEF GapInv, LoopFollows
  <1> QED
    BY <1>1, <1>4, <1>5 DEF GapInv

LEMMA SaveGap == ASSUME GapInv, Save PROVE GapInv'
  <1>1. ServiceTypeOK'
    BY BlocksType DEF GapInv, Blocks
  <1>2. row' = cur /\ cur' = cur + 1 /\ loop' = "select" /\ UNCHANGED <<handled, passed, first>>
    BY DEF Save, GapInv, RowFollows
  <1>3. Seen' = Seen /\ cur \in Seen
    BY <1>2 DEF Seen, GapInv, LoopFollows, Save
  <1>4. first # 0 /\ row <= cur /\ first <= row /\ \A h \in Height : first <= h /\ h < cur => h \in Seen
    BY DEF GapInv, RowFollows, LoopFollows, Save
  <1>5. row \in Nat /\ row # 0 /\ cur \in Nat /\ first \in Nat
    BY ServiceAssumption DEF GapInv, RowFollows, ServiceTypeOK
  <1>6. \A h \in Height : h < cur' => h < cur \/ h = cur
    BY <1>2, <1>5, ServiceAssumption DEF Height
  <1>7. RowFollows' /\ LoopFollows' /\ NoGap'
    BY <1>2, <1>3, <1>4, <1>5, <1>6 DEF RowFollows, LoopFollows, NoGap
  <1> QED
    BY <1>1, <1>7 DEF GapInv

LEMMA SuperviseGap == ASSUME GapInv, Supervise PROVE GapInv'
  <1>1. ServiceTypeOK'
    BY NextType DEF GapInv, Next
  <1>2. cur' = 0 /\ loop' = "start" /\ UNCHANGED <<row, handled, passed, first>>
    BY DEF Supervise, Begun, tables
  <1>3. Seen' = Seen
    BY <1>2 DEF Seen
  <1>4. \A h \in Height : ~(h < cur')
    BY <1>2, ServiceAssumption DEF Height
  <1>5. RowFollows' /\ LoopFollows' /\ NoGap'
    BY <1>2, <1>3, <1>4 DEF GapInv, RowFollows, LoopFollows, NoGap
  <1> QED
    BY <1>1, <1>5 DEF GapInv

LEMMA NextGap == GapInv /\ [Next]_vars => GapInv'
  <1> SUFFICES ASSUME GapInv, [Next]_vars PROVE GapInv'
    OBVIOUS
  <1>1. ServiceTypeOK'
    BY NextType DEF GapInv
  <1>2. ASSUME NEW n \in Node, Grow(n) PROVE GapInv'
    BY <1>1, <1>2, SameGap DEF Grow, tables, memory
  <1>3. CASE Supervise
    BY <1>3, SuperviseGap
  <1>4. CASE Blocks
    <2>1. ASSUME NEW n \in Node, Start(n) \/ Tick(n) \/ FetchBlock(n) PROVE GapInv'
      BY <1>1, <2>1, StartGap, SameGap DEF Tick, Ready, FetchBlock, Down, tables
    <2>2. ASSUME NEW n \in Rpc, FetchResults(n) PROVE GapInv'
      BY <1>1, <2>2, SameGap DEF FetchResults, tables
    <2> QED
      BY <1>4, <2>1, <2>2, ProcessGap, SaveGap DEF Blocks
  <1>5. ASSUME NEW step, Fatal(step) PROVE GapInv'
    BY <1>1, <1>5, SameGap DEF Fatal, Down, tables
  <1>6. CASE Quote \/ QuoteFails \/ StorePrice
    BY <1>1, <1>6, SameGap DEF Quote, QuoteFails, StorePrice, Down, tables
  <1>7. CASE Signal \/ Stop \/ StopLoop \/ StopQuotes \/ Shutdown
    BY <1>1, <1>7, SameGap DEF Signal, Stop, StopLoop, StopQuotes, Shutdown, Down, tables
  <1>8. CASE UNCHANGED vars
    BY <1>1, <1>8, SameGap DEF vars, tables, memory
  <1> QED
    BY <1>2, <1>3, <1>4, <1>5, <1>6, <1>7, <1>8 DEF Next

\* indexer.go: with the row in place, no block between the first start and the
\* one at hand is left out, whatever ends the process and whenever.
THEOREM NothingLeftOut == Seeded /\ Spec => []NoGap
  <1>1. Seeded /\ Spec => []GapInv
    BY InitGap, NextGap, PTL DEF Spec
  <1>2. GapInv => NoGap
    BY DEF GapInv
  <1> QED
    BY <1>1, <1>2, PTL
-----------------------------------------------------------------------------
(* No refused transaction is processed *)

LEMMA InitResult == Init => ResultInv
  <1> SUFFICES ASSUME Init PROVE ResultInv
    OBVIOUS
  <1>1. Close /\ Fetched /\ Known /\ FailedIsSkipped
    BY DEF Init, Close, Fetched, Known, FailedIsSkipped
  <1> QED
    BY <1>1, InitType DEF ResultInv

LEMMA SameResult ==
  ASSUME ResultInv, ServiceTypeOK', UNCHANGED <<outcome, node, handled, cur, code>>,
         loop' = loop \/ loop' \in {"start", "select", "save", "done"}
  PROVE  ResultInv'
  BY DEF ResultInv, Close, Fetched, Known, FailedIsSkipped

LEMMA GrowResult == ASSUME Lag = 1, ResultInv, NEW n \in Node, Grow(n) PROVE ResultInv'
  <1>1. ServiceTypeOK'
    BY NextType DEF ResultInv, Next
  <1>2. node' = [node EXCEPT ![n] = @ + 1] /\ \A m \in Node : node[n] < node[m] + 1
    BY DEF Grow
  <1>3. \A m \in Node : node[m] \in Nat /\ cur \in Nat
    BY ServiceAssumption DEF ResultInv, ServiceTypeOK, Height
  <1>4. node'[n] = node[n] + 1 /\ \A m \in Node : m # n => node'[m] = node[m]
    BY <1>2 DEF ResultInv, ServiceTypeOK
  <1>5. Close'
    BY <1>2, <1>3, <1>4 DEF ResultInv, Close
  <1>6. Fetched'
    BY <1>3, <1>4 DEF Grow, memory, ResultInv, Fetched
  <1>7. Known' /\ FailedIsSkipped'
    BY DEF Grow, memory, tables, ResultInv, Known, FailedIsSkipped
  <1> QED
    BY <1>1, <1>5, <1>6, <1>7 DEF ResultInv

LEMMA BlocksResult == ASSUME ResultInv, Blocks PROVE ResultInv'
  <1>1. ServiceTypeOK'
    BY BlocksType DEF ResultInv
  <1>2. \A m \in Node : node[m] \in Nat /\ cur \in Nat
    BY ServiceAssumption DEF ResultInv, ServiceTypeOK, Height
  <1>3. ASSUME NEW n \in Node, Start(n) PROVE ResultInv'
    BY <1>1, <1>3 DEF Start, tables, ResultInv, Close, Fetched, Known, FailedIsSkipped
  <1>4. ASSUME NEW n \in Node, Tick(n) PROVE ResultInv'
    <2>1. \A m \in Node : cur <= node[m]
      BY <1>2, <1>4 DEF Tick, ResultInv, Close
    <2> QED
      BY <1>1, <1>4, <2>1 DEF Tick, tables, ResultInv, Close, Fetched, Known, FailedIsSkipped
  <1>5. ASSUME NEW n \in Node, FetchBlock(n) PROVE ResultInv'
    BY <1>1, <1>5 DEF FetchBlock, Down, tables, ResultInv, Close, Fetched, Known, FailedIsSkipped
  <1>6. ASSUME NEW n \in Rpc, FetchResults(n) PROVE ResultInv'
    <2>1. cur <= node[n] /\ node[n] \in Nat /\ cur \in Nat
      BY <1>2, <1>6, ServiceAssumption DEF FetchResults, ResultInv, Fetched
    <2>2. outcome[cur] = "refused" => code' = "failure"
      BY <1>6, <2>1 DEF FetchResults, Reply
    <2> QED
      BY <1>1, <1>6, <2>2 DEF FetchResults, tables, ResultInv, Close, Fetched, Known, FailedIsSkipped
  <1>7. CASE Process
    <2>1. \/ handled' = handled
          \/ cur # 0 /\ outcome[cur] # "refused" /\ handled' = handled \cup {cur}
      BY <1>1, <1>7, Processing, ServiceAssumption DEF ResultInv, Known, ServiceTypeOK, Height
    <2> QED
      BY <1>1, <1>7, <2>1, Processing DEF ResultInv, Close, Fetched, Known, FailedIsSkipped
  <1>8. CASE Save
    BY <1>1, <1>8 DEF Save, ResultInv, Close, Fetched, Known, FailedIsSkipped
  <1> QED
    BY <1>3, <1>4, <1>5, <1>6, <1>7, <1>8 DEF Blocks

LEMMA NextResult == Lag = 1 /\ ResultInv /\ [Next]_vars => ResultInv'
  <1> SUFFICES ASSUME Lag = 1, ResultInv, [Next]_vars PROVE ResultInv'
    OBVIOUS
  <1>1. ServiceTypeOK'
    BY NextType DEF ResultInv
  <1>2. ASSUME NEW n \in Node, Grow(n) PROVE ResultInv'
    BY <1>2, GrowResult
  <1>3. CASE Supervise
    BY <1>1, <1>3 DEF Supervise, Begun, tables, ResultInv, Close, Fetched, Known, FailedIsSkipped
  <1>4. CASE Blocks
    BY <1>4, BlocksResult
  <1>5. ASSUME NEW step, Fatal(step) PROVE ResultInv'
    BY <1>1, <1>5, SameResult DEF Fatal, Down, tables
  <1>6. CASE Quote \/ QuoteFails \/ StorePrice
    BY <1>1, <1>6, SameResult DEF Quote, QuoteFails, StorePrice, Down, tables
  <1>7. CASE Signal \/ Stop \/ StopLoop \/ StopQuotes \/ Shutdown
    BY <1>1, <1>7, SameResult DEF Signal, Stop, StopLoop, StopQuotes, Shutdown, Down, tables
  <1>8. CASE UNCHANGED vars
    BY <1>1, <1>8, SameResult DEF vars, tables, memory
  <1> QED
    BY <1>2, <1>3, <1>4, <1>5, <1>6, <1>7, <1>8 DEF Next

\* indexer.go: while nodes are at most a block apart, no transaction is processed
\* that the chain has refused, whichever nodes are asked for block and results.
THEOREM RefusedIsSkipped == Lag = 1 /\ Spec => []FailedIsSkipped
  <1> SUFFICES ASSUME Lag = 1 PROVE Spec => []FailedIsSkipped
    OBVIOUS
  <1>1. ResultInv /\ [Next]_vars => ResultInv'
    BY NextResult
  <1>2. ResultInv => FailedIsSkipped
    BY DEF ResultInv
  <1> QED
    BY InitResult, <1>1, <1>2, PTL DEF Spec

\* All of the run's invariant, as the run has it.
THEOREM ServiceInvariant == Seeded /\ Lag = 1 /\ Spec => []ServiceInv
  <1>1. ServiceTypeOK /\ NoGap /\ FailedIsSkipped => ServiceInv
    BY DEF ServiceInv
  <1> QED
    BY <1>1, TypeCorrect, NothingLeftOut, RefusedIsSkipped, PTL
=============================================================================
