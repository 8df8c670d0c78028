---------------------------- MODULE Bridge_proofs ----------------------------
(***************************************************************************)
(* Theorems about modules Bridge and BridgeDialog, for any indexers,       *)
(* users, tokens and transactions, and any number of stops: what the       *)
(* contract mints has been debited by every indexer, what left one chain   *)
(* is on the other or on its way, and what the page asks a user to claim   *)
(* has been signed.                                                        *)
(*                                                                         *)
(* The contract sees signatures only, so the first invariant follows the   *)
(* money to the signature: between the transfer and the last save the      *)
(* debit is there, a record of a send has its debit, and what is minted    *)
(* has the record of every indexer.  Records and debits are never taken    *)
(* back, and a position keeps its transaction.  For the second, the units  *)
(* that a handler has debited and not yet signed, or credited and not yet  *)
(* recorded, are counted too.  The page shows positions of the chain,      *)
(* which keep their transactions whatever the page is left for.            *)
(***************************************************************************)
EXTENDS BridgeDialog, Coins_proofs, SequenceTheorems

\* The parts of the type invariant that the argument needs.
Places ==
    /\ chain \in Seq(Tx) /\ Len(chain) <= MaxTx
    /\ packet \in Seq(Packet) /\ Len(packet) <= MaxPackets
    /\ pos \in [Indexer -> Nat \ {0}]
    /\ pc \in [Indexer -> {"idle", "run", "history", "record", "done"}]
    /\ record \in [Indexer -> SUBSET Id]
    /\ debited \in [Indexer -> [Id -> Nat]]

\* A transaction that is being processed is on the chain.
AtWork == \A i \in Indexer : pc[i] \in {"run", "history", "record"} => pos[i] <= Len(chain)

\* Between the transfer of a send and its last save, the debit is there.
TransferIsDebit ==
    \A i \in Indexer :
        pc[i] \in {"history", "record"} /\ tx(i).op = "send" => debited[i][pos[i]] > 0

\* A record that can be claimed has its debit.
RecordIsDebit ==
    \A i \in Indexer : \A n \in record[i] :
        n <= Len(chain) /\ (chain[n].op = "send" => debited[i][n] > 0)

\* What is minted is a send that every indexer has signed.
MintIsSigned ==
    \A n \in minted : n \in 1 .. Len(chain) /\ chain[n].op = "send" /\ Signed(n)

Inv == Places /\ AtWork /\ TransferIsDebit /\ RecordIsDebit /\ MintIsSigned

LEMMA InitInv == BridgeInit => Inv
  <1> SUFFICES ASSUME BridgeInit PROVE Inv
    OBVIOUS
  <1>1. chain \in Seq(Tx) /\ Len(chain) = 0 /\ packet \in Seq(Packet) /\ Len(packet) = 0
    BY DEF BridgeInit
  <1>2. Places
    BY <1>1, BridgeAssumption DEF BridgeInit, Places
  <1>3. AtWork /\ TransferIsDebit /\ RecordIsDebit /\ MintIsSigned
    BY DEF BridgeInit, AtWork, TransferIsDebit, RecordIsDebit, MintIsSigned
  <1> QED
    BY <1>2, <1>3 DEF Inv

\* A position of the chain is an ID.
LEMMA PositionIsId ==
  ASSUME Places, NEW n \in Nat \ {0}, n <= Len(chain)
  PROVE  n \in Id /\ n \in 1 .. Len(chain) /\ chain[n] \in Tx
  <1>1. Len(chain) \in Nat /\ MaxTx \in Nat
    BY BridgeAssumption DEF Places
  <1> QED
    BY <1>1 DEF Places, Id

\* What a step of an indexer must do: the chain and the contract are left alone,
\* and its own rows, debits and place follow the order of the handler.
OneMore(i) == [debited[i] EXCEPT ![pos[i]] = @ + 1]

Follows(i) ==
    /\ UNCHANGED <<chain, linked, minted, supply, packet>>
    /\ \E p \in Nat \ {0} : pos' = [pos EXCEPT ![i] = p]
    /\ \E q \in {"idle", "run", "history", "record", "done"} : pc' = [pc EXCEPT ![i] = q]
    /\ pc'[i] \in {"run", "history", "record"} => pos'[i] <= Len(chain)
    /\ \/ UNCHANGED debited
       \/ pos[i] \in Id /\ debited' = [debited EXCEPT ![i] = OneMore(i)]
    /\ pc'[i] \in {"history", "record"} /\ chain[pos'[i]].op = "send"
          => debited'[i][pos'[i]] > 0
    /\ \/ UNCHANGED record
       \/ /\ record' = [record EXCEPT ![i] = @ \cup {pos[i]}]
          /\ pos[i] \in 1 .. Len(chain)
          /\ chain[pos[i]].op = "send" => debited'[i][pos[i]] > 0

LEMMA FollowsInv ==
  ASSUME Inv, NEW i \in Indexer, Follows(i)
  PROVE  Inv'
  <1>1. UNCHANGED <<chain, minted, packet>>
    BY DEF Follows
  <1>2. PICK p \in Nat \ {0} : pos' = [pos EXCEPT ![i] = p]
    BY DEF Follows
  <1>3. PICK q \in {"idle", "run", "history", "record", "done"} : pc' = [pc EXCEPT ![i] = q]
    BY DEF Follows
  <1>4. /\ pos' \in [Indexer -> Nat \ {0}] /\ pos'[i] = p
        /\ pc' \in [Indexer -> {"idle", "run", "history", "record", "done"}] /\ pc'[i] = q
        /\ \A j \in Indexer : j # i => pos'[j] = pos[j] /\ pc'[j] = pc[j]
    BY <1>2, <1>3 DEF Inv, Places
  <1>5. /\ debited' \in [Indexer -> [Id -> Nat]]
        /\ \A j \in Indexer, n \in Id : debited'[j][n] >= debited[j][n]
    <2>1. CASE UNCHANGED debited
      BY <2>1 DEF Inv, Places
    <2>2. CASE pos[i] \in Id /\ debited' = [debited EXCEPT ![i] = OneMore(i)]
      <3>1. debited[i] \in [Id -> Nat]
        BY DEF Inv, Places
      <3>2. OneMore(i) \in [Id -> Nat] /\ \A n \in Id : OneMore(i)[n] >= debited[i][n]
        BY <2>2, <3>1 DEF OneMore
      <3> QED
        BY <2>2, <3>2 DEF Inv, Places
    <2> QED
      BY <2>1, <2>2 DEF Follows
  <1>6. Len(chain) \in Nat /\ Len(chain) <= MaxTx /\ MaxTx \in Nat
    BY BridgeAssumption DEF Inv, Places
  <1>7. /\ record' \in [Indexer -> SUBSET Id]
        /\ \A j \in Indexer : record[j] \subseteq record'[j]
        /\ \A j \in Indexer : \A n \in record'[j] :
              \/ n \in record[j]
              \/ /\ j = i /\ n = pos[i] /\ n <= Len(chain) /\ n \in Id
                 /\ chain[n].op = "send" => debited'[i][n] > 0
    <2>1. CASE UNCHANGED record
      BY <2>1 DEF Inv, Places
    <2>2. CASE /\ record' = [record EXCEPT ![i] = @ \cup {pos[i]}]
               /\ pos[i] \in 1 .. Len(chain)
               /\ chain[pos[i]].op = "send" => debited'[i][pos[i]] > 0
      <3>1. pos[i] \in Id /\ pos[i] <= Len(chain)
        BY <1>6, <2>2 DEF Id
      <3>2. record[i] \cup {pos[i]} \in SUBSET Id
        BY <3>1 DEF Inv, Places
      <3> QED
        BY <2>2, <3>1, <3>2 DEF Inv, Places
    <2> QED
      BY <2>1, <2>2 DEF Follows
  <1>8. Places'
    BY <1>1, <1>4, <1>5, <1>7 DEF Inv, Places
  <1>9. AtWork'
    BY <1>1, <1>4 DEF Inv, AtWork, Follows
  <1>10. TransferIsDebit'
    <2> SUFFICES ASSUME NEW j \in Indexer, pc'[j] \in {"history", "record"},
                        chain[pos'[j]].op = "send"
                 PROVE  debited'[j][pos'[j]] > 0
      BY <1>1 DEF TransferIsDebit, tx
    <2>1. CASE j = i
      BY <2>1 DEF Follows
    <2>2. CASE j # i
      <3>1. pos'[j] = pos[j] /\ pc'[j] = pc[j]
        BY <1>4, <2>2
      <3>2. debited[j][pos[j]] > 0 /\ pos[j] <= Len(chain)
        BY <3>1 DEF Inv, TransferIsDebit, AtWork, tx
      <3>3. pos[j] \in Id
        BY <3>2, PositionIsId DEF Inv, Places
      <3>4. debited[j][pos[j]] \in Nat /\ debited'[j][pos[j]] \in Nat
        BY <1>5, <3>3 DEF Inv, Places
      <3> QED
        BY <1>5, <3>1, <3>2, <3>3, <3>4
    <2> QED
      BY <2>1, <2>2
  <1>11. RecordIsDebit'
    <2> SUFFICES ASSUME NEW j \in Indexer, NEW n \in record'[j]
                 PROVE  n <= Len(chain) /\ (chain[n].op = "send" => debited'[j][n] > 0)
      BY <1>1 DEF RecordIsDebit
    <2>1. CASE n \in record[j]
      <3>1. n \in Id /\ debited[j][n] \in Nat /\ debited'[j][n] \in Nat
        BY <1>5, <2>1 DEF Inv, Places
      <3>2. n <= Len(chain) /\ (chain[n].op = "send" => debited[j][n] > 0)
        BY <2>1 DEF Inv, RecordIsDebit
      <3> QED
        BY <1>5, <3>1, <3>2
    <2>2. CASE n \notin record[j]
      BY <1>7, <2>2
    <2> QED
      BY <2>1, <2>2
  <1>12. MintIsSigned'
    BY <1>1, <1>7 DEF Inv, MintIsSigned, Signed
  <1> QED
    BY <1>8, <1>9, <1>10, <1>11, <1>12 DEF Inv
-----------------------------------------------------------------------------
(* Each step of an indexer follows *)

LEMMA TakeFollows == ASSUME Inv, NEW i \in Indexer, Take(i) PROVE Follows(i)
  <1>1. pos[i] \in Nat \ {0} /\ pos \in [Indexer -> Nat \ {0}] /\ pos' = [pos EXCEPT ![i] = pos[i]]
    BY DEF Take, Inv, Places
  <1>2. pc' = [pc EXCEPT ![i] = "run"] /\ pc'[i] = "run" /\ pos'[i] = pos[i]
    BY DEF Take, Goto, Inv, Places
  <1> QED
    BY <1>1, <1>2 DEF Take, remote, Follows

\* A handler that ends has nothing more to follow.
LEMMA DoneFollows ==
  ASSUME Inv, NEW i \in Indexer, NEW q \in {"idle", "done"}, Goto(i, q),
         UNCHANGED <<chain, remote, pos, record, debited>>
  PROVE  Follows(i)
  <1>1. pos[i] \in Nat \ {0} /\ pos' = [pos EXCEPT ![i] = pos[i]]
    BY DEF Inv, Places
  <1>2. pc' = [pc EXCEPT ![i] = q] /\ pc'[i] = q
    BY DEF Goto, Inv, Places
  <1> QED
    BY <1>1, <1>2 DEF remote, Follows

\* The transaction at hand, while a handler runs.
LEMMA AtHand ==
  ASSUME Inv, NEW i \in Indexer, pc[i] \in {"run", "history", "record"}
  PROVE  pos[i] \in Id /\ pos[i] \in 1 .. Len(chain)
  BY PositionIsId DEF Inv, Places, AtWork

LEMMA SendFollows == ASSUME Inv, NEW i \in Indexer, Send(i) PROVE Follows(i)
  <1>1. CASE ~SendOK(i)
    BY <1>1, DoneFollows DEF Send
  <1>2. CASE SendOK(i)
    <2>1. pos[i] \in Id /\ pos[i] \in 1 .. Len(chain)
      BY AtHand DEF Send, At
    <2>2. debited[i] \in [Id -> Nat] /\ debited \in [Indexer -> [Id -> Nat]]
      BY DEF Inv, Places
    <2>3. debited' = [debited EXCEPT ![i] = OneMore(i)]
      BY <1>2 DEF Send, OneMore
    <2>4. debited'[i][pos[i]] > 0
      BY <2>1, <2>2, <2>3 DEF OneMore
    <2>5. pos' = [pos EXCEPT ![i] = pos[i]] /\ pos'[i] = pos[i] /\ pos[i] \in Nat \ {0}
      BY DEF Send, Inv, Places
    <2>6. pc' = [pc EXCEPT ![i] = "history"] /\ pc'[i] = "history"
      BY <1>2 DEF Send, Goto, Inv, Places
    <2>7. UNCHANGED <<chain, linked, minted, supply, packet, record>>
      BY DEF Send, remote
    <2>8. Len(chain) \in Nat
      BY DEF Inv, Places
    <2>9. \E p \in Nat \ {0} : pos' = [pos EXCEPT ![i] = p]
      BY <2>5
    <2>10. \E q \in {"idle", "run", "history", "record", "done"} : pc' = [pc EXCEPT ![i] = q]
      BY <2>6
    <2>11. pos'[i] = pos[i] /\ pc'[i] = "history"
      BY <2>5, <2>6
    <2>12. pos'[i] <= Len(chain) /\ (chain[pos'[i]].op = "send" => debited'[i][pos'[i]] > 0)
      BY <2>1, <2>3, <2>4, <2>7, <2>8, <2>11
    <2> QED
      BY <2>1, <2>3, <2>4, <2>7, <2>8, <2>9, <2>10, <2>12 DEF Follows
  <1> QED
    BY <1>1, <1>2

LEMMA RecvFollows == ASSUME Inv, NEW i \in Indexer, Recv(i) PROVE Follows(i)
  <1>1. CASE ~RecvOK(i)
    BY <1>1, DoneFollows DEF Recv
  <1>2. CASE RecvOK(i)
    <2>1. pos[i] \in 1 .. Len(chain) /\ chain[pos[i]].op = "recv" /\ Len(chain) \in Nat
      BY AtHand DEF Recv, At, tx, Inv, Places
    <2>2. pos' = [pos EXCEPT ![i] = pos[i]] /\ pos'[i] = pos[i] /\ pos[i] \in Nat \ {0}
      BY DEF Recv, Inv, Places
    <2>3. pc' = [pc EXCEPT ![i] = "history"] /\ pc'[i] = "history"
      BY <1>2 DEF Recv, Goto, Inv, Places
    <2>4. UNCHANGED <<chain, linked, minted, supply, packet, record, debited>>
      BY DEF Recv, remote
    <2>5. \E p \in Nat \ {0} : pos' = [pos EXCEPT ![i] = p]
      BY <2>2
    <2>6. \E q \in {"idle", "run", "history", "record", "done"} : pc' = [pc EXCEPT ![i] = q]
      BY <2>3
    <2>7. pos'[i] = pos[i] /\ pc'[i] = "history"
      BY <2>2, <2>3
    <2>8. pos'[i] <= Len(chain) /\ (chain[pos'[i]].op = "send" => debited'[i][pos'[i]] > 0)
      BY <2>1, <2>4, <2>7
    <2> QED
      BY <2>1, <2>4, <2>5, <2>6, <2>8 DEF Follows
  <1> QED
    BY <1>1, <1>2

LEMMA SaveHistoryFollows == ASSUME Inv, NEW i \in Indexer, SaveHistory(i) PROVE Follows(i)
  <1>1. CASE ~fresh[i]
    BY <1>1, DoneFollows DEF SaveHistory
  <1>2. CASE fresh[i]
    <2>1. pos[i] \in 1 .. Len(chain) /\ Len(chain) \in Nat
      BY AtHand DEF SaveHistory, Inv, Places
    <2>2. chain[pos[i]].op = "send" => debited[i][pos[i]] > 0
      BY DEF SaveHistory, Inv, TransferIsDebit, tx
    <2>3. pos' = [pos EXCEPT ![i] = pos[i]] /\ pos'[i] = pos[i] /\ pos[i] \in Nat \ {0}
      BY DEF SaveHistory, Inv, Places
    <2>4. pc' = [pc EXCEPT ![i] = "record"] /\ pc'[i] = "record"
      BY <1>2 DEF SaveHistory, Goto, Inv, Places
    <2>5. UNCHANGED <<chain, linked, minted, supply, packet, record, debited>>
      BY DEF SaveHistory, remote
    <2>6. \E p \in Nat \ {0} : pos' = [pos EXCEPT ![i] = p]
      BY <2>3
    <2>7. \E q \in {"idle", "run", "history", "record", "done"} : pc' = [pc EXCEPT ![i] = q]
      BY <2>4
    <2>8. pos'[i] = pos[i] /\ pc'[i] = "record"
      BY <2>3, <2>4
    <2>9. pos'[i] <= Len(chain) /\ (chain[pos'[i]].op = "send" => debited'[i][pos'[i]] > 0)
      BY <2>1, <2>2, <2>5, <2>8
    <2> QED
      BY <2>1, <2>2, <2>5, <2>6, <2>7, <2>9 DEF Follows
  <1> QED
    BY <1>1, <1>2

LEMMA SaveRecordFollows == ASSUME Inv, NEW i \in Indexer, SaveRecord(i) PROVE Follows(i)
  <1>1. pos[i] \in 1 .. Len(chain) /\ Len(chain) \in Nat
    BY AtHand DEF SaveRecord, Inv, Places
  <1>2. chain[pos[i]].op = "send" => debited[i][pos[i]] > 0
    BY DEF SaveRecord, Inv, TransferIsDebit, tx
  <1>3. pos' = [pos EXCEPT ![i] = pos[i]] /\ pos'[i] = pos[i] /\ pos[i] \in Nat \ {0}
    BY DEF SaveRecord, Inv, Places
  <1>4. pc' = [pc EXCEPT ![i] = "done"] /\ pc'[i] = "done"
    BY DEF SaveRecord, Goto, Inv, Places
  <1>5. UNCHANGED <<chain, linked, minted, supply, packet, debited>>
    BY DEF SaveRecord, remote
  <1>6. record' = [record EXCEPT ![i] = @ \cup {pos[i]}]
    BY DEF SaveRecord
  <1> QED
    BY <1>1, <1>2, <1>3, <1>4, <1>5, <1>6 DEF Follows

LEMMA SaveStatusFollows == ASSUME Inv, NEW i \in Indexer, SaveStatus(i) PROVE Follows(i)
  <1>1. pos' = [pos EXCEPT ![i] = pos[i] + 1] /\ pos[i] + 1 \in Nat \ {0}
    BY DEF SaveStatus, Inv, Places
  <1>2. pc' = [pc EXCEPT ![i] = "idle"] /\ pc'[i] = "idle"
    BY DEF SaveStatus, Goto, Inv, Places
  <1>3. UNCHANGED <<chain, linked, minted, supply, packet, record, debited>>
    BY DEF SaveStatus, remote
  <1> QED
    BY <1>1, <1>2, <1>3 DEF Follows

\* Where it goes back to, it has been: whatever was saved is there still.
LEMMA StopFollows == ASSUME Inv, NEW i \in Indexer, Stop(i) PROVE Follows(i)
  <1> DEFINE p == IF pos[i] > 1 THEN pos[i] - 1 ELSE pos[i]
  <1>1. pos' = [pos EXCEPT ![i] = p] /\ p \in Nat \ {0}
    BY DEF Stop, Inv, Places
  <1> HIDE DEF p
  <1>2. pc' = [pc EXCEPT ![i] = "idle"] /\ pc'[i] = "idle"
    BY DEF Stop, Goto, Inv, Places
  <1>3. UNCHANGED <<chain, linked, minted, supply, packet, record, debited>>
    BY DEF Stop, remote
  <1> QED
    BY <1>1, <1>2, <1>3 DEF Follows

LEMMA IndexerInv == ASSUME Inv, NEW i \in Indexer, Process(i) \/ Stop(i) PROVE Inv'
  <1>1. CASE Enable(i)
    BY <1>1, DoneFollows, FollowsInv DEF Enable
  <1> QED
    BY <1>1, TakeFollows, SendFollows, RecvFollows, SaveHistoryFollows,
       SaveRecordFollows, SaveStatusFollows, StopFollows, FollowsInv DEF Process
-----------------------------------------------------------------------------
(* The hub and the contract *)

\* A transaction that is included changes none of those before it.
LEMMA IncludeInv ==
  ASSUME Inv, NEW t \in Tx, Include(t), UNCHANGED minted,
         packet' \in Seq(Packet), Len(packet') <= MaxPackets
  PROVE  Inv'
  <1>1. UNCHANGED <<pos, rows, pc, fresh, bal, on, record, stops, debited>>
    BY DEF Include, indexers
  <1>2. /\ chain' \in Seq(Tx) /\ Len(chain') = Len(chain) + 1 /\ Len(chain) \in Nat
        /\ Len(chain') <= MaxTx
        /\ \A n \in 1 .. Len(chain) : chain'[n] = chain[n]
    BY BridgeAssumption DEF Include, Inv, Places
  <1>3. Places'
    BY <1>1, <1>2 DEF Inv, Places
  <1>4. AtWork'
    BY <1>1, <1>2 DEF Inv, AtWork, Places
  <1>5. TransferIsDebit'
    <2> SUFFICES ASSUME NEW i \in Indexer, pc[i] \in {"history", "record"},
                        chain'[pos[i]].op = "send"
                 PROVE  debited[i][pos[i]] > 0
      BY <1>1 DEF TransferIsDebit, tx
    <2>1. pos[i] \in 1 .. Len(chain)
      BY AtHand
    <2> QED
      BY <1>2, <2>1 DEF Inv, TransferIsDebit, tx
  <1>6. RecordIsDebit'
    <2> SUFFICES ASSUME NEW i \in Indexer, NEW n \in record[i]
                 PROVE  n <= Len(chain') /\ (chain'[n].op = "send" => debited[i][n] > 0)
      BY <1>1 DEF RecordIsDebit
    <2>1. n \in Id /\ n <= Len(chain)
      BY DEF Inv, RecordIsDebit, Places
    <2>2. n \in 1 .. Len(chain) /\ n <= Len(chain')
      BY <1>2, <2>1, BridgeAssumption DEF Id
    <2> QED
      BY <1>2, <2>2 DEF Inv, RecordIsDebit
  <1>7. MintIsSigned'
    BY <1>1, <1>2 DEF Inv, MintIsSigned, Signed
  <1> QED
    BY <1>3, <1>4, <1>5, <1>6, <1>7 DEF Inv

LEMMA SubmitInv == Inv /\ Submit => Inv'
  <1> SUFFICES ASSUME Inv, Submit PROVE Inv'
    OBVIOUS
  <1>1. PICK t \in Tx : Include(t) /\ UNCHANGED remote
    <2>1. 0 \in 0 .. MaxPackets
      BY BridgeAssumption
    <2>2. \A u, to \in User, k \in Token, a \in Amounts \cup {0}, o \in {"enable", "send"} :
             Operation(o, u, k, to, a) \in Tx
      BY <2>1 DEF Operation, Tx
    <2> QED
      BY <2>2, BridgeAssumption DEF Submit, SubmitEnable, SubmitSend, SubmitRefused
  <1> QED
    BY <1>1, IncludeInv DEF remote, Inv, Places

\* A step of the contract that sends, or sends again.
LEMMA ContractInv ==
  ASSUME Inv, UNCHANGED <<chain, indexers, minted>>,
         packet' \in Seq(Packet), Len(packet') <= MaxPackets
  PROVE  Inv'
  <1>1. UNCHANGED <<chain, pos, rows, pc, fresh, bal, on, record, stops, debited, minted>>
    BY DEF indexers
  <1> QED
    BY <1>1 DEF Inv, Places, AtWork, TransferIsDebit, RecordIsDebit, MintIsSigned, Signed, tx

LEMMA BurnInv ==
  ASSUME Inv, NEW k \in Token, NEW u \in User, NEW to \in User, NEW a \in Amounts,
         Burn(k, u, to, a)
  PROVE  Inv'
  <1> DEFINE p == [token |-> k, to |-> to, amount |-> a, at |-> "way", expired |-> 0]
  <1>1. p \in Packet
    BY BridgeAssumption DEF Packet
  <1>2. packet' = Append(packet, p) /\ Len(packet) < MaxPackets
    BY DEF Burn
  <1> HIDE DEF p
  <1>3. packet' \in Seq(Packet) /\ Len(packet') <= MaxPackets
    BY <1>1, <1>2, BridgeAssumption DEF Inv, Places
  <1> QED
    BY <1>3, ContractInv DEF Burn

LEMMA PacketsInv == Inv /\ Packets => Inv'
  <1> SUFFICES ASSUME Inv, NEW p \in 1 .. Len(packet), Relay(p) \/ Expire(p) \/ RetrySend(p)
               PROVE  Inv'
    BY DEF Packets
  <1>1. packet[p] \in Packet /\ Len(packet) \in Nat
    BY DEF Inv, Places
  <1>2. \A q \in Packet : [packet EXCEPT ![p] = q] \in Seq(Packet)
                          /\ Len([packet EXCEPT ![p] = q]) = Len(packet)
    BY DEF Inv, Places
  <1>3. CASE Relay(p)
    <2> DEFINE q == [packet[p] EXCEPT !.at = "done"]
               t == [op |-> "recv", sender |-> Contract, channel |-> TRUE,
                     token |-> packet[p].token, to |-> packet[p].to,
                     amount |-> packet[p].amount, packet |-> p]
    <2>1. q \in Packet
      BY <1>1 DEF Packet
    <2>2. t \in Tx
      BY <1>1, BridgeAssumption DEF Packet, Tx, Inv, Places
    <2>3. packet' = [packet EXCEPT ![p] = q] /\ Include(t) /\ UNCHANGED minted
      BY <1>3 DEF Relay
    <2> HIDE DEF q, t
    <2>4. packet' \in Seq(Packet) /\ Len(packet') <= MaxPackets
      BY <1>2, <2>1, <2>3 DEF Inv, Places
    <2> QED
      BY <2>2, <2>3, <2>4, IncludeInv
  <1>4. CASE Expire(p)
    <2> DEFINE q == [packet[p] EXCEPT !.at = "failed", !.expired = @ + 1]
    <2>1. q \in Packet
      BY <1>1, <1>4, BridgeAssumption DEF Packet, Expire
    <2>2. packet' = [packet EXCEPT ![p] = q]
      BY <1>4 DEF Expire
    <2> HIDE DEF q
    <2>3. packet' \in Seq(Packet) /\ Len(packet') <= MaxPackets
      BY <1>2, <2>1, <2>2 DEF Inv, Places
    <2> QED
      BY <1>4, <2>3, ContractInv DEF Expire
  <1>5. CASE RetrySend(p)
    <2> DEFINE q == [packet[p] EXCEPT !.at = "way"]
    <2>1. q \in Packet
      BY <1>1 DEF Packet
    <2>2. packet' = [packet EXCEPT ![p] = q]
      BY <1>5 DEF RetrySend
    <2> HIDE DEF q
    <2>3. packet' \in Seq(Packet) /\ Len(packet') <= MaxPackets
      BY <1>2, <2>1, <2>2 DEF Inv, Places
    <2> QED
      BY <1>5, <2>3, ContractInv DEF RetrySend
  <1> QED
    BY <1>3, <1>4, <1>5

\* The contract asks for the signature of every indexer.
LEMMA MintInv == ASSUME Inv, NEW n \in Id, Mint(n) PROVE Inv'
  <1>1. UNCHANGED <<chain, pos, rows, pc, fresh, bal, on, record, stops, debited, packet>>
    BY DEF Mint, indexers
  <1>2. minted' = minted \cup {n} /\ n \in 1 .. Len(chain) /\ chain[n].op = "send" /\ Signed(n)
    BY DEF Mint
  <1>3. MintIsSigned'
    BY <1>1, <1>2 DEF Inv, MintIsSigned, Signed
  <1> QED
    BY <1>1, <1>3 DEF Inv, Places, AtWork, TransferIsDebit, RecordIsDebit, tx

LEMMA NextInv == Inv /\ [BridgeNext]_bridgeVars => Inv'
  <1> SUFFICES ASSUME Inv, [BridgeNext]_bridgeVars PROVE Inv'
    OBVIOUS
  <1>1. CASE \E i \in Indexer : Process(i) \/ Stop(i)
    BY <1>1, IndexerInv
  <1>2. CASE Submit
    BY <1>2, SubmitInv
  <1>3. CASE Packets
    BY <1>3, PacketsInv
  <1>4. CASE \E k \in Token : Link(k)
    BY <1>4, ContractInv DEF Link, Inv, Places
  <1>5. CASE \E k \in Token, u, to \in User, a \in Amounts : Burn(k, u, to, a)
    BY <1>5, BurnInv
  <1>6. CASE \E n \in Id : Mint(n)
    BY <1>6, MintInv
  <1>7. CASE UNCHANGED bridgeVars
    BY <1>7, ContractInv DEF bridgeVars, remote, Inv, Places
  <1> QED
    BY <1>1, <1>2, <1>3, <1>4, <1>5, <1>6, <1>7 DEF BridgeNext

\* However many indexers stop, whenever they do and whatever they run again:
\* what the contract has minted, each of them has debited.
THEOREM MintedIsAlwaysDebited == BridgeSpec => []MintedIsDebited
  <1>1. Inv => MintedIsDebited
    BY DEF Inv, MintIsSigned, RecordIsDebit, MintedIsDebited, Signed
  <1> QED
    BY <1>1, InitInv, NextInv, PTL DEF BridgeSpec
-----------------------------------------------------------------------------
(* Nothing is lost: what the argument adds *)

\* A handler has a transaction until its block is done.
OnChain == \A i \in Indexer : pc[i] # "idle" => pos[i] <= Len(chain)

\* Only what the contract relays comes from the contract.
SentByUsers == \A n \in 1 .. Len(chain) : chain[n].op # "recv" => chain[n].sender \in User

\* A recv that an indexer credits: it is of a packet that is done with, and no
\* two are of the same one.
Genuine(t) == t.op = "recv" /\ t.sender = Contract /\ t.channel

OfPacket(t) ==
    /\ t.packet \in 1 .. Len(packet) /\ packet[t.packet].at = "done"
    /\ packet[t.packet].token = t.token /\ packet[t.packet].amount = t.amount

PacketsReturn ==
    /\ \A n \in 1 .. Len(chain) : Genuine(chain[n]) => OfPacket(chain[n])
    /\ \A m, n \in 1 .. Len(chain) :
          Genuine(chain[m]) /\ Genuine(chain[n]) /\ chain[m].packet = chain[n].packet
          => m = n

CreditsAreReturns ==
    \A i \in Indexer :
        /\ \A n \in Recvs(i) : Genuine(chain[n])
        /\ pc[i] \in {"history", "record"} /\ tx(i).op = "recv" => Genuine(tx(i))

\* An indexer that has never been stopped meets each transaction once, and its
\* handlers all have an ID.
FirstRun(i) ==
    /\ rows[i] = IF pc[i] = "idle" THEN pos[i] - 1 ELSE pos[i]
    /\ pc[i] # "idle" => fresh[i]
    /\ record[i] \subseteq 1 .. pos[i]
    /\ pos[i] \in record[i] => pc[i] = "done"

FirstRuns == \A i \in Indexer : stops[i] = 0 => FirstRun(i)

\* What a handler has taken from the ledger and not recorded, or given to it.
InHand(i, t, op) ==
    IF pc[i] \in {"history", "record"} /\ tx(i).op = op /\ tx(i).token = t
    THEN tx(i).amount ELSE 0

Even(i, t) ==
    Everywhere(i, t) + InHand(i, t, "send") = Funds * Cardinality(User) + InHand(i, t, "recv")

Balanced == \A i \in Indexer, t \in Token : stops[i] = 0 => Even(i, t)

BridgeIInv ==
    /\ Inv /\ BridgeTypeOK /\ OnChain /\ SentByUsers
    /\ PacketsReturn /\ CreditsAreReturns /\ FirstRuns /\ Balanced
-----------------------------------------------------------------------------
(* Types *)

\* An indexer's step leaves the chain, the contract and the other indexers alone.
LEMMA OwnStep ==
  ASSUME BridgeTypeOK, NEW j \in Indexer, Process(j) \/ Stop(j)
  PROVE  /\ UNCHANGED <<chain, linked, minted, supply, packet>>
         /\ \A i \in Indexer \ {j} :
               /\ pos'[i] = pos[i] /\ rows'[i] = rows[i] /\ pc'[i] = pc[i]
               /\ fresh'[i] = fresh[i] /\ bal'[i] = bal[i] /\ on'[i] = on[i]
               /\ record'[i] = record[i] /\ stops'[i] = stops[i]
  <1>1. CASE Take(j)
    BY <1>1 DEF Take, Goto, remote, BridgeTypeOK
  <1>2. CASE Enable(j)
    BY <1>2 DEF Enable, Goto, remote, BridgeTypeOK
  <1>3. CASE Send(j)
    BY <1>3 DEF Send, Goto, remote, BridgeTypeOK
  <1>4. CASE Recv(j)
    BY <1>4 DEF Recv, Goto, remote, BridgeTypeOK
  <1>5. CASE SaveHistory(j) \/ SaveRecord(j) \/ SaveStatus(j) \/ Stop(j)
    BY <1>5 DEF SaveHistory, SaveRecord, SaveStatus, Stop, Goto, remote, BridgeTypeOK
  <1> QED
    BY <1>1, <1>2, <1>3, <1>4, <1>5 DEF Process

LEMMA TxFields ==
  ASSUME NEW x \in Tx
  PROVE  /\ x.token \in Token /\ x.to \in User /\ x.amount \in Nat
         /\ x.sender \in User \cup {Contract}
  <1>1. x.token \in Token /\ x.to \in User /\ x.amount \in Amounts \cup {0}
        /\ x.sender \in User \cup {Contract}
    BY DEF Tx
  <1>2. Amounts \cup {0} \subseteq Nat
    BY BridgeAssumption
  <1> QED
    BY <1>1, <1>2

LEMMA AtPosition ==
  ASSUME BridgeTypeOK, OnChain, NEW j \in Indexer, pc[j] # "idle"
  PROVE  pos[j] \in 1 .. Len(chain) /\ chain[pos[j]] \in Tx /\ tx(j) = chain[pos[j]]
  BY DEF OnChain, BridgeTypeOK, tx

\* Nothing is taken from a balance that it does not have.
LEMMA BalanceType ==
  ASSUME BridgeTypeOK, OnChain, SentByUsers, NEW j \in Indexer, Process(j) \/ Stop(j)
  PROVE  bal' \in [Indexer -> [Token \X User -> Nat]]
  <1> DEFINE Ledgers == [Token \X User -> Nat]
  <1>1. bal \in [Indexer -> Ledgers] /\ bal[j] \in Ledgers
    BY DEF BridgeTypeOK
  <1>2. CASE bal' = bal
    BY <1>1, <1>2
  <1>3. CASE Send(j) /\ SendOK(j)
    <2>1. pos[j] \in 1 .. Len(chain) /\ chain[pos[j]] \in Tx /\ tx(j).op = "send"
      BY <1>3, AtPosition DEF Send, At
    <2>2. tx(j).token \in Token /\ tx(j).sender \in User /\ tx(j).amount \in Nat
      BY <2>1, TxFields DEF SentByUsers, tx
    <2>3. From(j) \in Token \X User
      BY <2>2 DEF From
    <2>4. bal[j][From(j)] \in Nat /\ bal[j][From(j)] - tx(j).amount \in Nat
      BY <1>1, <1>3, <2>2, <2>3 DEF SendOK
    <2>5. [bal[j] EXCEPT ![From(j)] = @ - tx(j).amount] \in Ledgers
      BY <1>1, <2>4
    <2>6. bal' = [bal EXCEPT ![j] = [bal[j] EXCEPT ![From(j)] = @ - tx(j).amount]]
      BY <1>3 DEF Send
    <2> HIDE DEF Ledgers
    <2>7. bal' \in [Indexer -> Ledgers]
      BY <1>1, <2>5, <2>6
    <2> QED
      BY <2>7 DEF Ledgers
  <1>4. CASE Recv(j) /\ RecvOK(j)
    <2>1. pos[j] \in 1 .. Len(chain) /\ chain[pos[j]] \in Tx
      BY <1>4, AtPosition DEF Recv, At
    <2>2. To(j) \in Token \X User /\ tx(j).amount \in Nat
      BY <2>1, TxFields DEF tx, To
    <2>3. [bal[j] EXCEPT ![To(j)] = @ + tx(j).amount] \in Ledgers
      BY <1>1, <2>2
    <2>4. bal' = [bal EXCEPT ![j] = [bal[j] EXCEPT ![To(j)] = @ + tx(j).amount]]
      BY <1>4 DEF Recv
    <2> HIDE DEF Ledgers
    <2>7. bal' \in [Indexer -> Ledgers]
      BY <1>1, <2>3, <2>4
    <2> QED
      BY <2>7 DEF Ledgers
  <1> QED
    BY <1>2, <1>3, <1>4 DEF Process, Take, Enable, Send, Recv, SaveHistory, SaveRecord,
       SaveStatus, Stop

LEMMA OwnTypes ==
  ASSUME Inv, Inv', BridgeTypeOK, OnChain, SentByUsers, NEW j \in Indexer,
         Process(j) \/ Stop(j)
  PROVE  BridgeTypeOK' /\ OnChain'
  <1> DEFINE len == Len(chain)
  <1>1. chain' = chain /\ linked' = linked /\ minted' = minted /\ supply' = supply
        /\ packet' = packet
    BY OwnStep
  <1>2. bal' \in [Indexer -> [Token \X User -> Nat]]
    BY BalanceType
  <1>3. /\ len \in Nat /\ pos[j] \in 1 .. len + 1 /\ rows[j] \in 0 .. len
        /\ stops[j] \in 0 .. MaxStops /\ MaxStops \in Nat
    BY BridgeAssumption DEF BridgeTypeOK
  <1>4. pc[j] # "idle" => pos[j] <= len
    BY DEF OnChain
  <1> HIDE DEF len
  <1>5. /\ pos' \in [Indexer -> 1 .. len + 1]
        /\ rows' \in [Indexer -> 0 .. len]
        /\ fresh' \in [Indexer -> BOOLEAN] /\ stops' \in [Indexer -> 0 .. MaxStops]
        /\ pc'[j] # "idle" => pos'[j] <= len
    <2>1. /\ pos \in [Indexer -> 1 .. len + 1]
          /\ rows \in [Indexer -> 0 .. len]
          /\ fresh \in [Indexer -> BOOLEAN] /\ stops \in [Indexer -> 0 .. MaxStops]
          /\ pc \in [Indexer -> {"idle", "run", "history", "record", "done"}]
      BY DEF BridgeTypeOK, len
    <2>2. CASE Take(j)
      <3>1. pos' = pos /\ stops' = stops /\ pos[j] <= len
        BY <2>2 DEF Take, len
      <3>2. fresh' \in [Indexer -> BOOLEAN]
        <4> DEFINE b == pos[j] > rows[j]
        <4>1. b \in BOOLEAN
          OBVIOUS
        <4>2. fresh' = [fresh EXCEPT ![j] = b]
          BY <2>2, Zenon DEF Take
        <4> HIDE DEF b
        <4> QED
          BY <2>1, <4>1, <4>2, Zenon
      <3>3. rows' = [rows EXCEPT ![j] = IF pos[j] > rows[j] THEN pos[j] ELSE rows[j]]
        BY <2>2 DEF Take
      <3>4. rows' \in [Indexer -> 0 .. len]
        BY <1>3, <2>1, <3>1, <3>3
      <3> QED
        BY <2>1, <3>1, <3>2, <3>4
    <2>3. CASE Enable(j) \/ Send(j) \/ Recv(j) \/ SaveHistory(j) \/ SaveRecord(j)
      <3>1. UNCHANGED <<pos, rows, fresh, stops>> /\ pc[j] # "idle"
        BY <2>3 DEF Enable, Send, Recv, SaveHistory, SaveRecord, At
      <3> QED
        BY <1>4, <2>1, <3>1
    <2>4. CASE SaveStatus(j)
      <3>1. UNCHANGED <<rows, fresh, stops>> /\ pos' = [pos EXCEPT ![j] = pos[j] + 1]
            /\ pos[j] <= len /\ pc' = [pc EXCEPT ![j] = "idle"]
        BY <1>4, <2>4 DEF SaveStatus, Goto
      <3> QED
        BY <1>3, <2>1, <3>1
    <2>5. CASE Stop(j)
      <3>1. UNCHANGED <<rows, fresh>> /\ stops' = [stops EXCEPT ![j] = stops[j] + 1]
            /\ pos' = [pos EXCEPT ![j] = IF pos[j] > 1 THEN pos[j] - 1 ELSE pos[j]]
            /\ stops[j] < MaxStops /\ pc' = [pc EXCEPT ![j] = "idle"]
        BY <2>5 DEF Stop, Goto
      <3> QED
        BY <1>3, <2>1, <3>1
    <2> QED
      BY <2>2, <2>3, <2>4, <2>5 DEF Process
  <1>6. on' \in [Indexer -> SUBSET Token]
    <2>1. CASE Enable(j)
      <3>1. tx(j).token \in Token
        BY <2>1, AtPosition, TxFields DEF Enable, At
      <3> QED
        BY <2>1, <3>1 DEF Enable, BridgeTypeOK
    <2>2. CASE ~Enable(j)
      BY <2>2 DEF Process, Take, Send, Recv, SaveHistory, SaveRecord, SaveStatus, Stop,
         BridgeTypeOK
    <2> QED
      BY <2>1, <2>2
  <1>7. OnChain'
    BY <1>1, <1>5, OwnStep DEF OnChain, len
  <1>8. BridgeTypeOK'
    BY <1>1, <1>2, <1>5, <1>6 DEF BridgeTypeOK, Inv, Places, len
  <1> QED
    BY <1>7, <1>8

\* The hub and the contract leave the indexers alone.
LEMMA OtherTypes ==
  ASSUME Inv', BridgeTypeOK, OnChain, UNCHANGED indexers, Len(chain') >= Len(chain),
         linked' \subseteq Token, minted' \subseteq Id, supply' \in [Token \X User -> Nat]
  PROVE  BridgeTypeOK' /\ OnChain'
  <1>1. UNCHANGED <<pos, rows, pc, fresh, bal, on, record, stops, debited>>
    BY DEF indexers
  <1>2. Len(chain) \in Nat /\ Len(chain') \in Nat
    BY DEF BridgeTypeOK, Inv, Places
  <1>3. pos \in [Indexer -> 1 .. Len(chain') + 1] /\ rows \in [Indexer -> 0 .. Len(chain')]
    BY <1>2 DEF BridgeTypeOK
  <1>4. OnChain'
    BY <1>1, <1>2 DEF OnChain, BridgeTypeOK
  <1>5. Places'
    BY DEF Inv
  <1>6. /\ rows' \in [Indexer -> 0 .. Len(chain')] /\ pos' \in [Indexer -> 1 .. Len(chain') + 1]
        /\ stops' \in [Indexer -> 0 .. MaxStops]
        /\ bal' \in [Indexer -> [Token \X User -> Nat]] /\ on' \in [Indexer -> SUBSET Token]
    BY <1>1, <1>3 DEF BridgeTypeOK
  <1>7. fresh' \in [Indexer -> BOOLEAN]
    BY <1>1, Zenon DEF BridgeTypeOK
  <1> QED
    BY <1>4, <1>5, <1>6, <1>7 DEF BridgeTypeOK, Places

LEMMA Appended ==
  ASSUME BridgeTypeOK, NEW t \in Tx, Include(t)
  PROVE  /\ UNCHANGED <<pos, rows, pc, fresh, bal, on, record, stops, debited>>
         /\ Len(chain) \in Nat /\ Len(chain') = Len(chain) + 1
         /\ chain'[Len(chain) + 1] = t
         /\ \A n \in 1 .. Len(chain) : chain'[n] = chain[n]
  BY DEF Include, indexers, BridgeTypeOK

LEMMA Submitted ==
  ASSUME Submit
  PROVE  \E t \in Tx : /\ Include(t) /\ UNCHANGED remote
                       /\ t.op # "recv" => t.sender \in User
                       /\ ~(t.op = "recv" /\ t.sender = Contract /\ t.channel)
  <1>1. 0 \in 0 .. MaxPackets
    BY BridgeAssumption
  <1>2. ASSUME NEW u \in User, NEW to \in User, NEW k \in Token, NEW a \in Amounts \cup {0},
               NEW o \in {"enable", "send"}
        PROVE  /\ Operation(o, u, k, to, a) \in Tx
               /\ Operation(o, u, k, to, a).op = o /\ Operation(o, u, k, to, a).sender = u
    BY <1>1 DEF Operation, Tx
  <1>3. CASE \E u \in User, k \in Token : SubmitEnable(u, k)
    BY <1>2, <1>3 DEF SubmitEnable
  <1>4. CASE \E u, to \in User, k \in Token, a \in Amounts : SubmitSend(u, k, to, a)
    BY <1>2, <1>4 DEF SubmitSend
  <1>5. CASE SubmitRefused
    <2>1. PICK t \in Refused : Include(t) /\ UNCHANGED remote
      BY <1>5 DEF SubmitRefused
    <2>2. t \in Tx /\ t.op = "recv" /\ (t.sender # Contract \/ ~t.channel)
      BY <2>1, BridgeAssumption, Zenon
    <2> QED
      BY <2>1, <2>2, Zenon
  <1> QED
    BY <1>3, <1>4, <1>5 DEF Submit

\* What a packet is for, it is for until its end.
SamePackets ==
    /\ Len(packet') = Len(packet)
    /\ \A p \in 1 .. Len(packet) :
          packet'[p].token = packet[p].token /\ packet'[p].amount = packet[p].amount

\* The transaction that a relayer includes.
ReturnOf(p) ==
    [op |-> "recv", sender |-> Contract, channel |-> TRUE, token |-> packet[p].token,
     to |-> packet[p].to, amount |-> packet[p].amount, packet |-> p]

LEMMA Packeted ==
  ASSUME BridgeTypeOK, NEW p \in 1 .. Len(packet), Relay(p) \/ Expire(p) \/ RetrySend(p)
  PROVE  /\ SamePackets /\ UNCHANGED <<linked, minted, supply>>
         /\ packet[p].at # "done"
         /\ \A q \in 1 .. Len(packet) : q # p => packet'[q] = packet[q]
         /\ \/ UNCHANGED <<chain, indexers>>
            \/ Include(ReturnOf(p)) /\ ReturnOf(p) \in Tx /\ packet'[p].at = "done"
  <1>1. packet \in Seq(Packet) /\ packet[p] \in Packet /\ Len(packet) \in Nat
        /\ Len(packet) <= MaxPackets
    BY DEF BridgeTypeOK
  <1>2. /\ SamePackets /\ \A q \in 1 .. Len(packet) : q # p => packet'[q] = packet[q]
        /\ UNCHANGED <<linked, minted, supply>> /\ packet[p].at # "done"
    <2>1. PICK q : /\ packet' = [packet EXCEPT ![p] = q]
                   /\ q.token = packet[p].token /\ q.amount = packet[p].amount
      <3>1. CASE Relay(p)
        <4> DEFINE q == [packet[p] EXCEPT !.at = "done"]
        <4>1. packet' = [packet EXCEPT ![p] = q]
          BY <3>1 DEF Relay
        <4>2. q.token = packet[p].token /\ q.amount = packet[p].amount
          BY <1>1 DEF Packet
        <4> QED
          BY <4>1, <4>2
      <3>2. CASE Expire(p)
        <4> DEFINE q == [packet[p] EXCEPT !.at = "failed", !.expired = @ + 1]
        <4>1. packet' = [packet EXCEPT ![p] = q]
          BY <3>2 DEF Expire
        <4>2. q.token = packet[p].token /\ q.amount = packet[p].amount
          BY <1>1 DEF Packet
        <4> QED
          BY <4>1, <4>2
      <3>3. CASE RetrySend(p)
        <4> DEFINE q == [packet[p] EXCEPT !.at = "way"]
        <4>1. packet' = [packet EXCEPT ![p] = q]
          BY <3>3 DEF RetrySend
        <4>2. q.token = packet[p].token /\ q.amount = packet[p].amount
          BY <1>1 DEF Packet
        <4> QED
          BY <4>1, <4>2
      <3> QED
        BY <3>1, <3>2, <3>3
    <2>2. UNCHANGED <<linked, minted, supply>> /\ packet[p].at # "done"
      BY DEF Relay, Expire, RetrySend
    <2> QED
      BY <1>1, <2>1, <2>2 DEF SamePackets
  <1>3. ReturnOf(p) \in Tx
    BY <1>1, BridgeAssumption DEF ReturnOf, Tx, Packet
  <1>4. CASE Relay(p)
    <2>1. packet'[p].at = "done"
      BY <1>1, <1>4 DEF Relay, Packet
    <2> QED
      BY <1>2, <1>3, <1>4, <2>1 DEF Relay, ReturnOf
  <1> QED
    BY <1>2, <1>4 DEF Expire, RetrySend

LEMMA Burnt ==
  ASSUME BridgeTypeOK, NEW k \in Token, NEW u \in User, NEW to \in User, NEW a \in Amounts,
         Burn(k, u, to, a)
  PROVE  /\ UNCHANGED <<chain, indexers, linked, minted>>
         /\ Len(packet) \in Nat /\ Len(packet') = Len(packet) + 1 /\ Len(packet) < MaxPackets
         /\ \A p \in 1 .. Len(packet) : packet'[p] = packet[p]
         /\ packet'[Len(packet) + 1].token = k /\ packet'[Len(packet) + 1].amount = a
         /\ a \in Nat
         /\ supply' \in [Token \X User -> Nat] /\ supply'[<<k, u>>] = supply[<<k, u>>] - a
         /\ \A h \in Token \X User : h # <<k, u>> => supply'[h] = supply[h]
  <1>1. a \in Nat /\ <<k, u>> \in Token \X User /\ supply \in [Token \X User -> Nat]
    BY BridgeAssumption DEF BridgeTypeOK
  <1>2. supply[<<k, u>>] - a \in Nat
    BY <1>1 DEF Burn
  <1>3. supply' \in [Token \X User -> Nat] /\ supply'[<<k, u>>] = supply[<<k, u>>] - a
        /\ \A h \in Token \X User : h # <<k, u>> => supply'[h] = supply[h]
    BY <1>1, <1>2 DEF Burn
  <1> QED
    BY <1>1, <1>3 DEF Burn, BridgeTypeOK

LEMMA Minted ==
  ASSUME BridgeTypeOK, NEW n \in Id, Mint(n)
  PROVE  /\ UNCHANGED <<chain, indexers, linked, packet>> /\ minted' = minted \cup {n}
         /\ chain[n].token \in Token /\ chain[n].to \in User /\ chain[n].amount \in Nat
         /\ supply' \in [Token \X User -> Nat]
         /\ supply'[<<chain[n].token, chain[n].to>>]
               = supply[<<chain[n].token, chain[n].to>>] + chain[n].amount
         /\ \A h \in Token \X User :
               h # <<chain[n].token, chain[n].to>> => supply'[h] = supply[h]
  <1> DEFINE h == <<chain[n].token, chain[n].to>>
  <1>1. chain[n] \in Tx
    BY DEF Mint, BridgeTypeOK
  <1>2. h \in Token \X User /\ chain[n].amount \in Nat /\ supply \in [Token \X User -> Nat]
    BY <1>1, TxFields DEF BridgeTypeOK
  <1>3. supply' = [supply EXCEPT ![h] = @ + chain[n].amount]
    BY DEF Mint
  <1>4. supply[h] + chain[n].amount \in Nat
    BY <1>2
  <1>5. /\ supply' \in [Token \X User -> Nat]
        /\ supply'[h] = supply[h] + chain[n].amount
        /\ \A g \in Token \X User : g # h => supply'[g] = supply[g]
    BY <1>2, <1>3, <1>4
  <1>6. chain[n].token \in Token /\ chain[n].to \in User
    BY <1>1, TxFields
  <1> QED
    BY <1>2, <1>5, <1>6 DEF Mint

\* The steps of the system, as those of an indexer and the others.
Outside ==
    \/ Submit \/ Packets
    \/ \E k \in Token : Link(k) \/ \E u, to \in User, a \in Amounts : Burn(k, u, to, a)
    \/ \E n \in Id : Mint(n)

LEMMA Steps ==
  BridgeNext <=> (\E i \in Indexer : Process(i) \/ Stop(i)) \/ Outside
  BY DEF BridgeNext, Outside

\* What may happen to the chain and the packets.
LEMMA OutsideSteps ==
  ASSUME BridgeTypeOK, Outside
  PROVE  \/ \E t \in Tx : /\ Include(t) /\ UNCHANGED remote
                          /\ t.op # "recv" => t.sender \in User
                          /\ ~(t.op = "recv" /\ t.sender = Contract /\ t.channel)
         \/ \E p \in 1 .. Len(packet) : Relay(p) \/ Expire(p) \/ RetrySend(p)
         \/ UNCHANGED <<chain, packet, supply, minted, indexers>> /\ linked' \subseteq Token
         \/ \E k \in Token, u, to \in User, a \in Amounts : Burn(k, u, to, a)
         \/ \E n \in Id : Mint(n)
  <1>1. CASE Submit
    BY <1>1, Submitted
  <1>2. CASE Packets
    BY <1>2 DEF Packets
  <1>3. CASE \E k \in Token : Link(k)
    BY <1>3 DEF Link, BridgeTypeOK
  <1> QED
    BY <1>1, <1>2, <1>3 DEF Outside

LEMMA OutsideTypes ==
  ASSUME Inv, Inv', BridgeTypeOK, OnChain, Outside
  PROVE  BridgeTypeOK' /\ OnChain'
  <1>0. /\ linked \subseteq Token /\ minted \subseteq Id /\ Len(chain) \in Nat
        /\ supply \in [Token \X User -> Nat]
    BY DEF BridgeTypeOK
  <1>1. ASSUME NEW t \in Tx, Include(t), UNCHANGED <<linked, minted, supply>>
        PROVE  BridgeTypeOK' /\ OnChain'
    <2>1. UNCHANGED indexers /\ Len(chain') >= Len(chain)
      BY <1>1, Appended DEF Include
    <2>2. linked' \subseteq Token /\ minted' \subseteq Id /\ supply' \in [Token \X User -> Nat]
      BY <1>0, <1>1
    <2> QED
      BY <2>1, <2>2, OtherTypes
  <1>2. ASSUME UNCHANGED <<chain, indexers>>, linked' \subseteq Token, minted' \subseteq Id,
               supply' \in [Token \X User -> Nat]
        PROVE  BridgeTypeOK' /\ OnChain'
    <2>1. Len(chain') >= Len(chain)
      BY <1>0, <1>2
    <2> QED
      BY <1>2, <2>1, OtherTypes
  <1>3. ASSUME NEW p \in 1 .. Len(packet), Relay(p) \/ Expire(p) \/ RetrySend(p)
        PROVE  BridgeTypeOK' /\ OnChain'
    <2>1. UNCHANGED <<linked, minted, supply>>
      BY <1>3, Packeted
    <2>2. \/ UNCHANGED <<chain, indexers>>
          \/ Include(ReturnOf(p)) /\ ReturnOf(p) \in Tx
      BY <1>3, Packeted
    <2>3. CASE UNCHANGED <<chain, indexers>>
      <3>1. linked' \subseteq Token /\ minted' \subseteq Id /\ supply' \in [Token \X User -> Nat]
        BY <1>0, <2>1
      <3> QED
        BY <1>2, <2>3, <3>1
    <2> QED
      BY <1>1, <2>1, <2>2, <2>3
  <1>4. ASSUME NEW k \in Token, NEW u \in User, NEW to \in User, NEW a \in Amounts,
               Burn(k, u, to, a)
        PROVE  BridgeTypeOK' /\ OnChain'
    <2>1. /\ UNCHANGED <<chain, indexers, linked, minted>>
          /\ supply' \in [Token \X User -> Nat]
      BY <1>4, Burnt
    <2> QED
      BY <1>0, <1>2, <2>1
  <1>5. ASSUME NEW n \in Id, Mint(n)
        PROVE  BridgeTypeOK' /\ OnChain'
    <2>1. /\ UNCHANGED <<chain, indexers, linked>> /\ minted' = minted \cup {n}
          /\ supply' \in [Token \X User -> Nat]
      BY <1>5, Minted
    <2> QED
      BY <1>0, <1>2, <2>1
  <1>6. CASE UNCHANGED <<chain, packet, supply, minted, indexers>> /\ linked' \subseteq Token
    BY <1>0, <1>2, <1>6
  <1>7. CASE \E t \in Tx : Include(t) /\ UNCHANGED remote
    BY <1>1, <1>7 DEF remote
  <1> QED
    BY <1>3, <1>4, <1>5, <1>6, <1>7, OutsideSteps
-----------------------------------------------------------------------------
(* Packets and what comes of them *)

\* A transaction that is included changes what the chain says of none before it.
LEMMA MoreReturns ==
  ASSUME BridgeTypeOK, SentByUsers, PacketsReturn, NEW t \in Tx, Include(t),
         t.op # "recv" => t.sender \in User,
         Len(packet') = Len(packet),
         \A p \in 1 .. Len(packet) :
            /\ packet'[p].token = packet[p].token /\ packet'[p].amount = packet[p].amount
            /\ packet[p].at = "done" => packet'[p].at = "done",
         t.op = "recv" /\ t.sender = Contract /\ t.channel =>
            /\ t.packet \in 1 .. Len(packet) /\ packet'[t.packet].at = "done"
            /\ packet[t.packet].at # "done"
            /\ packet[t.packet].token = t.token /\ packet[t.packet].amount = t.amount
  PROVE  SentByUsers' /\ PacketsReturn'
  <1>1. /\ Len(chain) \in Nat /\ Len(chain') = Len(chain) + 1 /\ chain'[Len(chain) + 1] = t
        /\ \A n \in 1 .. Len(chain) : chain'[n] = chain[n]
    BY Appended
  <1>2. SentByUsers'
    BY <1>1 DEF SentByUsers
  <1>3. \A x \in Tx : OfPacket(x) => OfPacket(x)'
    BY DEF OfPacket
  <1>4. \A n \in 1 .. Len(chain) : chain[n] \in Tx
    BY DEF BridgeTypeOK
  <1>5. \A n \in 1 .. Len(chain) : Genuine(chain[n]) => OfPacket(chain[n])
    BY DEF PacketsReturn
  <1>6. Genuine(t) => /\ OfPacket(t)'
                      /\ \A n \in 1 .. Len(chain) :
                            Genuine(chain[n]) => chain[n].packet # t.packet
    <2> SUFFICES ASSUME Genuine(t)
                 PROVE  /\ OfPacket(t)'
                        /\ \A n \in 1 .. Len(chain) :
                              Genuine(chain[n]) => chain[n].packet # t.packet
      OBVIOUS
    <2>1. /\ t.packet \in 1 .. Len(packet) /\ packet'[t.packet].at = "done"
          /\ packet[t.packet].at # "done"
          /\ packet[t.packet].token = t.token /\ packet[t.packet].amount = t.amount
      BY DEF Genuine
    <2>2. OfPacket(t)'
      BY <2>1 DEF OfPacket
    <2> QED
      BY <1>5, <2>1, <2>2 DEF OfPacket
  <1>7. \A n \in 1 .. Len(chain') :
           \/ n \in 1 .. Len(chain) /\ chain'[n] = chain[n]
           \/ n = Len(chain) + 1 /\ chain'[n] = t
    BY <1>1
  <1>8. \A n \in 1 .. Len(chain') : Genuine(chain'[n]) => OfPacket(chain[n])'
    <2> SUFFICES ASSUME NEW n \in 1 .. Len(chain'), NEW x, x = chain'[n], Genuine(x)
                 PROVE  OfPacket(x)'
      BY DEF OfPacket
    <2> QED
      BY <1>3, <1>4, <1>5, <1>6, <1>7
  <1>9. ASSUME NEW m \in 1 .. Len(chain'), NEW n \in 1 .. Len(chain'),
               Genuine(chain'[m]), Genuine(chain'[n]), chain'[m].packet = chain'[n].packet
        PROVE  m = n
    <2>1. CASE m \in 1 .. Len(chain) /\ n \in 1 .. Len(chain)
      BY <1>1, <1>9, <2>1 DEF PacketsReturn
    <2> QED
      BY <1>6, <1>7, <1>9, <2>1
  <1>10. PacketsReturn'
    BY <1>8, <1>9 DEF PacketsReturn
  <1> QED
    BY <1>2, <1>10

LEMMA KeptReturns ==
  ASSUME BridgeTypeOK, SentByUsers, PacketsReturn, UNCHANGED chain,
         Len(packet') \in Nat, Len(packet') >= Len(packet),
         \A p \in 1 .. Len(packet) :
            /\ packet'[p].token = packet[p].token /\ packet'[p].amount = packet[p].amount
            /\ packet[p].at = "done" => packet'[p].at = "done"
  PROVE  SentByUsers' /\ PacketsReturn'
  <1>1. SentByUsers'
    BY DEF SentByUsers
  <1>2. Len(packet) \in Nat /\ 1 .. Len(packet) \subseteq 1 .. Len(packet')
    BY DEF BridgeTypeOK
  <1>3. \A x : OfPacket(x) => OfPacket(x)'
    BY <1>2 DEF OfPacket
  <1>4. \A n \in 1 .. Len(chain) : OfPacket(chain[n]) => OfPacket(chain[n])'
    <2> SUFFICES ASSUME NEW n \in 1 .. Len(chain), NEW x, x = chain[n], x = chain'[n], OfPacket(x)
                 PROVE  OfPacket(x)'
      BY DEF OfPacket
    <2> QED
      BY <1>3
  <1> QED
    BY <1>1, <1>4 DEF PacketsReturn

LEMMA ReturnsStep ==
  ASSUME BridgeTypeOK, SentByUsers, PacketsReturn, BridgeNext
  PROVE  SentByUsers' /\ PacketsReturn'
  <1>0. Len(packet) \in Nat
    BY DEF BridgeTypeOK
  <1>1. ASSUME NEW t \in Tx, Include(t), UNCHANGED remote, t.op # "recv" => t.sender \in User,
               ~(t.op = "recv" /\ t.sender = Contract /\ t.channel)
        PROVE  SentByUsers' /\ PacketsReturn'
    <2>1. packet' = packet
      BY <1>1 DEF remote
    <2> QED
      BY <1>1, <2>1, MoreReturns
  <1>2. ASSUME NEW p \in 1 .. Len(packet), Relay(p) \/ Expire(p) \/ RetrySend(p)
        PROVE  SentByUsers' /\ PacketsReturn'
    <2>1. /\ SamePackets /\ packet[p].at # "done"
          /\ \A q \in 1 .. Len(packet) : q # p => packet'[q] = packet[q]
          /\ \/ UNCHANGED <<chain, indexers>>
             \/ Include(ReturnOf(p)) /\ ReturnOf(p) \in Tx /\ packet'[p].at = "done"
      BY <1>2, Packeted
    <2>2. /\ Len(packet') = Len(packet)
          /\ \A q \in 1 .. Len(packet) :
                /\ packet'[q].token = packet[q].token /\ packet'[q].amount = packet[q].amount
                /\ packet[q].at = "done" => packet'[q].at = "done"
      BY <2>1 DEF SamePackets
    <2>3. CASE UNCHANGED <<chain, indexers>>
      BY <1>0, <2>2, <2>3, KeptReturns
    <2>4. CASE Include(ReturnOf(p)) /\ ReturnOf(p) \in Tx /\ packet'[p].at = "done"
      <3>1. /\ ReturnOf(p).op = "recv" /\ ReturnOf(p).packet = p
            /\ ReturnOf(p).token = packet[p].token /\ ReturnOf(p).amount = packet[p].amount
        BY DEF ReturnOf
      <3> QED
        BY <2>1, <2>2, <2>4, <3>1, MoreReturns
    <2> QED
      BY <2>1, <2>3, <2>4
  <1>3. ASSUME UNCHANGED <<chain, packet>>
        PROVE  SentByUsers' /\ PacketsReturn'
    BY <1>0, <1>3, KeptReturns
  <1>4. ASSUME NEW k \in Token, NEW u \in User, NEW to \in User, NEW a \in Amounts,
               Burn(k, u, to, a)
        PROVE  SentByUsers' /\ PacketsReturn'
    <2>1. /\ chain' = chain /\ Len(packet') = Len(packet) + 1
          /\ \A p \in 1 .. Len(packet) : packet'[p] = packet[p]
      BY <1>4, Burnt
    <2> QED
      BY <1>0, <2>1, KeptReturns
  <1>5. ASSUME NEW n \in Id, Mint(n) PROVE SentByUsers' /\ PacketsReturn'
    BY <1>3, <1>5, Minted
  <1>6. CASE \E i \in Indexer : Process(i) \/ Stop(i)
    BY <1>3, <1>6, OwnStep
  <1> QED
    BY <1>1, <1>2, <1>3, <1>4, <1>5, <1>6, Steps, OutsideSteps

\* What an indexer has credited, a packet was for.
LEMMA CreditsStep ==
  ASSUME Inv, BridgeTypeOK, OnChain, CreditsAreReturns, BridgeNext
  PROVE  CreditsAreReturns'
  <1>1. ASSUME NEW i \in Indexer, NEW n \in record[i] PROVE n \in 1 .. Len(chain)
    <2>1. n \in Id /\ n <= Len(chain)
      BY <1>1 DEF Inv, RecordIsDebit, BridgeTypeOK
    <2> QED
      BY <2>1, BridgeAssumption DEF Id, BridgeTypeOK
  <1>2. ASSUME NEW j \in Indexer, Process(j) \/ Stop(j), NEW i \in Indexer
        PROVE  /\ \A n \in Recvs(i)' : Genuine(chain'[n])
               /\ pc'[i] \in {"history", "record"} /\ tx(i)'.op = "recv" => Genuine(tx(i)')
    <2>1. chain' = chain
      BY <1>2, OwnStep
    <2>2. CASE i # j
      <3>1. pos'[i] = pos[i] /\ pc'[i] = pc[i] /\ record'[i] = record[i]
        BY <1>2, <2>2, OwnStep
      <3> QED
        BY <2>1, <3>1 DEF CreditsAreReturns, Recvs, tx
    <2>3. CASE i = j
      <3>1. CASE Take(i) \/ Enable(i) \/ SaveStatus(i) \/ Stop(i)
        <4>1. record' = record /\ pc'[i] \notin {"history", "record"}
          BY <3>1 DEF Take, Enable, SaveStatus, Stop, Goto, BridgeTypeOK
        <4> QED
          BY <2>1, <4>1 DEF CreditsAreReturns, Recvs
      <3>2. CASE Send(i)
        <4>1. record' = record /\ pos' = pos /\ tx(i).op = "send"
          BY <3>2 DEF Send, At
        <4> QED
          BY <2>1, <4>1 DEF CreditsAreReturns, Recvs, tx
      <3>3. CASE Recv(i)
        <4>1. record' = record /\ pos' = pos
              /\ (pc'[i] \in {"history", "record"} => RecvOK(i)) /\ tx(i).op = "recv"
          BY <3>3 DEF Recv, At, Goto, BridgeTypeOK
        <4> QED
          BY <2>1, <4>1 DEF CreditsAreReturns, Recvs, RecvOK, Genuine, tx
      <3>4. CASE SaveHistory(i)
        <4>1. record' = record /\ pos' = pos /\ pc[i] = "history"
          BY <3>4 DEF SaveHistory
        <4> QED
          BY <2>1, <4>1 DEF CreditsAreReturns, Recvs, tx
      <3>5. CASE SaveRecord(i)
        <4>1. /\ record'[i] = record[i] \cup {pos[i]} /\ pc[i] = "record"
              /\ pc'[i] \notin {"history", "record"}
          BY <3>5 DEF SaveRecord, Goto, BridgeTypeOK
        <4> QED
          BY <2>1, <4>1 DEF CreditsAreReturns, Recvs, tx
      <3> QED
        BY <1>2, <2>3, <3>1, <3>2, <3>3, <3>4, <3>5 DEF Process
    <2> QED
      BY <2>2, <2>3
  <1>3. ASSUME UNCHANGED indexers, NEW n, n = Len(chain),
               \A m \in 1 .. n : chain'[m] = chain[m]
        PROVE  CreditsAreReturns'
    <2>1. UNCHANGED <<pos, pc, record>>
      BY <1>3 DEF indexers
    <2>2. \A i \in Indexer : Recvs(i)' = Recvs(i) /\ \A m \in Recvs(i) : chain'[m] = chain[m]
      BY <1>1, <1>3, <2>1 DEF Recvs
    <2>3. \A i \in Indexer : pc[i] # "idle" => tx(i)' = tx(i)
      BY <1>3, <2>1, AtPosition DEF tx
    <2> QED
      BY <2>1, <2>2, <2>3 DEF CreditsAreReturns
  <1>4. CASE Outside
    <2>1. UNCHANGED indexers /\ \A m \in 1 .. Len(chain) : chain'[m] = chain[m]
      <3>1. ASSUME NEW t \in Tx, Include(t)
            PROVE  UNCHANGED indexers /\ \A m \in 1 .. Len(chain) : chain'[m] = chain[m]
        BY <3>1, Appended DEF Include
      <3> QED
        BY <1>4, <3>1, OutsideSteps, Packeted, Burnt, Minted
    <2> QED
      BY <1>3, <2>1
  <1>5. CASE \E j \in Indexer : Process(j) \/ Stop(j)
    BY <1>2, <1>5 DEF CreditsAreReturns
  <1> QED
    BY <1>4, <1>5, Steps

\* A run that has not been stopped goes through the chain once.
LEMMA FirstRunStep ==
  ASSUME BridgeTypeOK, OnChain, NEW i \in Indexer, FirstRun(i), Process(i)
  PROVE  FirstRun(i)'
  <1>1. /\ pos[i] \in Nat \ {0} /\ rows[i] \in Nat
        /\ rows \in [Indexer -> 0 .. Len(chain)]
        /\ pc[i] \in {"idle", "run", "history", "record", "done"}
    BY DEF BridgeTypeOK
  <1>2. /\ rows[i] = IF pc[i] = "idle" THEN pos[i] - 1 ELSE pos[i]
        /\ record[i] \subseteq 1 .. pos[i]
        /\ pos[i] \in record[i] => pc[i] = "done"
    BY DEF FirstRun
  <1>3. CASE Take(i)
    <2>1. pos' = pos /\ record' = record /\ pc'[i] = "run" /\ pc[i] = "idle"
      BY <1>3 DEF Take, Goto, BridgeTypeOK
    <2>2. rows'[i] = pos[i] /\ pos[i] > rows[i]
      BY <1>1, <1>2, <1>3, <2>1 DEF Take
    <2>3. fresh'[i]
      BY <1>3, <2>2, Zenon DEF Take, BridgeTypeOK
    <2> QED
      BY <1>2, <2>1, <2>2, <2>3 DEF FirstRun
  <1>4. CASE Enable(i) \/ Send(i) \/ Recv(i) \/ SaveHistory(i)
    <2>1. UNCHANGED <<pos, rows, fresh, record>> /\ pc[i] \in {"run", "history"}
          /\ pc'[i] \in {"history", "record", "done"}
      BY <1>4 DEF Enable, Send, Recv, SaveHistory, At, Goto, BridgeTypeOK
    <2> QED
      BY <1>2, <2>1 DEF FirstRun
  <1>5. CASE SaveRecord(i)
    <2>1. UNCHANGED <<pos, rows, fresh>> /\ record'[i] = record[i] \cup {pos[i]}
          /\ pc[i] = "record" /\ pc'[i] = "done"
      BY <1>5 DEF SaveRecord, Goto, BridgeTypeOK
    <2> QED
      BY <1>1, <1>2, <2>1 DEF FirstRun
  <1>6. CASE SaveStatus(i)
    <2>1. UNCHANGED <<rows, record>> /\ pos'[i] = pos[i] + 1 /\ pc[i] = "done" /\ pc'[i] = "idle"
      BY <1>6 DEF SaveStatus, Goto, BridgeTypeOK
    <2> QED
      BY <1>1, <1>2, <2>1 DEF FirstRun
  <1> QED
    BY <1>3, <1>4, <1>5, <1>6 DEF Process

LEMMA FirstRunsStep ==
  ASSUME BridgeTypeOK, OnChain, FirstRuns, BridgeNext
  PROVE  FirstRuns'
  <1>1. ASSUME NEW i \in Indexer, pos'[i] = pos[i], rows'[i] = rows[i], pc'[i] = pc[i],
               fresh'[i] = fresh[i], record'[i] = record[i]
        PROVE  FirstRun(i) => FirstRun(i)'
    BY <1>1 DEF FirstRun
  <1>2. CASE Outside
    <2>1. UNCHANGED <<pos, rows, pc, fresh, record, stops>>
      BY <1>2, OutsideSteps, Packeted, Burnt, Minted DEF Include, indexers
    <2> QED
      BY <1>1, <2>1 DEF FirstRuns
  <1>3. ASSUME NEW j \in Indexer, Process(j) \/ Stop(j), NEW i \in Indexer, stops'[i] = 0
        PROVE  FirstRun(i)'
    <2>1. CASE i # j
      BY <1>1, <1>3, <2>1, OwnStep DEF FirstRuns
    <2>2. CASE i = j
      <3>1. ~Stop(i)
        BY <1>3 DEF Stop, BridgeTypeOK
      <3>2. stops[i] = 0
        BY <1>3, <2>2, <3>1 DEF Process, Take, Enable, Send, Recv, SaveHistory, SaveRecord,
           SaveStatus
      <3> QED
        BY <1>3, <2>2, <3>1, <3>2, FirstRunStep DEF FirstRuns
    <2> QED
      BY <2>1, <2>2
  <1> QED
    BY <1>2, <1>3, Steps DEF FirstRuns
-----------------------------------------------------------------------------
(* Sums *)

LEMMA RecordsOnChain ==
  ASSUME Inv, BridgeTypeOK, NEW i \in Indexer, NEW n \in record[i]
  PROVE  n \in 1 .. Len(chain) /\ n \in Id
  <1>1. n \in Id /\ n <= Len(chain)
    BY DEF Inv, RecordIsDebit, BridgeTypeOK
  <1> QED
    BY <1>1, BridgeAssumption DEF Id, BridgeTypeOK

LEMMA PursesType ==
  ASSUME NEW f \in [Token \X User -> Nat], NEW t \in Token
  PROVE  Purses(f, t) \in [User -> Nat] /\ Worth(User, Purses(f, t)) \in Nat
  <1>1. Purses(f, t) \in [User -> Nat]
    BY DEF Purses
  <1> QED
    BY <1>1, CoinsFinite, BridgeAssumption

LEMMA ClaimsType ==
  ASSUME Inv, BridgeTypeOK, NEW i \in Indexer, NEW t \in Token
  PROVE  /\ IsFiniteSet(Id) /\ Claims(i, t) \in [Id -> Nat] /\ Worth(Id, Claims(i, t)) \in Nat
  <1>1. IsFiniteSet(Id)
    <2>1. 1 \in Int /\ MaxTx \in Int
      BY BridgeAssumption
    <2> QED
      BY <2>1, FS_Interval DEF Id
  <1>2. \A n \in record[i] : chain[n].amount \in Nat
    <2> SUFFICES ASSUME NEW n \in record[i] PROVE chain[n].amount \in Nat
      OBVIOUS
    <2>1. n \in 1 .. Len(chain) /\ chain \in Seq(Tx)
      BY RecordsOnChain DEF BridgeTypeOK
    <2>2. chain[n] \in Tx
      BY <2>1
    <2> QED
      BY <2>2, TxFields
  <1>3. Claims(i, t) \in [Id -> Nat]
    BY <1>2 DEF Claims, Sends
  <1> QED
    BY <1>1, <1>3, CoinsFinite

LEMMA ReturnsType ==
  ASSUME BridgeTypeOK, NEW i \in Indexer, NEW t \in Token
  PROVE  /\ IsFiniteSet(1 .. MaxPackets) /\ Returns(i, t) \in [1 .. MaxPackets -> Nat]
         /\ Worth(1 .. MaxPackets, Returns(i, t)) \in Nat
  <1>1. IsFiniteSet(1 .. MaxPackets)
    <2>1. 1 \in Int /\ MaxPackets \in Int
      BY BridgeAssumption
    <2> QED
      BY <2>1, FS_Interval
  <1>2. ASSUME NEW p \in 1 .. MaxPackets, p <= Len(packet) PROVE packet[p].amount \in Nat
    <2>1. packet[p] \in Packet
      BY <1>2 DEF BridgeTypeOK
    <2>2. packet[p].amount \in Amounts /\ Amounts \subseteq Nat
      BY <2>1, BridgeAssumption DEF Packet
    <2> QED
      BY <2>2
  <1>3. Returns(i, t) \in [1 .. MaxPackets -> Nat]
    BY <1>2 DEF Returns
  <1> QED
    BY <1>1, <1>3, CoinsFinite

LEMMA HandType ==
  ASSUME BridgeTypeOK, OnChain, NEW i \in Indexer, NEW t \in Token, NEW op
  PROVE  InHand(i, t, op) \in Nat
  BY AtPosition, TxFields DEF InHand

\* What a user gets or gives, all users of the token together do.
LEMMA PurseMoves ==
  ASSUME NEW f \in [Token \X User -> Nat], NEW g \in [Token \X User -> Nat],
         NEW k \in Token, NEW u \in User, NEW t \in Token,
         \A h \in Token \X User : h # <<k, u>> => g[h] = f[h]
  PROVE  /\ t = k => Worth(User, Purses(g, t)) + f[<<k, u>>]
                       = Worth(User, Purses(f, t)) + g[<<k, u>>]
         /\ t # k => Worth(User, Purses(g, t)) = Worth(User, Purses(f, t))
  <1>1. CASE t = k
    <2>1. Purses(f, t) \in [User -> Nat] /\ Purses(g, t) \in [User -> Nat]
      BY PursesType
    <2>2. \A x \in User \ {u} : Purses(g, t)[x] = Purses(f, t)[x]
      BY <1>1 DEF Purses
    <2>3. Purses(g, t)[u] = g[<<k, u>>] /\ Purses(f, t)[u] = f[<<k, u>>]
      BY <1>1 DEF Purses
    <2> QED
      BY <1>1, <2>1, <2>2, <2>3, OnePileChanges, BridgeAssumption
  <1>2. CASE t # k
    <2>1. \A x \in User : Purses(g, t)[x] = Purses(f, t)[x]
      BY <1>2 DEF Purses
    <2> QED
      BY <1>2, <2>1, SamePiles
  <1> QED
    BY <1>1, <1>2

\* What an indexer has of it all stays when its records and what they are about do.
LEMMA SameClaims ==
  ASSUME Inv, BridgeTypeOK, NEW i \in Indexer, NEW t \in Token,
         record'[i] = record[i], minted' = minted,
         \A n \in 1 .. Len(chain) : chain'[n] = chain[n]
  PROVE  Worth(Id, Claims(i, t)') = Worth(Id, Claims(i, t))
  <1>1. \A n \in record[i] : chain'[n] = chain[n]
    BY RecordsOnChain
  <1>2. \A n \in Id : Claims(i, t)'[n] = Claims(i, t)[n]
    BY <1>1 DEF Claims, Sends
  <1> QED
    BY <1>2, SamePiles

LEMMA SameReturns ==
  ASSUME Inv, BridgeTypeOK, NEW i \in Indexer, NEW t \in Token,
         record'[i] = record[i], SamePackets,
         \A n \in 1 .. Len(chain) : chain'[n] = chain[n]
  PROVE  Worth(1 .. MaxPackets, Returns(i, t)') = Worth(1 .. MaxPackets, Returns(i, t))
  <1>1. \A n \in record[i] : chain'[n] = chain[n]
    BY RecordsOnChain
  <1>2. Recvs(i)' = Recvs(i)
    BY <1>1 DEF Recvs
  <1>3. \A n \in Recvs(i) : chain'[n] = chain[n]
    BY <1>1 DEF Recvs
  <1>4. Len(packet) \in Nat
    BY DEF BridgeTypeOK
  <1>5. \A p \in 1 .. MaxPackets : Returns(i, t)'[p] = Returns(i, t)[p]
    BY <1>2, <1>3, <1>4 DEF Returns, SamePackets
  <1> QED
    BY <1>5, SamePiles

\* A signature that is stored is one that can be claimed.
LEMMA ClaimAdded ==
  ASSUME BridgeIInv, NEW i \in Indexer, NEW t \in Token, stops[i] = 0, SaveRecord(i), Inv',
         BridgeTypeOK'
  PROVE  Worth(Id, Claims(i, t)') = Worth(Id, Claims(i, t)) + InHand(i, t, "send")
  <1>1. /\ pos[i] \in 1 .. Len(chain) /\ tx(i) = chain[pos[i]] /\ pos[i] \in Id
        /\ pc[i] = "record"
    BY AtPosition, BridgeAssumption DEF BridgeIInv, SaveRecord, BridgeTypeOK, Id
  <1>2. UNCHANGED <<chain, minted>> /\ record'[i] = record[i] \cup {pos[i]}
    BY DEF SaveRecord, remote, BridgeIInv, BridgeTypeOK
  <1>3. pos[i] \notin record[i]
    BY <1>1 DEF BridgeIInv, FirstRuns, FirstRun
  <1>4. pos[i] \notin minted
    BY <1>3 DEF BridgeIInv, Inv, MintIsSigned, Signed
  <1>5. \A n \in Id \ {pos[i]} : Claims(i, t)'[n] = Claims(i, t)[n]
    BY <1>2 DEF Claims, Sends
  <1>6. Claims(i, t)[pos[i]] = 0
    BY <1>1, <1>3 DEF Claims, Sends
  <1>7. Claims(i, t)'[pos[i]] = InHand(i, t, "send")
    BY <1>1, <1>2, <1>4 DEF Claims, Sends, InHand
  <1>8. Claims(i, t) \in [Id -> Nat] /\ Claims(i, t)' \in [Id -> Nat] /\ IsFiniteSet(Id)
        /\ Worth(Id, Claims(i, t)) \in Nat
    <2>1. Claims(i, t)' \in [Id -> Nat]
      <3>1. \A n \in Id \ {pos[i]} : Claims(i, t)'[n] \in Nat
        BY <1>5, ClaimsType DEF BridgeIInv
      <3>2. Claims(i, t)'[pos[i]] \in Nat
        BY <1>7, HandType DEF BridgeIInv
      <3> QED
        BY <3>1, <3>2 DEF Claims
    <2> QED
      BY <2>1, ClaimsType DEF BridgeIInv
  <1>9. Worth(Id, Claims(i, t)') + 0 = Worth(Id, Claims(i, t)) + InHand(i, t, "send")
    BY <1>1, <1>5, <1>6, <1>7, <1>8, OnePileChanges
  <1>10. Worth(Id, Claims(i, t)') \in Nat
    BY <1>8, CoinsFinite
  <1> QED
    BY <1>9, <1>10

\* A credit that is recorded ends the way of its packet, and of no other.
LEMMA ReturnEnds ==
  ASSUME BridgeIInv, NEW i \in Indexer, NEW t \in Token, stops[i] = 0, SaveRecord(i)
  PROVE  /\ Worth(1 .. MaxPackets, Returns(i, t)') + InHand(i, t, "recv")
              = Worth(1 .. MaxPackets, Returns(i, t))
         /\ Worth(1 .. MaxPackets, Returns(i, t)') \in Nat
  <1>1. /\ pos[i] \in 1 .. Len(chain) /\ tx(i) = chain[pos[i]] /\ pc[i] = "record"
    BY AtPosition DEF BridgeIInv, SaveRecord
  <1>2. UNCHANGED <<chain, packet>> /\ record'[i] = record[i] \cup {pos[i]}
    BY DEF SaveRecord, remote, BridgeIInv, BridgeTypeOK
  <1>3. Returns(i, t) \in [1 .. MaxPackets -> Nat] /\ IsFiniteSet(1 .. MaxPackets)
        /\ Worth(1 .. MaxPackets, Returns(i, t)) \in Nat
    BY ReturnsType DEF BridgeIInv
  <1>4. CASE tx(i).op # "recv"
    <2>1. Recvs(i)' = Recvs(i)
      BY <1>1, <1>2, <1>4 DEF Recvs
    <2>2. \A p \in 1 .. MaxPackets : Returns(i, t)'[p] = Returns(i, t)[p]
      BY <1>2, <2>1 DEF Returns
    <2>3. Worth(1 .. MaxPackets, Returns(i, t)') = Worth(1 .. MaxPackets, Returns(i, t))
      BY <2>2, SamePiles
    <2> QED
      BY <1>3, <1>4, <2>3 DEF InHand
  <1>5. CASE tx(i).op = "recv"
    <2> DEFINE q == tx(i).packet
    <2>1. Genuine(tx(i)) /\ OfPacket(tx(i))
      BY <1>1, <1>5 DEF BridgeIInv, CreditsAreReturns, PacketsReturn
    <2>2. q \in 1 .. Len(packet) /\ packet[q].token = tx(i).token
          /\ packet[q].amount = tx(i).amount /\ q \in 1 .. MaxPackets
          /\ Len(packet) \in Nat
      BY <2>1, BridgeAssumption DEF OfPacket, BridgeIInv, BridgeTypeOK
    <2>3. Recvs(i)' = Recvs(i) \cup {pos[i]}
      BY <1>1, <1>2, <1>5 DEF Recvs
    <2>4. \A n \in Recvs(i) : chain[n].packet # q
      <3> SUFFICES ASSUME NEW n \in Recvs(i), chain[n].packet = q PROVE FALSE
        OBVIOUS
      <3>1. Genuine(chain[n]) /\ n \in record[i]
        BY DEF BridgeIInv, CreditsAreReturns, Recvs
      <3>2. n \in 1 .. Len(chain)
        BY <3>1, RecordsOnChain DEF BridgeIInv
      <3>3. n = pos[i]
        BY <1>1, <2>1, <3>1, <3>2 DEF BridgeIInv, PacketsReturn
      <3> QED
        BY <1>1, <3>1, <3>3 DEF BridgeIInv, FirstRuns, FirstRun
    <2>5. \A p \in (1 .. MaxPackets) \ {q} : Returns(i, t)'[p] = Returns(i, t)[p]
      BY <1>1, <1>2, <2>3 DEF Returns
    <2>6. Returns(i, t)'[q] = 0
      BY <1>1, <1>2, <2>2, <2>3 DEF Returns
    <2>7. Returns(i, t)[q] = InHand(i, t, "recv")
      BY <1>1, <1>5, <2>2, <2>4 DEF Returns, InHand
    <2> HIDE DEF q
    <2>8. Returns(i, t)' \in [1 .. MaxPackets -> Nat]
      <3>1. \A p \in 1 .. MaxPackets : Returns(i, t)'[p] \in Nat
        BY <1>3, <2>5, <2>6
      <3> QED
        BY <3>1 DEF Returns
    <2>9. Worth(1 .. MaxPackets, Returns(i, t)') + Returns(i, t)[q]
            = Worth(1 .. MaxPackets, Returns(i, t)) + Returns(i, t)'[q]
      <3> DEFINE S == 1 .. MaxPackets
                 f == Returns(i, t)
                 g == Returns(i, t)'
      <3>1. /\ IsFiniteSet(S) /\ f \in [S -> Nat] /\ g \in [S -> Nat] /\ q \in S
            /\ \A p \in S \ {q} : g[p] = f[p]
        BY <1>3, <2>2, <2>5, <2>8
      <3>2. Worth(S, g) + f[q] = Worth(S, f) + g[q]
        <4> HIDE DEF S, f, g
        <4> QED
          BY <3>1, OnePileChanges
      <3> QED
        BY <3>2
    <2>10. Worth(1 .. MaxPackets, Returns(i, t)') \in Nat
      BY <1>3, <2>8, CoinsFinite
    <2> QED
      BY <1>3, <2>6, <2>7, <2>9, <2>10
  <1> QED
    BY <1>4, <1>5

\* What adds up to Even.
LEMMA SumTypes ==
  ASSUME BridgeIInv, NEW i \in Indexer, NEW t \in Token
  PROVE  /\ Worth(User, Purses(bal[i], t)) \in Nat /\ Worth(Id, Claims(i, t)) \in Nat
         /\ Worth(User, Purses(supply, t)) \in Nat
         /\ Worth(1 .. MaxPackets, Returns(i, t)) \in Nat
         /\ InHand(i, t, "send") \in Nat /\ InHand(i, t, "recv") \in Nat
         /\ Funds * Cardinality(User) \in Nat
  <1>1. Cardinality(User) \in Nat /\ Funds \in Nat
    BY FS_CardinalityType, BridgeAssumption
  <1>2. Funds * Cardinality(User) \in Nat
    BY <1>1
  <1>3. bal[i] \in [Token \X User -> Nat] /\ supply \in [Token \X User -> Nat]
    BY DEF BridgeIInv, BridgeTypeOK
  <1> QED
    BY <1>2, <1>3, PursesType, ClaimsType, ReturnsType, HandType DEF BridgeIInv

LEMMA EvenOwn ==
  ASSUME BridgeIInv, NEW i \in Indexer, NEW t \in Token, stops[i] = 0, Process(i),
         Inv', BridgeTypeOK'
  PROVE  Even(i, t)'
  <1> DEFINE total == Funds * Cardinality(User)
             purse == Worth(User, Purses(bal[i], t))
             newPurse == Worth(User, Purses(bal'[i], t))
             claims == Worth(Id, Claims(i, t))
             newClaims == Worth(Id, Claims(i, t)')
             there == Worth(User, Purses(supply, t))
             returns == Worth(1 .. MaxPackets, Returns(i, t))
             newReturns == Worth(1 .. MaxPackets, Returns(i, t)')
             out == InHand(i, t, "send")
             in == InHand(i, t, "recv")
             newOut == InHand(i, t, "send")'
             newIn == InHand(i, t, "recv")'
  <1>1. /\ purse \in Nat /\ claims \in Nat /\ there \in Nat /\ returns \in Nat
        /\ out \in Nat /\ in \in Nat /\ total \in Nat
    BY SumTypes
  <1>2. purse + claims + there + returns + out = total + in
    BY DEF BridgeIInv, Balanced, Even, Everywhere
  <1>3. UNCHANGED <<chain, linked, minted, supply, packet>>
    BY OwnStep DEF BridgeIInv
  <1>4. newPurse \in Nat
    <2>1. bal'[i] \in [Token \X User -> Nat]
      BY DEF BridgeTypeOK
    <2> QED
      BY <2>1, PursesType
  <1>5. newPurse + newClaims + there + newReturns + newOut = total + newIn => Even(i, t)'
    BY <1>3 DEF Even, Everywhere
  <1>6. record'[i] = record[i] => newClaims = claims /\ newReturns = returns
    <2>1. SamePackets
      BY <1>3 DEF SamePackets
    <2> QED
      BY <1>3, <2>1, SameClaims, SameReturns DEF BridgeIInv
  <1>7. /\ pc'[i] \notin {"history", "record"} => newOut = 0 /\ newIn = 0
        /\ pc[i] \notin {"history", "record"} => out = 0 /\ in = 0
    BY DEF InHand
  <1>8. bal \in [Indexer -> [Token \X User -> Nat]] /\ bal[i] \in [Token \X User -> Nat]
        /\ bal'[i] \in [Token \X User -> Nat]
    BY DEF BridgeIInv, BridgeTypeOK
  <1>9. CASE Take(i) \/ Enable(i) \/ SaveStatus(i)
    <2>1. /\ UNCHANGED <<bal, record>> /\ pc[i] \notin {"history", "record"}
          /\ pc'[i] \notin {"history", "record"}
      BY <1>9 DEF Take, Enable, SaveStatus, At, Goto, BridgeIInv, BridgeTypeOK
    <2>2. newPurse = purse
      BY <2>1
    <2> HIDE DEF total, purse, newPurse, claims, newClaims, there, returns, newReturns, out, in,
                 newOut, newIn
    <2> QED
      BY <1>1, <1>2, <1>5, <1>6, <1>7, <2>1, <2>2
  <1>10. CASE (Send(i) /\ ~SendOK(i)) \/ (Recv(i) /\ ~RecvOK(i))
    <2>1. /\ UNCHANGED <<bal, record>> /\ pc[i] \notin {"history", "record"}
          /\ pc'[i] \notin {"history", "record"}
      BY <1>10 DEF Send, Recv, At, Goto, BridgeIInv, BridgeTypeOK
    <2>2. newPurse = purse
      BY <2>1
    <2> HIDE DEF total, purse, newPurse, claims, newClaims, there, returns, newReturns, out, in,
                 newOut, newIn
    <2> QED
      BY <1>1, <1>2, <1>5, <1>6, <1>7, <2>1, <2>2
  <1>11. CASE Send(i) /\ SendOK(i)
    <2> DEFINE k == tx(i).token
               u == tx(i).sender
               a == tx(i).amount
    <2>1. tx(i).op = "send" /\ pc[i] = "run" /\ pc'[i] = "history" /\ UNCHANGED <<record, pos>>
      BY <1>11 DEF Send, At, Goto, BridgeIInv, BridgeTypeOK
    <2>2. k \in Token /\ u \in User /\ a \in Nat
      <3>1. pos[i] \in 1 .. Len(chain) /\ tx(i) = chain[pos[i]] /\ tx(i) \in Tx
        BY <2>1, AtPosition DEF BridgeIInv
      <3> QED
        BY <2>1, <3>1, TxFields DEF BridgeIInv, SentByUsers
    <2>3. /\ bal'[i][<<k, u>>] = bal[i][<<k, u>>] - a
          /\ \A h \in Token \X User : h # <<k, u>> => bal'[i][h] = bal[i][h]
          /\ bal[i][<<k, u>>] \in Nat
      BY <1>8, <1>11, <2>2 DEF Send, From
    <2>4. newOut = (IF t = k THEN a ELSE 0) /\ newIn = 0
      BY <1>3, <2>1 DEF InHand, tx
    <2>5. /\ t = k => newPurse + bal[i][<<k, u>>] = purse + bal'[i][<<k, u>>]
          /\ t # k => newPurse = purse
      <3> DEFINE f == bal[i]
                 g == bal'[i]
      <3>1. /\ f \in [Token \X User -> Nat] /\ g \in [Token \X User -> Nat]
            /\ \A h \in Token \X User : h # <<k, u>> => g[h] = f[h]
        BY <1>8, <2>3
      <3>2. /\ t = k => Worth(User, Purses(g, t)) + f[<<k, u>>]
                           = Worth(User, Purses(f, t)) + g[<<k, u>>]
            /\ t # k => Worth(User, Purses(g, t)) = Worth(User, Purses(f, t))
        <4> HIDE DEF k, u, a, f, g
        <4> QED
          BY <2>2, <3>1, PurseMoves
      <3> QED
        BY <3>2
    <2> HIDE DEF total, purse, newPurse, claims, newClaims, there, returns, newReturns, out, in,
                 newOut, newIn, k, u, a
    <2>6. newPurse + newOut = purse
      BY <1>1, <1>4, <2>2, <2>3, <2>4, <2>5
    <2> QED
      BY <1>1, <1>2, <1>4, <1>5, <1>6, <1>7, <2>1, <2>2, <2>4, <2>6
  <1>12. CASE Recv(i) /\ RecvOK(i)
    <2> DEFINE k == tx(i).token
               u == tx(i).to
               a == tx(i).amount
    <2>1. tx(i).op = "recv" /\ pc[i] = "run" /\ pc'[i] = "history" /\ UNCHANGED <<record, pos>>
      BY <1>12 DEF Recv, At, Goto, BridgeIInv, BridgeTypeOK
    <2>2. k \in Token /\ u \in User /\ a \in Nat
      <3>1. tx(i) \in Tx
        BY <2>1, AtPosition DEF BridgeIInv
      <3> QED
        BY <3>1, TxFields
    <2>3. /\ bal'[i][<<k, u>>] = bal[i][<<k, u>>] + a
          /\ \A h \in Token \X User : h # <<k, u>> => bal'[i][h] = bal[i][h]
          /\ bal[i][<<k, u>>] \in Nat
      BY <1>8, <1>12, <2>2 DEF Recv, To
    <2>4. newIn = (IF t = k THEN a ELSE 0) /\ newOut = 0
      BY <1>3, <2>1 DEF InHand, tx
    <2>5. /\ t = k => newPurse + bal[i][<<k, u>>] = purse + bal'[i][<<k, u>>]
          /\ t # k => newPurse = purse
      <3> DEFINE f == bal[i]
                 g == bal'[i]
      <3>1. /\ f \in [Token \X User -> Nat] /\ g \in [Token \X User -> Nat]
            /\ \A h \in Token \X User : h # <<k, u>> => g[h] = f[h]
        BY <1>8, <2>3
      <3>2. /\ t = k => Worth(User, Purses(g, t)) + f[<<k, u>>]
                           = Worth(User, Purses(f, t)) + g[<<k, u>>]
            /\ t # k => Worth(User, Purses(g, t)) = Worth(User, Purses(f, t))
        <4> HIDE DEF k, u, a, f, g
        <4> QED
          BY <2>2, <3>1, PurseMoves
      <3> QED
        BY <3>2
    <2> HIDE DEF total, purse, newPurse, claims, newClaims, there, returns, newReturns, out, in,
                 newOut, newIn, k, u, a
    <2>6. newPurse = purse + newIn
      BY <1>1, <1>4, <2>2, <2>3, <2>4, <2>5
    <2> QED
      BY <1>1, <1>2, <1>4, <1>5, <1>6, <1>7, <2>1, <2>2, <2>4, <2>6
  <1>13. CASE SaveHistory(i)
    <2>1. fresh[i]
      BY <1>13 DEF SaveHistory, BridgeIInv, FirstRuns, FirstRun
    <2>2. UNCHANGED <<bal, record, pos>> /\ pc[i] = "history" /\ pc'[i] = "record"
      BY <1>13, <2>1 DEF SaveHistory, Goto, BridgeIInv, BridgeTypeOK
    <2>3. newPurse = purse /\ newOut = out /\ newIn = in
      BY <1>3, <2>2 DEF InHand, tx
    <2> HIDE DEF total, purse, newPurse, claims, newClaims, there, returns, newReturns, out, in,
                 newOut, newIn
    <2> QED
      BY <1>2, <1>5, <1>6, <2>2, <2>3
  <1>14. CASE SaveRecord(i)
    <2>1. newClaims = claims + out /\ newReturns + in = returns /\ newReturns \in Nat
      BY <1>14, ClaimAdded, ReturnEnds
    <2>2. bal' = bal /\ pc'[i] = "done"
      BY <1>14 DEF SaveRecord, Goto, BridgeIInv, BridgeTypeOK
    <2>3. newPurse = purse
      BY <2>2
    <2> HIDE DEF total, purse, newPurse, claims, newClaims, there, returns, newReturns, out, in,
                 newOut, newIn
    <2> QED
      BY <1>1, <1>2, <1>5, <1>7, <2>1, <2>2, <2>3
  <1> QED
    BY <1>9, <1>10, <1>11, <1>12, <1>13, <1>14 DEF Process

\* A step that changes nothing of this indexer's, of the packets or remotely.
LEMMA EvenSame ==
  ASSUME BridgeIInv, NEW i \in Indexer, NEW t \in Token, stops[i] = 0,
         bal'[i] = bal[i], record'[i] = record[i], pc'[i] = pc[i], pos'[i] = pos[i],
         minted' = minted, supply' = supply, SamePackets,
         \A n \in 1 .. Len(chain) : chain'[n] = chain[n]
  PROVE  Even(i, t)'
  <1>1. /\ Worth(Id, Claims(i, t)') = Worth(Id, Claims(i, t))
        /\ Worth(1 .. MaxPackets, Returns(i, t)') = Worth(1 .. MaxPackets, Returns(i, t))
    BY SameClaims, SameReturns DEF BridgeIInv
  <1>2. pc[i] # "idle" => tx(i)' = tx(i)
    BY AtPosition DEF tx, BridgeIInv
  <1>3. InHand(i, t, "send")' = InHand(i, t, "send") /\ InHand(i, t, "recv")' = InHand(i, t, "recv")
    BY <1>2 DEF InHand
  <1> QED
    BY <1>1, <1>3 DEF BridgeIInv, Balanced, Even, Everywhere

\* What a user has remotely goes down by what is burnt.
LEMMA BurnMoves ==
  ASSUME NEW t \in Token, NEW k \in Token, NEW u \in User,
         supply \in [Token \X User -> Nat], supply' \in [Token \X User -> Nat],
         \A h \in Token \X User : h # <<k, u>> => supply'[h] = supply[h]
  PROVE  /\ t = k => Worth(User, Purses(supply', t)) + supply[<<k, u>>]
                       = Worth(User, Purses(supply, t)) + supply'[<<k, u>>]
         /\ t # k => Worth(User, Purses(supply', t)) = Worth(User, Purses(supply, t))
  BY PurseMoves

\* What is burnt remotely is on its way back.
LEMMA EvenBurn ==
  ASSUME NEW i \in Indexer, NEW t \in Token, NEW k \in Token, NEW u \in User,
         NEW to \in User, NEW a \in Amounts,
         BridgeIInv, BridgeTypeOK', stops[i] = 0, Burn(k, u, to, a)
  PROVE  Even(i, t)'
  <1> DEFINE S == 1 .. MaxPackets
             q == Len(packet) + 1
             f == Returns(i, t)
             g == Returns(i, t)'
             amount == IF t = k THEN a ELSE 0
  <1>0. BridgeTypeOK
    BY DEF BridgeIInv
  <1>1. UNCHANGED <<chain, pos, pc, bal, record, minted>>
    BY <1>0, Burnt DEF indexers
  <1>2. /\ Len(packet) \in Nat /\ Len(packet') = q /\ q \in S
        /\ \A p \in 1 .. Len(packet) : packet'[p] = packet[p]
        /\ packet'[q].token = k /\ packet'[q].amount = a /\ a \in Nat
    <2>1. Len(packet) < MaxPackets /\ MaxPackets \in Nat
      BY <1>0, Burnt, BridgeAssumption
    <2>2. /\ Len(packet) \in Nat /\ Len(packet') = Len(packet) + 1
          /\ \A p \in 1 .. Len(packet) : packet'[p] = packet[p]
          /\ packet'[Len(packet) + 1].token = k /\ packet'[Len(packet) + 1].amount = a
          /\ a \in Nat
      BY <1>0, Burnt
    <2> QED
      BY <2>1, <2>2
  <1>3. Recvs(i)' = Recvs(i)
    BY <1>1 DEF Recvs
  <1>4. \A n \in Recvs(i) : chain[n].packet # q
    <2> SUFFICES ASSUME NEW n \in Recvs(i) PROVE chain[n].packet # q
      OBVIOUS
    <2>1. n \in 1 .. Len(chain) /\ Genuine(chain[n])
      BY RecordsOnChain DEF BridgeIInv, CreditsAreReturns, Recvs
    <2>2. chain[n].packet \in 1 .. Len(packet)
      BY <2>1 DEF BridgeIInv, PacketsReturn, OfPacket
    <2> QED
      BY <1>2, <2>2
  <1>5. \A p \in S \ {q} : g[p] = f[p]
    BY <1>1, <1>2, <1>3 DEF Returns
  <1>6. f[q] = 0
    BY <1>2 DEF Returns
  <1>7. g[q] = amount
    BY <1>1, <1>2, <1>3, <1>4 DEF Returns
  <1>8. f \in [S -> Nat] /\ IsFiniteSet(S)
    BY ReturnsType DEF BridgeIInv
  <1>9. g \in [S -> Nat]
    <2>1. \A p \in S : g[p] \in Nat
      BY <1>2, <1>5, <1>7, <1>8
    <2> QED
      BY <2>1 DEF Returns
  <1>10. Worth(S, g) + f[q] = Worth(S, f) + g[q] /\ Worth(S, g) \in Nat /\ Worth(S, f) \in Nat
    <2>1. q \in S
      BY <1>2
    <2> HIDE DEF S, f, g, q
    <2> QED
      BY <1>5, <1>8, <1>9, <2>1, OnePileChanges, CoinsFinite
  <1>11. /\ supply \in [Token \X User -> Nat] /\ supply' \in [Token \X User -> Nat]
         /\ supply'[<<k, u>>] = supply[<<k, u>>] - a
         /\ supply[<<k, u>>] \in Nat
         /\ \A h \in Token \X User : h # <<k, u>> => supply'[h] = supply[h]
    <2>1. supply \in [Token \X User -> Nat]
      BY <1>0 DEF BridgeTypeOK
    <2> QED
      BY <1>0, <2>1, Burnt
  <1>12. /\ t = k => Worth(User, Purses(supply', t)) + supply[<<k, u>>]
                       = Worth(User, Purses(supply, t)) + supply'[<<k, u>>]
         /\ t # k => Worth(User, Purses(supply', t)) = Worth(User, Purses(supply, t))
    BY <1>11, BurnMoves
  <1>13. Worth(User, Purses(supply', t)) \in Nat /\ Worth(User, Purses(supply, t)) \in Nat
    BY <1>11, PursesType
  <1>14. Worth(User, Purses(supply', t)) + amount = Worth(User, Purses(supply, t))
    <2> HIDE DEF f, g, S, q
    <2>1. a \in Nat
      BY <1>2
    <2>2. CASE t = k
      BY <1>11, <1>12, <1>13, <2>1, <2>2
    <2>3. CASE t # k
      BY <1>12, <1>13, <2>3
    <2> QED
      BY <2>2, <2>3
  <1>15. Worth(S, g) = Worth(S, f) + amount /\ amount \in Nat
    BY <1>2, <1>6, <1>7, <1>10
  <1>16. Worth(Id, Claims(i, t)') = Worth(Id, Claims(i, t))
    BY <1>1, SameClaims DEF BridgeIInv
  <1>17. /\ Purses(bal'[i], t) = Purses(bal[i], t)
         /\ InHand(i, t, "send")' = InHand(i, t, "send")
         /\ InHand(i, t, "recv")' = InHand(i, t, "recv")
    BY <1>1 DEF InHand, tx
  <1>18. Even(i, t)
    BY DEF BridgeIInv, Balanced
  <1>19. Everywhere(i, t)' = Everywhere(i, t)
    <2>1. /\ Worth(User, Purses(bal[i], t)) \in Nat /\ Worth(Id, Claims(i, t)) \in Nat
      BY SumTypes
    <2> DEFINE purse == Worth(User, Purses(bal[i], t))
               claims == Worth(Id, Claims(i, t))
               there == Worth(User, Purses(supply, t))
               newThere == Worth(User, Purses(supply', t))
               away == Worth(S, f)
               newAway == Worth(S, g)
    <2>2. /\ purse \in Nat /\ claims \in Nat /\ there \in Nat /\ newThere \in Nat
          /\ away \in Nat /\ newAway \in Nat /\ amount \in Nat
          /\ newThere + amount = there /\ newAway = away + amount
      BY <1>10, <1>13, <1>14, <1>15, <2>1, Zenon
    <2>3. purse + claims + newThere + newAway = purse + claims + there + away
      <3> HIDE DEF purse, claims, there, newThere, away, newAway, amount
      <3> QED
        BY <2>2
    <2>4. /\ Everywhere(i, t) = purse + claims + there + away
          /\ Everywhere(i, t)' = purse + claims + newThere + newAway
      BY <1>16, <1>17, Zenon DEF Everywhere
    <2> QED
      BY <2>3, <2>4, Zenon
  <1> QED
    BY <1>17, <1>18, <1>19 DEF Even

\* What is claimed is on the remote chain.
LEMMA EvenMint ==
  ASSUME BridgeIInv, NEW i \in Indexer, NEW t \in Token, stops[i] = 0, NEW n \in Id, Mint(n)
  PROVE  Even(i, t)'
  <1> DEFINE f == Claims(i, t)
             g == Claims(i, t)'
             k == chain[n].token
             u == chain[n].to
             a == chain[n].amount
             amount == IF t = k THEN a ELSE 0
  <1>1. /\ UNCHANGED <<chain, indexers, packet>> /\ minted' = minted \cup {n}
        /\ k \in Token /\ u \in User /\ a \in Nat
        /\ supply' \in [Token \X User -> Nat]
        /\ supply'[<<k, u>>] = supply[<<k, u>>] + a
        /\ \A h \in Token \X User : h # <<k, u>> => supply'[h] = supply[h]
    BY Minted DEF BridgeIInv
  <1>2. UNCHANGED <<pos, pc, bal, record>>
    BY <1>1 DEF indexers
  <1>3. n \in Sends(i) \ minted
    BY DEF Mint, Signed, Sends
  <1>4. \A m \in Id \ {n} : g[m] = f[m]
    BY <1>1, <1>2 DEF Claims, Sends
  <1>5. f[n] = amount /\ g[n] = 0
    BY <1>1, <1>2, <1>3 DEF Claims, Sends
  <1>6. f \in [Id -> Nat] /\ IsFiniteSet(Id)
    BY ClaimsType DEF BridgeIInv
  <1>7. g \in [Id -> Nat]
    <2>1. \A m \in Id : g[m] \in Nat
      BY <1>4, <1>5, <1>6
    <2> QED
      BY <2>1 DEF Claims
  <1>8. Worth(Id, g) + f[n] = Worth(Id, f) + g[n] /\ Worth(Id, g) \in Nat /\ Worth(Id, f) \in Nat
    <2> HIDE DEF f, g
    <2> QED
      BY <1>4, <1>6, <1>7, OnePileChanges, CoinsFinite
  <1>9. supply \in [Token \X User -> Nat] /\ supply[<<k, u>>] \in Nat
    BY <1>1 DEF BridgeIInv, BridgeTypeOK
  <1>10. /\ t = k => Worth(User, Purses(supply', t)) + supply[<<k, u>>]
                       = Worth(User, Purses(supply, t)) + supply'[<<k, u>>]
         /\ t # k => Worth(User, Purses(supply', t)) = Worth(User, Purses(supply, t))
    <2> HIDE DEF k, u, a
    <2> QED
      BY <1>1, <1>9, PurseMoves
  <1>11. Worth(User, Purses(supply', t)) \in Nat /\ Worth(User, Purses(supply, t)) \in Nat
    BY <1>1, <1>9, PursesType
  <1>12. amount \in Nat /\ Worth(Id, g) + amount = Worth(Id, f)
    BY <1>1, <1>5, <1>8
  <1>13. Worth(User, Purses(supply', t)) = Worth(User, Purses(supply, t)) + amount
    <2> HIDE DEF k, u, a
    <2> QED
      BY <1>1, <1>9, <1>10, <1>11
  <1>14. Worth(1 .. MaxPackets, Returns(i, t)') = Worth(1 .. MaxPackets, Returns(i, t))
    BY <1>1, <1>2, SameReturns DEF BridgeIInv, SamePackets
  <1>15. /\ Purses(bal'[i], t) = Purses(bal[i], t)
         /\ InHand(i, t, "send")' = InHand(i, t, "send")
         /\ InHand(i, t, "recv")' = InHand(i, t, "recv")
    BY <1>1, <1>2 DEF InHand, tx
  <1>16. Even(i, t)
    BY DEF BridgeIInv, Balanced
  <1> HIDE DEF amount
  <1> QED
    BY <1>8, <1>11, <1>12, <1>13, <1>14, <1>15, <1>16, SumTypes DEF Even, Everywhere

LEMMA EvenStep ==
  ASSUME BridgeIInv, BridgeNext, Inv', BridgeTypeOK', NEW i \in Indexer, NEW t \in Token,
         stops'[i] = 0
  PROVE  Even(i, t)'
  <1>1. ASSUME NEW j \in Indexer, Process(j) \/ Stop(j) PROVE Even(i, t)'
    <2>1. CASE i = j
      <3>1. ~Stop(i)
        BY DEF Stop, BridgeIInv, BridgeTypeOK
      <3>2. stops[i] = 0
        BY <1>1, <2>1, <3>1 DEF Process, Take, Enable, Send, Recv, SaveHistory, SaveRecord,
           SaveStatus
      <3> QED
        BY <1>1, <2>1, <3>1, <3>2, EvenOwn
    <2>2. CASE i # j
      <3>1. /\ UNCHANGED <<chain, minted, supply, packet>> /\ pos'[i] = pos[i] /\ pc'[i] = pc[i]
            /\ bal'[i] = bal[i] /\ record'[i] = record[i] /\ stops'[i] = stops[i]
        BY <1>1, <2>2, OwnStep DEF BridgeIInv
      <3>2. SamePackets
        BY <3>1 DEF SamePackets
      <3> QED
        BY <3>1, <3>2, EvenSame
    <2> QED
      BY <2>1, <2>2
  <1>2. CASE Outside
    <2>1. UNCHANGED <<pos, pc, bal, record, stops>>
      BY <1>2, OutsideSteps, Packeted, Burnt, Minted DEF Include, indexers, BridgeIInv
    <2>2. ASSUME SamePackets, minted' = minted, supply' = supply,
                 \A n \in 1 .. Len(chain) : chain'[n] = chain[n]
          PROVE  Even(i, t)'
      BY <2>1, <2>2, EvenSame
    <2>3. ASSUME NEW x \in Tx, Include(x), UNCHANGED remote PROVE Even(i, t)'
      <3>1. SamePackets /\ minted' = minted /\ supply' = supply
        BY <2>3 DEF remote, SamePackets
      <3>2. \A n \in 1 .. Len(chain) : chain'[n] = chain[n]
        BY <2>3, Appended DEF BridgeIInv
      <3> QED
        BY <2>2, <3>1, <3>2
    <2>4. ASSUME NEW p \in 1 .. Len(packet), Relay(p) \/ Expire(p) \/ RetrySend(p)
          PROVE  Even(i, t)'
      <3>1. SamePackets /\ minted' = minted /\ supply' = supply
            /\ (UNCHANGED chain \/ (Include(ReturnOf(p)) /\ ReturnOf(p) \in Tx))
        BY <2>4, Packeted DEF BridgeIInv
      <3>2. \A n \in 1 .. Len(chain) : chain'[n] = chain[n]
        BY <3>1, Appended DEF BridgeIInv
      <3> QED
        BY <2>2, <3>1, <3>2
    <2>5. CASE UNCHANGED <<chain, packet, supply, minted, indexers>>
      BY <2>2, <2>5 DEF SamePackets
    <2>6. stops[i] = 0
      BY <2>1
    <2> QED
      BY <1>2, <2>3, <2>4, <2>5, <2>6, OutsideSteps, EvenBurn, EvenMint DEF BridgeIInv
  <1> QED
    BY <1>1, <1>2, Steps
-----------------------------------------------------------------------------
(* The theorem *)

LEMMA InitIInv == BridgeInit => BridgeIInv
  <1> SUFFICES ASSUME BridgeInit PROVE BridgeIInv
    OBVIOUS
  <1>1. Inv
    BY InitInv
  <1>2. BridgeTypeOK
    <2>1. /\ Funds \in Nat /\ MaxStops \in Nat /\ MaxPackets \in Nat /\ MaxTx \in Nat
      BY BridgeAssumption
    <2>2. chain = <<>> /\ packet = <<>> /\ Len(chain) = 0 /\ Len(packet) = 0
      BY DEF BridgeInit
    <2>3. /\ pos \in [Indexer -> 1 .. Len(chain) + 1] /\ rows \in [Indexer -> 0 .. Len(chain)]
          /\ stops \in [Indexer -> 0 .. MaxStops]
      BY <2>1, <2>2 DEF BridgeInit
    <2>4. fresh \in [Indexer -> BOOLEAN]
      BY Zenon DEF BridgeInit
    <2>5. bal \in [Indexer -> [Token \X User -> Nat]] /\ supply \in [Token \X User -> Nat]
      BY <2>1 DEF BridgeInit
    <2> QED
      BY <1>1, <2>3, <2>4, <2>5 DEF BridgeInit, BridgeTypeOK, Inv, Places
  <1>3. OnChain /\ SentByUsers /\ PacketsReturn /\ CreditsAreReturns
    BY DEF BridgeInit, OnChain, SentByUsers, PacketsReturn, CreditsAreReturns, Recvs
  <1>4. FirstRuns
    BY DEF BridgeInit, FirstRuns, FirstRun
  <1>5. ASSUME NEW i \in Indexer, NEW t \in Token PROVE Even(i, t)
    <2> DEFINE coins == 1 .. Funds
               purse == Purses(bal[i], t)
    <2>1. Worth(Id, Claims(i, t)) = 0 /\ Worth(User, Purses(supply, t)) = 0
          /\ Worth(1 .. MaxPackets, Returns(i, t)) = 0
      <3>1. \A n \in Id : Claims(i, t)[n] = 0
        BY DEF BridgeInit, Claims, Sends
      <3>2. \A u \in User : Purses(supply, t)[u] = 0
        BY DEF BridgeInit, Purses
      <3>3. \A p \in 1 .. MaxPackets : Returns(i, t)[p] = 0
        BY DEF BridgeInit, Returns
      <3> QED
        BY <3>1, <3>2, <3>3, NoPiles
    <2>2. Coins(User, purse) = User \X coins
      <3>1. DOMAIN purse = User /\ \A u \in User : purse[u] = Funds
        BY DEF BridgeInit, Purses
      <3> HIDE DEF purse
      <3>2. \A u \in User : 1 .. purse[u] = coins
        BY <3>1
      <3> HIDE DEF coins
      <3>3. \A u \in User : {u} \X (1 .. purse[u]) = {u} \X coins
        BY <3>2
      <3>4. Coins(User, purse) = UNION {{u} \X coins : u \in User}
        BY <3>3 DEF Coins
      <3>5. UNION {{u} \X coins : u \in User} = User \X coins
        OBVIOUS
      <3> QED
        BY <3>4, <3>5
    <2>3. IsFiniteSet(coins) /\ Cardinality(coins) = Funds
      <3>1. 1 \in Int /\ Funds \in Int /\ Funds \in Nat
        BY BridgeAssumption
      <3>2. IsFiniteSet(coins) /\ Cardinality(coins) = IF 1 > Funds THEN 0 ELSE Funds - 1 + 1
        BY <3>1, FS_Interval
      <3>3. (IF 1 > Funds THEN 0 ELSE Funds - 1 + 1) = Funds
        BY <3>1
      <3> QED
        BY <3>2, <3>3
    <2>4. Cardinality(User \X coins) = Cardinality(User) * Cardinality(coins)
      <3> HIDE DEF coins
      <3> QED
        BY <2>3, FS_Product, BridgeAssumption
    <2>5. Cardinality(User) \in Nat /\ Funds \in Nat
      BY FS_CardinalityType, BridgeAssumption
    <2>6. Worth(User, purse) = Cardinality(User) * Funds
      BY <2>2, <2>3, <2>4, Zenon DEF Worth
    <2>7. InHand(i, t, "send") = 0 /\ InHand(i, t, "recv") = 0
      BY DEF BridgeInit, InHand
    <2>8. Worth(User, purse) = Funds * Cardinality(User)
      BY <2>5, <2>6
    <2>9. Everywhere(i, t) = Funds * Cardinality(User) + 0 + 0 + 0
      BY <2>1, <2>8, Zenon DEF Everywhere
    <2>10. Funds * Cardinality(User) \in Nat
      BY <2>5
    <2> QED
      BY <2>7, <2>9, <2>10 DEF Even
  <1> QED
    BY <1>1, <1>2, <1>3, <1>4, <1>5 DEF BridgeIInv, Balanced

LEMMA NextIInv == BridgeIInv /\ [BridgeNext]_bridgeVars => BridgeIInv'
  <1> SUFFICES ASSUME BridgeIInv, [BridgeNext]_bridgeVars PROVE BridgeIInv'
    OBVIOUS
  <1>1. Inv'
    BY NextInv DEF BridgeIInv
  <1>2. CASE BridgeNext
    <2>1. BridgeTypeOK' /\ OnChain'
      BY <1>1, <1>2, Steps, OwnTypes, OutsideTypes DEF BridgeIInv
    <2>2. SentByUsers' /\ PacketsReturn' /\ CreditsAreReturns' /\ FirstRuns'
      BY <1>2, ReturnsStep, CreditsStep, FirstRunsStep DEF BridgeIInv
    <2>3. Balanced'
      BY <1>1, <1>2, <2>1, EvenStep DEF Balanced
    <2> QED
      BY <1>1, <2>1, <2>2, <2>3 DEF BridgeIInv
  <1>3. CASE UNCHANGED bridgeVars
    <2>1. UNCHANGED <<chain, pos, rows, pc, fresh, bal, on, record, stops, debited, linked,
                      minted, supply, packet>>
      BY <1>3 DEF bridgeVars, indexers, remote
    <2>2. BridgeTypeOK'
      BY <2>1 DEF BridgeIInv, BridgeTypeOK
    <2>3. OnChain' /\ SentByUsers' /\ PacketsReturn' /\ CreditsAreReturns' /\ FirstRuns'
      BY <2>1 DEF BridgeIInv, OnChain, SentByUsers, PacketsReturn, OfPacket, CreditsAreReturns,
         Recvs, tx, FirstRuns, FirstRun
    <2>4. Balanced'
      <3>1. SamePackets
        BY <2>1 DEF SamePackets
      <3> QED
        BY <2>1, <3>1, EvenSame DEF Balanced
    <2> QED
      BY <1>1, <2>2, <2>3, <2>4 DEF BridgeIInv
  <1> QED
    BY <1>2, <1>3

\* bridge.go against the contract: of every token, what left one chain is on the
\* other or on its way, as every indexer that has not been stopped has it, for any
\* indexers, users, tokens, amounts, packets and times that they run out.
THEOREM BridgeInvariant == BridgeSpec => []BridgeInv
  <1>1. BridgeIInv => BridgeInv
    <2> SUFFICES ASSUME BridgeIInv, NEW i \in Indexer, NEW t \in Token, pc[i] = "idle", stops[i] = 0
                 PROVE  Everywhere(i, t) = Funds * Cardinality(User)
      BY DEF BridgeInv, Conserved, BridgeIInv
    <2>1. InHand(i, t, "send") = 0 /\ InHand(i, t, "recv") = 0
      BY DEF InHand
    <2>2. Even(i, t)
      BY DEF BridgeIInv, Balanced
    <2>3. Everywhere(i, t) \in Nat /\ Funds * Cardinality(User) \in Nat
      BY SumTypes DEF Everywhere
    <2> QED
      BY <2>1, <2>2, <2>3 DEF Even
  <1> QED
    BY <1>1, InitIInv, NextIInv, PTL DEF BridgeSpec
-----------------------------------------------------------------------------
(* The page *)

\* What a transfer was sent with is what the dialog shows, unless it has been
\* opened with another amount since.  An item that is being looked at is on the
\* chain.
ShowsSent ==
    /\ hash # 0 =>
          /\ shown # 0 /\ chain[hash].token = page.token
          /\ ~Reopens => chain[hash].amount = shown
    /\ page.view \in {"loading", "finish"} => page.item \in 1 .. Len(chain)

DialogIInv == Inv /\ DialogTypeOK /\ ShowsSent

LEMMA Greatest ==
  ASSUME NEW S \in SUBSET Id, S # {}
  PROVE  Max(S) \in S
  <1> DEFINE less == {MaxTx - n : n \in S}
             R == {p \in Nat \X Nat : p[1] < p[2]}
  <1>1. \A n \in S : n \in Nat /\ MaxTx - n \in Nat /\ MaxTx \in Nat
    BY BridgeAssumption DEF Id
  <1>2. less \subseteq Nat /\ less # {}
    BY <1>1
  <1>3. IsWellFoundedOn(R, Nat)
    BY NatLessThanWellFounded DEF OpToRel
  <1>4. PICK m \in less : \A k \in less : <<k, m>> \notin R
    <2> HIDE DEF less, R
    <2> QED
      BY <1>2, <1>3, WFMin
  <1>5. PICK n \in S : m = MaxTx - n
    BY <1>4
  <1>6. \A k \in S : ~(MaxTx - k < MaxTx - n)
    BY <1>1, <1>4, <1>5
  <1>7. \E x \in S : \A y \in S : x >= y
    BY <1>1, <1>5, <1>6
  <1> QED
    BY <1>7, Zenon DEF Max

\* Whatever the page does, the bridge takes a step of its own or none.
LEMMA DialogIsBridge ==
  ASSUME Inv, DialogTypeOK, [DialogNext]_dialogVars
  PROVE  [BridgeNext]_bridgeVars
  <1>1. page.token \in Token /\ (shown # 0 => shown \in Amounts) /\ Owner \in User
    BY BridgeDialogAssumption DEF DialogTypeOK, Page
  <1>2. ASSUME Loads PROVE UNCHANGED bridgeVars
    BY <1>2 DEF Loads, LoadTicker, LoadTx, Load
  <1>3. ASSUME Dialogs PROVE [BridgeNext]_bridgeVars
    <2>1. CASE Show \/ Toggle \/ FetchSignatures \/ ClaimFails \/ SendBackFails \/ Poll
      BY <2>1 DEF Show, Toggle, FetchSignatures, ClaimFails, SendBackFails, Poll
    <2>2. CASE \E a \in Amounts : Open(a)
      BY <2>2 DEF Open
    <2>3. CASE SendOnHub
      <3>1. Room /\ SubmitSend(Owner, page.token, Owner, shown) /\ shown # 0
        BY <2>3 DEF SendOnHub, Sending
      <3>2. Submit
        BY <1>1, <3>1 DEF Submit
      <3> QED
        BY <3>2 DEF BridgeNext
    <2>4. CASE Claim
      <3>1. Mint(Hash)
        BY <2>4 DEF Claim
      <3>2. Hash \in Nat \ {0} /\ Hash <= Len(chain)
        BY <3>1 DEF Mint, Inv, Places
      <3>3. Hash \in Id
        BY <3>2, PositionIsId DEF Inv
      <3> QED
        BY <3>1, <3>3 DEF BridgeNext
    <2>5. CASE SendBack
      <3>1. Burn(page.token, Owner, Owner, shown) /\ shown # 0
        BY <2>5 DEF SendBack, Returning
      <3> QED
        BY <1>1, <3>1 DEF BridgeNext
    <2> QED
      BY <1>3, <2>1, <2>2, <2>3, <2>4, <2>5 DEF Dialogs
  <1>4. ASSUME World PROVE BridgeNext
    BY <1>4 DEF World, BridgeNext
  <1> QED
    BY <1>2, <1>3, <1>4 DEF DialogNext, dialogVars

\* A position of the chain keeps its transaction.
LEMMA ChainGrows ==
  ASSUME Inv, [BridgeNext]_bridgeVars
  PROVE  /\ Len(chain) \in Nat /\ Len(chain') \in Nat /\ Len(chain') >= Len(chain)
         /\ \A n \in 1 .. Len(chain) : chain'[n] = chain[n]
  <1>1. chain \in Seq(Tx) /\ Len(chain) \in Nat
    BY DEF Inv, Places
  <1>2. CASE UNCHANGED chain
    BY <1>1, <1>2
  <1>3. ASSUME NEW t, chain' = Append(chain, t)
        PROVE  /\ Len(chain') = Len(chain) + 1
               /\ \A n \in 1 .. Len(chain) : chain'[n] = chain[n]
    BY <1>1, <1>3
  <1>4. UNCHANGED chain \/ \E t : chain' = Append(chain, t)
    <2>1. CASE \E i \in Indexer : Process(i) \/ Stop(i)
      BY <2>1 DEF Process, Take, Enable, Send, Recv, SaveHistory, SaveRecord, SaveStatus, Stop
    <2>2. CASE Submit
      BY <2>2 DEF Submit, SubmitEnable, SubmitSend, SubmitRefused, Include
    <2>3. CASE Packets
      BY <2>3 DEF Packets, Relay, Expire, RetrySend, Include
    <2>4. CASE \/ \E k \in Token : Link(k) \/ \E u, to \in User, a \in Amounts : Burn(k, u, to, a)
               \/ \E n \in Id : Mint(n)
      BY <2>4 DEF Link, Burn, Mint
    <2>5. CASE UNCHANGED bridgeVars
      BY <2>5 DEF bridgeVars
    <2> QED
      BY <2>1, <2>2, <2>3, <2>4, <2>5 DEF BridgeNext
  <1> QED
    BY <1>1, <1>2, <1>3, <1>4

LEMMA DialogInitInv == DialogInit => DialogIInv
  <1> SUFFICES ASSUME DialogInit PROVE DialogIInv
    OBVIOUS
  <1> DEFINE order == SetToSeq(Token)
             N == Cardinality(Token)
  <1>1. N \in Nat /\ N <= MaxTx
    BY BridgeAssumption, BridgeDialogAssumption, FS_CardinalityType
  <1>2. order \in [1 .. N -> Token]
    <2>1. \E f \in [1 .. N -> Token] : IsInjective(f)
      <3>1. PICK f : ExistsBijection(1 .. N, Token) /\ f \in Bijection(1 .. N, Token)
        BY BridgeAssumption, FS_CardinalityType DEF ExistsBijection
      <3> QED
        BY <3>1 DEF Bijection, Injection, IsInjective
    <2> QED
      BY <2>1 DEF SetToSeq
  <1>3. \A n \in 1 .. N : Operation("enable", Owner, order[n], Owner, 0) \in Tx
    <2>1. 0 \in 0 .. MaxPackets /\ Owner \in User
      BY BridgeAssumption, BridgeDialogAssumption
    <2> QED
      BY <1>2, <2>1 DEF Operation, Tx
  <1>4. chain \in Seq(Tx) /\ Len(chain) = N
    <2>1. chain = [n \in 1 .. N |-> Operation("enable", Owner, order[n], Owner, 0)]
      BY DEF DialogInit, Enabled
    <2> HIDE DEF order, N
    <2> QED
      BY <1>1, <1>3, <2>1
  <1>5. packet \in Seq(Packet) /\ Len(packet) = 0
    BY DEF DialogInit
  <1>6. Inv
    <2>1. Places
      BY <1>1, <1>4, <1>5, BridgeAssumption DEF DialogInit, Places
    <2> QED
      BY <2>1 DEF DialogInit, Inv, AtWork, TransferIsDebit, RecordIsDebit, MintIsSigned
  <1>7. DialogTypeOK /\ ShowsSent
    BY <1>1, <1>4, BridgeDialogAssumption
    DEF DialogInit, Closed, DialogTypeOK, Page, View, ShowsSent
  <1> QED
    BY <1>6, <1>7 DEF DialogIInv

\* The page after a step that mounts its dialogs anew, if it shows an item of the
\* chain wherever it shows one.
LEMMA FreshDialogs ==
  ASSUME DialogIInv, Inv', Len(chain') \in Nat, Fresh, page' \in Page,
         page'.view \in {"loading", "finish"} => page'.item \in 1 .. Len(chain')
  PROVE  DialogIInv'
  BY DEF Fresh, DialogIInv, DialogTypeOK, ShowsSent

\* The page after a step that leaves it as it is: its transfer stays on the chain.
LEMMA SamePage ==
  ASSUME DialogIInv, Inv', [BridgeNext]_bridgeVars, UNCHANGED <<page, shown, hash>>,
         data' \in 0 .. Len(chain'), claim' \in {"initial", "success", "failed"},
         back' \in {"initial", "onchain", "success", "failed"},
         back' # "initial" => page.view = "form" /\ ~page.out
  PROVE  DialogIInv'
  <1>1. /\ Len(chain) \in Nat /\ Len(chain') \in Nat /\ Len(chain') >= Len(chain)
        /\ \A n \in 1 .. Len(chain) : chain'[n] = chain[n]
    BY ChainGrows DEF DialogIInv
  <1>2. hash \in 0 .. Len(chain)
    BY DEF DialogIInv, DialogTypeOK
  <1>3. DialogTypeOK'
    BY <1>1, <1>2 DEF DialogIInv, DialogTypeOK
  <1>4. ShowsSent'
    <2>1. hash # 0 => chain'[hash] = chain[hash]
      BY <1>1, <1>2
    <2> QED
      BY <1>1, <2>1 DEF DialogIInv, ShowsSent
  <1> QED
    BY <1>3, <1>4 DEF DialogIInv

LEMMA LoadsInv == DialogIInv /\ Loads => DialogIInv'
  <1> SUFFICES ASSUME DialogIInv, Loads PROVE DialogIInv'
    OBVIOUS
  <1>1. record[Home] \subseteq Id /\ \A n \in record[Home] : n \in 1 .. Len(chain)
    BY BridgeDialogAssumption, BridgeAssumption DEF DialogIInv, Inv, Places, RecordIsDebit, Id
  <1>2. LatestSend \in record[Home] \cup {0}
    <2> DEFINE sends == {n \in record[Home] : chain[n].op = "send" /\ chain[n].sender = Owner}
    <2>1. sends # {} => Max(sends) \in sends
      <3>1. sends \in SUBSET Id
        BY <1>1
      <3> HIDE DEF sends
      <3> QED
        BY <3>1, Greatest
    <2> QED
      BY <2>1 DEF LatestSend
  <1>3. PICK k \in Token, n \in record[Home] \cup {0}, byTx \in BOOLEAN : Load(k, n, byTx)
    <2>1. CASE \E k \in Token : LoadTicker(k)
      BY <1>2, <2>1 DEF LoadTicker
    <2>2. CASE \E n \in Id : LoadTx(n)
      BY <2>2, BridgeDialogAssumption DEF LoadTx
    <2> QED
      BY <2>1, <2>2 DEF Loads
  <1>4. PICK h \in pos[Home] - 1 .. Len(chain) :
           page' = [token |-> k, item |-> n, byTx |-> byTx, known |-> h, out |-> TRUE,
                    view |-> IF n = 0 THEN "form" ELSE "loading"]
    BY <1>3 DEF Load
  <1>5. h \in Nat /\ Len(chain) \in Nat
    <2>1. pos[Home] \in Nat \ {0} /\ Len(chain) \in Nat
      BY BridgeDialogAssumption DEF DialogIInv, Inv, Places
    <2> QED
      BY <1>4, <2>1
  <1>6. page' \in Page
    BY <1>1, <1>3, <1>4, <1>5 DEF Page, View
  <1>7. page'.view \in {"loading", "finish"} => page'.item \in 1 .. Len(chain)
    BY <1>1, <1>4
  <1>8. Fresh /\ UNCHANGED bridgeVars /\ UNCHANGED chain
    BY <1>3 DEF Load, bridgeVars
  <1>9. Inv'
    BY <1>8, NextInv DEF DialogIInv
  <1> QED
    BY <1>5, <1>6, <1>7, <1>8, <1>9, FreshDialogs

\* The steps of the page in which the chain takes no step.
LEMMA ShowInv == DialogIInv /\ (Show \/ Toggle) => DialogIInv'
  <1> SUFFICES ASSUME DialogIInv, Show \/ Toggle PROVE DialogIInv'
    OBVIOUS
  <1>1. Fresh /\ UNCHANGED bridgeVars /\ UNCHANGED chain
    BY DEF Show, Toggle, bridgeVars
  <1>2. Inv'
    BY <1>1, NextInv DEF DialogIInv
  <1>3. page \in Page /\ Len(chain) \in Nat
    BY DEF DialogIInv, DialogTypeOK, Inv, Places
  <1>4. /\ page' \in Page
        /\ page'.view \in {"loading", "finish"} => page'.item \in 1 .. Len(chain)
    <2>1. CASE Show
      <3>1. page.item \in 1 .. Len(chain)
        BY <2>1 DEF Show, DialogIInv, ShowsSent
      <3> QED
        BY <1>3, <2>1, <3>1 DEF Show, Page, View, Decided
    <2>2. CASE Toggle
      BY <1>3, <2>2 DEF Toggle, Page, View
    <2> QED
      BY <2>1, <2>2
  <1> QED
    BY <1>1, <1>2, <1>3, <1>4, FreshDialogs

LEMMA OpenInv == ASSUME DialogIInv, NEW a \in Amounts, Open(a) PROVE DialogIInv'
  <1>1. UNCHANGED bridgeVars /\ UNCHANGED <<chain, page, hash, data, claim, back>> /\ shown' = a
    BY DEF Open, bridgeVars
  <1>2. Inv'
    BY <1>1, NextInv DEF DialogIInv
  <1>3. DialogTypeOK'
    BY <1>1 DEF DialogIInv, DialogTypeOK
  <1>4. ShowsSent'
    <2>1. a # 0
      BY BridgeAssumption
    <2>2. hash # 0 => Reopens
      BY DEF Open, DialogIInv, ShowsSent
    <2> QED
      BY <1>1, <2>1, <2>2 DEF DialogIInv, ShowsSent
  <1> QED
    BY <1>2, <1>3, <1>4 DEF DialogIInv

LEMMA SendOnHubInv == DialogIInv /\ SendOnHub => DialogIInv'
  <1> SUFFICES ASSUME DialogIInv, SendOnHub PROVE DialogIInv'
    OBVIOUS
  <1> DEFINE t == Operation("send", Owner, page.token, Owner, shown)
  <1>1. /\ Sending /\ hash = 0 /\ SubmitSend(Owner, page.token, Owner, shown)
        /\ hash' = Len(chain') /\ UNCHANGED <<page, shown, data, claim, back>>
    BY DEF SendOnHub
  <1>2. chain' = Append(chain, t)
    BY <1>1 DEF SubmitSend, Include
  <1>3. [BridgeNext]_bridgeVars
    <2>1. [DialogNext]_dialogVars
      BY DEF DialogNext, Dialogs
    <2> QED
      BY <2>1, DialogIsBridge DEF DialogIInv
  <1>4. Inv'
    BY <1>3, NextInv DEF DialogIInv
  <1>5. chain \in Seq(Tx) /\ Len(chain) \in Nat
    BY DEF DialogIInv, Inv, Places
  <1>6. Len(chain') = Len(chain) + 1 /\ chain'[hash'] = t
    <2> HIDE DEF t
    <2> QED
      BY <1>1, <1>2, <1>5
  <1>7. t.token = page.token /\ t.amount = shown
    BY DEF Operation
  <1>8. DialogTypeOK'
    BY <1>1, <1>5, <1>6 DEF DialogIInv, DialogTypeOK, Sending
  <1>9. ShowsSent'
    BY <1>1, <1>5, <1>6, <1>7 DEF DialogIInv, ShowsSent, Sending
  <1> QED
    BY <1>4, <1>8, <1>9 DEF DialogIInv

\* The other steps, those of the dialogs after that, and what the world does.
LEMMA SamePageSteps ==
  ASSUME DialogIInv,
         \/ FetchSignatures \/ Claim \/ ClaimFails \/ SendBack \/ SendBackFails \/ Poll
         \/ World \/ UNCHANGED dialogVars
  PROVE  DialogIInv'
  <1>1. [DialogNext]_dialogVars
    BY DEF DialogNext, Dialogs
  <1>2. [BridgeNext]_bridgeVars
    BY <1>1, DialogIsBridge DEF DialogIInv
  <1>3. Inv'
    BY <1>2, NextInv DEF DialogIInv
  <1>4. Len(chain) \in Nat /\ Len(chain') \in Nat /\ Len(chain') >= Len(chain)
    BY <1>2, ChainGrows DEF DialogIInv
  <1>5. UNCHANGED <<page, shown, hash>>
    BY DEF FetchSignatures, Claim, ClaimFails, SendBack, SendBackFails, Poll, World, dialog,
           dialogVars
  <1>6. /\ hash \in 0 .. Len(chain) /\ data \in 0 .. Len(chain)
        /\ claim \in {"initial", "success", "failed"}
        /\ back \in {"initial", "onchain", "success", "failed"}
        /\ back # "initial" => page.view = "form" /\ ~page.out
        /\ page.view = "finish" => page.item \in 1 .. Len(chain)
    BY DEF DialogIInv, DialogTypeOK, ShowsSent
  <1>7. Hash \in 0 .. Len(chain)
    BY <1>4, <1>6 DEF Hash, Finishing
  <1>8. data' \in {data, Hash}
    BY DEF FetchSignatures, Claim, ClaimFails, SendBack, SendBackFails, Poll, World, dialog,
           dialogVars
  <1>9. claim' \in {claim, "success", "failed"}
    BY DEF FetchSignatures, Claim, ClaimFails, SendBack, SendBackFails, Poll, World, dialog,
           dialogVars
  <1>10. /\ back' = back \/ back' \in {"onchain", "failed", "success"}
         /\ back' # back => page.view = "form" /\ ~page.out
    BY DEF FetchSignatures, Claim, ClaimFails, SendBack, SendBackFails, Poll, World, dialog,
           dialogVars, Returning
  <1> QED
    BY <1>2, <1>3, <1>4, <1>5, <1>6, <1>7, <1>8, <1>9, <1>10, SamePage

LEMMA DialogNextInv == DialogIInv /\ [DialogNext]_dialogVars => DialogIInv'
  <1> SUFFICES ASSUME DialogIInv, [DialogNext]_dialogVars PROVE DialogIInv'
    OBVIOUS
  <1>1. \/ Loads \/ Show \/ Toggle \/ (\E a \in Amounts : Open(a)) \/ SendOnHub
        \/ FetchSignatures \/ Claim \/ ClaimFails \/ SendBack \/ SendBackFails \/ Poll
        \/ World \/ UNCHANGED dialogVars
    BY DEF DialogNext, Dialogs
  <1> QED
    BY <1>1, LoadsInv, ShowInv, OpenInv, SendOnHubInv, SamePageSteps

\* ToNeutronBridgeDialog: of tokens with the same decimals, and on a page whose
\* dialog is not opened again with another amount, what it asks the user to sign
\* on the remote chain is what the indexers have signed, whatever pages the user
\* leaves and comes back to and whatever the chains and indexers do meanwhile.
THEOREM DialogInvariant ==
  ASSUME \A k, l \in Token : Scale[k] = Scale[l], ~Reopens
  PROVE  DialogSpec => []DialogInv
  <1>1. DialogIInv => DialogInv
    <2> SUFFICES ASSUME DialogIInv, StepTwo PROVE Matches
      BY DEF DialogIInv, DialogInv, ClaimIsSigned
    <2>1. chain \in Seq(Tx) /\ page.token \in Token
      BY DEF DialogIInv, DialogTypeOK, Page, Inv, Places
    <2>2. CASE Finishing
      <3>1. chain[page.item] \in Tx
        BY <2>1, <2>2 DEF Finishing, DialogIInv, ShowsSent
      <3>2. chain[page.item].token \in Token /\ chain[page.item].amount \in Nat
        BY <3>1, TxFields
      <3>3. Scale[page.token] \in Nat \ {0} /\ Scale[chain[page.item].token] = Scale[page.token]
        BY <2>1, <3>2, BridgeDialogAssumption
      <3>4. \A a \in Nat, s \in Nat \ {0} : (a * s) \div s = a
        OBVIOUS
      <3> QED
        BY <2>2, <3>2, <3>3, <3>4 DEF Matches, Hash, Ticker, DialogAmount
    <2>3. CASE ~Finishing
      BY <2>3 DEF StepTwo, Hash, Ticker, Matches, DialogAmount, DialogIInv, ShowsSent
    <2> QED
      BY <2>2, <2>3
  <1> QED
    BY <1>1, DialogInitInv, DialogNextInv, PTL DEF DialogSpec
=============================================================================
