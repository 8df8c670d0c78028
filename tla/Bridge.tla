------------------------------- MODULE Bridge -------------------------------
(***************************************************************************)
(* The bridge to a remote chain: the processor of metaprotocol/bridge.go   *)
(* on the CFT-20 ledger, run by several indexers that each hold a signing  *)
(* key and keep a database of their own, and the contract on the remote    *)
(* chain, which is external: it mints what all of them have signed and     *)
(* sends back what is burnt there.  Every block has one transaction; an    *)
(* action of an indexer is the checks of an operation with its first save, *)
(* or one later save, and after a stop the last processed block is run     *)
(* again, its transaction now without an ID.                               *)
(***************************************************************************)
EXTENDS Naturals, Sequences, FiniteSets, Coins

CONSTANTS
    Indexer,      \* the indexers behind bridgeEndpoints
    User, Contract,
    Token,
    Amounts,      \* amounts users send, in base units
    Funds,        \* what a user has of a token at the start
    Refused,      \* recv transactions that are not the contract's
    MaxTx,        \* bound: transactions
    MaxPackets,   \* bound: packets from the remote chain
    MaxExpired,   \* bound: packets that time out
    MaxStops      \* bound: stops of an indexer

VARIABLES
    chain,        \* the transactions, one in each block
    pos,          \* currentHeight
    rows,         \* transactions in the table of an indexer
    pc, fresh,    \* the next save of a handler; its transaction's row has an ID
    bal,          \* token_holder.amount
    on,           \* bridge_token
    record,       \* bridge_history, with the signature of a send
    stops,
    linked,       \* tokens of the contract
    minted,       \* transactions of the hub that the contract has processed
    supply,       \* balances on the remote chain
    packet,       \* what the contract has sent
    debited       \* history variable: debits of a transaction, by indexer

indexers == <<pos, rows, pc, fresh, bal, on, record, stops, debited>>
remote == <<linked, minted, supply, packet>>
bridgeVars == <<chain, indexers, remote>>
-----------------------------------------------------------------------------
Id == 1 .. MaxTx

\* packet: the one that a recv comes from.
Tx == [op: {"enable", "send", "recv"}, sender: User \cup {Contract}, channel: BOOLEAN,
       token: Token, to: User, amount: Amounts \cup {0}, packet: 0 .. MaxPackets]

ASSUME BridgeAssumption ==
    /\ Contract \notin User /\ Amounts \subseteq Nat \ {0} /\ Funds \in Nat
    /\ Refused \subseteq Tx /\ IsFiniteSet(Indexer) /\ IsFiniteSet(User) /\ IsFiniteSet(Token)
    /\ \A t \in Refused : t.op = "recv" /\ (t.sender # Contract \/ ~t.channel)
    /\ {MaxTx, MaxPackets, MaxExpired, MaxStops} \subseteq Nat

Packet == [token: Token, to: User, amount: Amounts, at: {"way", "failed", "done"},
           expired: 0 .. MaxExpired]

BridgeTypeOK ==
    /\ chain \in Seq(Tx) /\ Len(chain) <= MaxTx
    /\ pos \in [Indexer -> 1 .. Len(chain) + 1]
    /\ rows \in [Indexer -> 0 .. Len(chain)]
    /\ pc \in [Indexer -> {"idle", "run", "history", "record", "done"}]
    /\ fresh \in [Indexer -> BOOLEAN] /\ stops \in [Indexer -> 0 .. MaxStops]
    /\ bal \in [Indexer -> [Token \X User -> Nat]]
    /\ on \in [Indexer -> SUBSET Token]
    /\ record \in [Indexer -> SUBSET Id]
    /\ debited \in [Indexer -> [Id -> Nat]]
    /\ linked \subseteq Token /\ minted \subseteq Id
    /\ supply \in [Token \X User -> Nat]
    /\ packet \in Seq(Packet) /\ Len(packet) <= MaxPackets

BridgeInit ==
    /\ chain = <<>>
    /\ pos = [i \in Indexer |-> 1] /\ rows = [i \in Indexer |-> 0]
    /\ pc = [i \in Indexer |-> "idle"] /\ fresh = [i \in Indexer |-> FALSE]
    /\ bal = [i \in Indexer |-> [h \in Token \X User |-> Funds]]
    /\ on = [i \in Indexer |-> {}] /\ record = [i \in Indexer |-> {}]
    /\ stops = [i \in Indexer |-> 0]
    /\ debited = [i \in Indexer |-> [n \in Id |-> 0]]
    /\ linked = {} /\ minted = {} /\ supply = [h \in Token \X User |-> 0]
    /\ packet = <<>>
-----------------------------------------------------------------------------
(* The processor of indexer i *)

tx(i) == chain[pos[i]]
From(i) == <<tx(i).token, tx(i).sender>>
To(i) == <<tx(i).token, tx(i).to>>

Goto(i, step) == pc' = [pc EXCEPT ![i] = step]

\* The transaction's row, or no ID when it is there already.
Take(i) ==
    /\ pc[i] = "idle" /\ pos[i] <= Len(chain)
    /\ fresh' = [fresh EXCEPT ![i] = pos[i] > rows[i]]
    /\ rows' = [rows EXCEPT ![i] = IF pos[i] > @ THEN pos[i] ELSE @]
    /\ Goto(i, "run")
    /\ UNCHANGED <<chain, remote, pos, bal, on, record, stops, debited>>

At(i, op) == pc[i] = "run" /\ tx(i).op = op

\* A token is enabled once: bridge_token has a unique constraint.
Enable(i) ==
    /\ At(i, "enable")
    /\ on' = [on EXCEPT ![i] = @ \cup {tx(i).token}]
    /\ Goto(i, "done")
    /\ UNCHANGED <<chain, remote, pos, rows, fresh, bal, record, stops, debited>>

\* Mutant: the balance is not compared with the amount.
SendOKAnyBalance(i) == tx(i).token \in on[i]

SendOK(i) == tx(i).token \in on[i] /\ bal[i][From(i)] >= tx(i).amount

\* Mutant: the signature is stored before the transfer.
SendRecordedFirst(i) ==
    /\ At(i, "send")
    /\ IF tx(i).token \in on[i]
       THEN /\ record' = [record EXCEPT ![i] = @ \cup {pos[i]}]
            /\ IF SendOK(i)
               THEN /\ bal' = [bal EXCEPT ![i][From(i)] = @ - tx(i).amount]
                    /\ debited' = [debited EXCEPT ![i][pos[i]] = @ + 1]
               ELSE UNCHANGED <<bal, debited>>
       ELSE UNCHANGED <<record, bal, debited>>
    /\ Goto(i, "done")
    /\ UNCHANGED <<chain, remote, pos, rows, fresh, on, stops>>

\* Transfer to the virtual address: the sender is debited.
Send(i) ==
    /\ At(i, "send")
    /\ IF SendOK(i)
       THEN /\ bal' = [bal EXCEPT ![i][From(i)] = @ - tx(i).amount]
            /\ debited' = [debited EXCEPT ![i][pos[i]] = @ + 1]
            /\ Goto(i, "history")
       ELSE Goto(i, "done") /\ UNCHANGED <<bal, debited>>
    /\ UNCHANGED <<chain, remote, pos, rows, fresh, on, record, stops>>

\* Mutant: the sender of a recv is not looked at.
RecvOKAnyone(i) == tx(i).channel /\ tx(i).token \in on[i]

\* Mutant: the channel is compared with the hub's own.
RecvOKOwnChannel(i) == tx(i).sender = Contract /\ ~tx(i).channel /\ tx(i).token \in on[i]

RecvOK(i) == tx(i).sender = Contract /\ tx(i).channel /\ tx(i).token \in on[i]

\* Transfer from the virtual address: the receiver is credited.
Recv(i) ==
    /\ At(i, "recv")
    /\ IF RecvOK(i)
       THEN /\ bal' = [bal EXCEPT ![i][To(i)] = @ + tx(i).amount]
            /\ Goto(i, "history")
       ELSE Goto(i, "done") /\ UNCHANGED bal
    /\ UNCHANGED <<chain, remote, pos, rows, fresh, on, record, stops, debited>>

\* Mutant: the error that is returned is the one that is not there.
SaveHistorySwapped(i) ==
    /\ pc[i] = "history"
    /\ Goto(i, IF fresh[i] THEN "done" ELSE "record")
    /\ UNCHANGED <<chain, remote, pos, rows, fresh, bal, on, record, stops, debited>>

\* The end of Transfer: token_address_history has a foreign key on the
\* transaction, and its error is returned.
SaveHistory(i) ==
    /\ pc[i] = "history"
    /\ Goto(i, IF fresh[i] THEN "record" ELSE "done")
    /\ UNCHANGED <<chain, remote, pos, rows, fresh, bal, on, record, stops, debited>>

\* "A signature is spendable! Create and store it last."
SaveRecord(i) ==
    /\ pc[i] = "record"
    /\ record' = [record EXCEPT ![i] = @ \cup {pos[i]}]
    /\ Goto(i, "done")
    /\ UNCHANGED <<chain, remote, pos, rows, fresh, bal, on, stops, debited>>

\* last_processed_height
SaveStatus(i) ==
    /\ pc[i] = "done"
    /\ pos' = [pos EXCEPT ![i] = @ + 1]
    /\ Goto(i, "idle")
    /\ UNCHANGED <<chain, remote, rows, fresh, bal, on, record, stops, debited>>

Stop(i) ==
    /\ stops[i] < MaxStops
    /\ stops' = [stops EXCEPT ![i] = @ + 1]
    /\ pos' = [pos EXCEPT ![i] = IF @ > 1 THEN @ - 1 ELSE @]
    /\ Goto(i, "idle")
    /\ UNCHANGED <<chain, remote, rows, fresh, bal, on, record, debited>>

Process(i) ==
    Take(i) \/ Enable(i) \/ Send(i) \/ Recv(i) \/ SaveHistory(i) \/ SaveRecord(i)
    \/ SaveStatus(i)
-----------------------------------------------------------------------------
(* The hub *)

Include(t) ==
    /\ Len(chain) < MaxTx
    /\ chain' = Append(chain, t)
    /\ UNCHANGED indexers

Operation(op, u, k, to, a) ==
    [op |-> op, sender |-> u, channel |-> FALSE, token |-> k, to |-> to, amount |-> a,
     packet |-> 0]

\* Bound: room is left in the chain for what the remote chain sends.
Room == Len(chain) < MaxTx - MaxPackets

SubmitEnable(u, k) == Include(Operation("enable", u, k, u, 0)) /\ UNCHANGED remote
SubmitSend(u, k, to, a) == Include(Operation("send", u, k, to, a)) /\ UNCHANGED remote
SubmitRefused == \E t \in Refused : Include(t) /\ UNCHANGED remote

Submit ==
    /\ Room
    /\ \/ \E u \in User, k \in Token : SubmitEnable(u, k)
       \/ \E u, to \in User, k \in Token, a \in Amounts : SubmitSend(u, k, to, a)
       \/ SubmitRefused
-----------------------------------------------------------------------------
(* The contract, as the app uses it *)

\* link_token, with a signature of every indexer.
Link(k) ==
    /\ k \notin linked /\ \A i \in Indexer : k \in on[i]
    /\ linked' = linked \cup {k}
    /\ UNCHANGED <<chain, indexers, minted, supply, packet>>

\* receive
Signed(n) == \A i \in Indexer : n \in record[i]

Mint(n) ==
    /\ n \in 1 .. Len(chain) \ minted /\ chain[n].op = "send"
    /\ Signed(n) /\ chain[n].token \in linked
    /\ minted' = minted \cup {n}
    /\ supply' = [supply EXCEPT ![<<chain[n].token, chain[n].to>>] = @ + chain[n].amount]
    /\ UNCHANGED <<chain, indexers, linked, packet>>

\* send
Burn(k, u, to, a) ==
    /\ supply[<<k, u>>] >= a /\ Len(packet) < MaxPackets
    /\ supply' = [supply EXCEPT ![<<k, u>>] = @ - a]
    /\ packet' = Append(packet, [token |-> k, to |-> to, amount |-> a, at |-> "way",
                                 expired |-> 0])
    /\ UNCHANGED <<chain, indexers, linked, minted>>

Relay(p) ==
    /\ packet[p].at = "way"
    /\ Include([op |-> "recv", sender |-> Contract, channel |-> TRUE,
                token |-> packet[p].token, to |-> packet[p].to,
                amount |-> packet[p].amount, packet |-> p])
    /\ packet' = [packet EXCEPT ![p].at = "done"]
    /\ UNCHANGED <<linked, minted, supply>>

Expire(p) ==
    /\ packet[p].at = "way" /\ packet[p].expired < MaxExpired
    /\ packet' = [packet EXCEPT ![p].at = "failed", ![p].expired = @ + 1]
    /\ UNCHANGED <<chain, indexers, linked, minted, supply>>

\* retry_send
RetrySend(p) ==
    /\ packet[p].at = "failed"
    /\ packet' = [packet EXCEPT ![p].at = "way"]
    /\ UNCHANGED <<chain, indexers, linked, minted, supply>>

Packets == \E p \in 1 .. Len(packet) : Relay(p) \/ Expire(p) \/ RetrySend(p)
-----------------------------------------------------------------------------
BridgeNext ==
    \/ \E i \in Indexer : Process(i) \/ Stop(i)
    \/ Submit \/ Packets
    \/ \E k \in Token : Link(k) \/ \E u, to \in User, a \in Amounts : Burn(k, u, to, a)
    \/ \E n \in Id : Mint(n)

BridgeSpec == BridgeInit /\ [][BridgeNext]_bridgeVars

\* The indexers run, relayers carry packets and failed packets are sent again.
BridgeFairSpec ==
    /\ BridgeSpec
    /\ \A i \in Indexer : WF_bridgeVars(Process(i))
    /\ \A p \in 1 .. MaxPackets :
          /\ WF_bridgeVars(p <= Len(packet) /\ Relay(p))
          /\ WF_bridgeVars(p <= Len(packet) /\ RetrySend(p))
-----------------------------------------------------------------------------
(* Properties *)

Sends(i) == {n \in record[i] : chain[n].op = "send"}
Recvs(i) == {n \in record[i] : chain[n].op = "recv"}

\* What users have of a token, what is signed and not claimed, and what has been
\* sent back and not been credited.
Purses(f, t) == [u \in User |-> f[<<t, u>>]]

Claims(i, t) ==
    [n \in Id |-> IF n \in Sends(i) \ minted /\ chain[n].token = t THEN chain[n].amount ELSE 0]

Returns(i, t) ==
    [p \in 1 .. MaxPackets |->
        IF /\ p <= Len(packet) /\ packet[p].token = t
           /\ \A n \in Recvs(i) : chain[n].packet # p
        THEN packet[p].amount ELSE 0]

\* The units of a token on both chains and between them, as one indexer has them.
Everywhere(i, t) ==
    Worth(User, Purses(bal[i], t)) + Worth(Id, Claims(i, t))
      + Worth(User, Purses(supply, t)) + Worth(1 .. MaxPackets, Returns(i, t))

\* bridge.go against the contract: of every token, what one indexer's ledger has,
\* what it has signed and nobody has claimed, what is on the remote chain and what
\* is on its way back is what there was, at every transaction that has been
\* processed.  Holds of an indexer that has not been stopped in a transaction.
Conserved ==
    \A i \in Indexer, t \in Token :
        pc[i] = "idle" /\ stops[i] = 0 => Everywhere(i, t) = Funds * Cardinality(User)

\* The bridge: ledgers stay within what they hold, and what left one chain is on
\* the other or on its way.
BridgeInv == BridgeTypeOK /\ Conserved

\* bridge.go:128, "A signature is spendable! Create and store it last": whatever
\* stops when, nothing is minted that some indexer has not debited.
MintedIsDebited == \A n \in minted, i \in Indexer : debited[i][n] > 0

\* bridge.go: "Perform the transfer to the virtual bridge address (modifies
\* state)", "Record the bridge operation".  What every indexer has debited gets
\* all the signatures it takes, unless one of them is stopped in between.
Debited(n) == \A i \in Indexer : debited[i][n] > 0
Stopped == \E i \in Indexer : stops[i] > 0

SignaturesCome == \A n \in Id : Debited(n) ~> Signed(n) \/ Stopped

\* What is burnt on the remote chain is credited on every indexer, however often
\* its packet runs out, unless an indexer is stopped in between.
PacketsArrive ==
    \A p \in 1 .. MaxPackets :
        Len(packet) >= p ~>
            Stopped \/ \A i \in Indexer : \E n \in Recvs(i) : chain[n].packet = p
=============================================================================
