------------------------------ MODULE SubmitTx ------------------------------
(***************************************************************************)
(* useSubmitTx.ts, the hook behind every dialog of the app that sends an   *)
(* inscription: it estimates the fee, asks the wallet for a signature,     *)
(* broadcasts, and polls the chain and then the API for the outcome.  An   *)
(* estimate, a prompt of the wallet and a poll are promises: nothing       *)
(* cancels one, and whatever the dialog shows by then, its callback sets   *)
(* the hook's state.  The chain and the indexer are modelled as far as     *)
(* the hook sees them.                                                     *)
(***************************************************************************)
EXTENDS Naturals, Sequences, FiniteSets

CONSTANTS
    Op,            \* inscriptions that a dialog may send
    NoOp,
    Check,         \* polls that may be on their way at a time
    NoCheck,
    Patient,       \* the user does not press a button that is shown as loading
    MaxSends,      \* bound: signatures asked for
    MaxPrompts,    \* prompts the wallet shows at a time
    MaxEstimates,  \* bound: estimates of an inscription on their way
    MaxErrors,     \* bound: estimates that fail
    MaxFails,      \* bound: transactions that the chain refuses
    MaxLost        \* bound: answers to a broadcast that do not arrive

ASSUME SubmitTxAssumption ==
    /\ Patient \in BOOLEAN
    /\ NoOp \notin Op /\ NoCheck \notin Check
    /\ {MaxSends, MaxPrompts, MaxEstimates, MaxErrors, MaxFails, MaxLost} \subseteq Nat

VARIABLES
    op,          \* txInscription
    state,       \* txState
    hash,        \* txHash; 0 for ''
    error,       \* error
    fee,         \* chainFee: the inscription it was estimated for
    estimates,   \* estimates on their way
    checks,      \* polls on their way
    tx,          \* the transactions signed or to be signed: their place is their hash
    faults       \* errors, failures and losses so far

hook == <<op, state, hash, error, fee>>
submitVars == <<hook, estimates, checks, tx, faults>>
-----------------------------------------------------------------------------
TxState == {"Initial", "Submit", "Sign", "SuccessOnchain", "SuccessIndexer",
            "Success", "Failed"}
ErrorKind == {"none", "Generic", "Estimation", "Validation", "Transaction"}

InBlock == {"included", "failed", "pending", "success", "error"}
Place == {"prompt", "gone", "mempool"} \cup InBlock

Result == {"none", "SuccessOnchain", "SuccessIndexer", "Success", "Failed"}

SubmitTypeOK ==
    /\ op \in Op \cup {NoOp} /\ fee \in Op \cup {NoOp}
    /\ state \in TxState /\ error \in ErrorKind
    /\ hash \in 0 .. Len(tx)
    /\ estimates \in [Op -> Nat]
    /\ checks \in [Check -> [hash: 1 .. MaxSends, chain: BOOLEAN,
                             result: Result \cup {"asked"}] \cup {NoCheck}]
    /\ tx \in Seq([op: Op, fee: Op, sequence: 0 .. MaxSends, at: Place])
    /\ Len(tx) <= MaxSends
    /\ faults \in [errors: 0 .. MaxErrors, fails: 0 .. MaxFails, lost: 0 .. MaxLost]

SubmitInit ==
    /\ op = NoOp /\ state = "Initial" /\ hash = 0 /\ error = "none" /\ fee = NoOp
    /\ estimates = [o \in Op |-> 0]
    /\ checks = [c \in Check |-> NoCheck]
    /\ tx = <<>>
    /\ faults = [errors |-> 0, fails |-> 0, lost |-> 0]
-----------------------------------------------------------------------------
Txs == 1 .. Len(tx)
Where(places) == {h \in Txs : tx[h].at \in places}

\* The account's sequence, in the last block and with what waits for the next.
Sequence == Cardinality(Where(InBlock))
PendingSequence == Cardinality(Where(InBlock \cup {"mempool"}))

Count(f) == faults' = [faults EXCEPT ![f] = @ + 1]
Move(h, place) == tx' = [tx EXCEPT ![h].at = place]

\* resetState, and another inscription: the effect asks for its estimate.
Reset(o) ==
    /\ op' = o /\ fee' = NoOp /\ state' = "Initial" /\ hash' = 0 /\ error' = "none"
    /\ estimates' = IF o \in Op THEN [estimates EXCEPT ![o] = @ + 1] ELSE estimates
-----------------------------------------------------------------------------
(* The hook *)

\* .then and .catch of an estimate, whatever inscription is shown by now.
Estimated(o) ==
    /\ estimates[o] > 0
    /\ estimates' = [estimates EXCEPT ![o] = @ - 1]
    /\ fee' = o /\ error' = "none"
    /\ UNCHANGED <<op, state, hash, checks, tx, faults>>

EstimateFails(o) ==
    /\ estimates[o] > 0 /\ faults.errors < MaxErrors
    /\ estimates' = [estimates EXCEPT ![o] = @ - 1]
    /\ error' = "Estimation" /\ Count("errors")
    /\ UNCHANGED <<op, state, hash, fee, checks, tx>>

\* Mutant: the client counts the transactions that wait.
SendTxNext(o, f) ==
    /\ UNCHANGED <<op, hash, fee, estimates, checks, faults>>
    /\ IF o = NoOp
       THEN error' = "Generic" /\ UNCHANGED <<state, tx>>
       ELSE /\ state' = "Sign"
            /\ IF f = NoOp
               THEN error' = "Validation" /\ UNCHANGED tx
               ELSE /\ Len(tx) < MaxSends /\ Cardinality(Where({"prompt"})) < MaxPrompts
                    /\ error' = "none"
                    /\ tx' = Append(tx, [op |-> o, fee |-> f,
                                         sequence |-> PendingSequence, at |-> "prompt"])

\* sendTx, up to the wallet's prompt, of the inscription and the fee it was
\* rendered with.  The sequence is the last block's.
SendTx(o, f) ==
    /\ UNCHANGED <<op, hash, fee, estimates, checks, faults>>
    /\ IF o = NoOp
       THEN error' = "Generic" /\ UNCHANGED <<state, tx>>
       ELSE /\ state' = "Sign"
            /\ IF f = NoOp
               THEN error' = "Validation" /\ UNCHANGED tx
               ELSE /\ Len(tx) < MaxSends /\ Cardinality(Where({"prompt"})) < MaxPrompts
                    /\ error' = "none"
                    /\ tx' = Append(tx, [op |-> o, fee |-> f,
                                         sequence |-> Sequence, at |-> "prompt"])

\* Actions.tsx: the button is there, loading or not, until there is a hash.
CanSubmit == error = "none" /\ hash = 0 /\ (Patient => state = "Initial")
CanRetry == error # "none"

\* Without a fee, a retry makes a new client, and an estimate with each.
Retry(o, f) ==
    IF f # NoOp THEN SendTx(o, f)
    ELSE /\ op \in Op => estimates[op] + 2 <= MaxEstimates
         /\ estimates' = IF op \in Op THEN [estimates EXCEPT ![op] = @ + 2] ELSE estimates
         /\ UNCHANGED <<hook, checks, tx, faults>>

\* catch: the user rejects, the chain refuses, or its answer is lost.
SendFails ==
    /\ state' = "Failed" /\ error' = "Transaction"
    /\ UNCHANGED <<op, hash, fee, estimates, checks>>

Reject(h) ==
    /\ tx[h].at = "prompt"
    /\ Move(h, "gone") /\ SendFails
    /\ UNCHANGED faults

\* Signed and broadcast; the node compares the sequence.
Broadcast(h) ==
    /\ tx[h].at = "prompt"
    /\ IF tx[h].sequence = PendingSequence
       THEN /\ Move(h, "mempool")
            /\ state' = "Submit" /\ hash' = h
            /\ UNCHANGED <<op, error, fee, estimates, checks>>
       ELSE Move(h, "gone") /\ SendFails
    /\ UNCHANGED faults

BroadcastLost(h) ==
    /\ tx[h].at = "prompt" /\ tx[h].sequence = PendingSequence
    /\ faults.lost < MaxLost /\ Count("lost")
    /\ Move(h, "mempool") /\ SendFails

Polls == hash # 0 /\ state \notin {"Success", "Failed"}

\* A second has passed: setInterval calls checkTransaction.
Tick(c) ==
    /\ Polls /\ checks[c] = NoCheck
    /\ checks' = [checks EXCEPT ![c] =
                    [hash |-> hash, chain |-> state = "Submit", result |-> "asked"]]
    /\ UNCHANGED <<hook, estimates, tx, faults>>

\* checkTransaction
Found(h, chain) ==
    CASE chain /\ tx[h].at = "failed" -> "Failed"
      [] chain /\ tx[h].at \in InBlock -> "SuccessOnchain"
      [] ~chain /\ tx[h].at = "pending" -> "SuccessIndexer"
      [] ~chain /\ tx[h].at = "success" -> "Success"
      [] ~chain /\ tx[h].at = "error" -> "Failed"
      [] OTHER -> "none"

\* The node, or the API, answers.
Answer(c) ==
    /\ checks[c] # NoCheck /\ checks[c].result = "asked"
    /\ checks' = [checks EXCEPT ![c].result = Found(checks[c].hash, checks[c].chain)]
    /\ UNCHANGED <<hook, estimates, tx, faults>>

\* Mutant: a check that found nothing is taken for a result.
DeliverAlways(c) ==
    /\ checks[c] # NoCheck /\ checks[c].result # "asked"
    /\ checks' = [checks EXCEPT ![c] = NoCheck]
    /\ state' = checks[c].result
    /\ error' = IF checks[c].result = "Failed" THEN "Transaction" ELSE error
    /\ UNCHANGED <<op, hash, fee, estimates, tx, faults>>

\* The answer arrives.  clearInterval does not hold it back.
Deliver(c) ==
    /\ checks[c] # NoCheck /\ checks[c].result # "asked"
    /\ checks' = [checks EXCEPT ![c] = NoCheck]
    /\ state' = IF checks[c].result = "none" THEN state ELSE checks[c].result
    /\ error' = IF checks[c].result = "Failed" THEN "Transaction" ELSE error
    /\ UNCHANGED <<op, hash, fee, estimates, tx, faults>>
-----------------------------------------------------------------------------
(* The chain and the indexer *)

Include(h) ==
    /\ tx[h].at = "mempool"
    /\ Move(h, "included")
    /\ UNCHANGED <<hook, estimates, checks, faults>>

\* In a block with a code.
Fail(h) ==
    /\ tx[h].at = "mempool" /\ Move(h, "failed")
    /\ faults.fails < MaxFails /\ Count("fails")
    /\ UNCHANGED <<hook, estimates, checks>>

\* Bound: a transaction lost from the mempool counts as a loss.
Drop(h) ==
    /\ tx[h].at = "mempool" /\ Move(h, "gone")
    /\ faults.lost < MaxLost /\ Count("lost")
    /\ UNCHANGED <<hook, estimates, checks>>

\* The indexer takes the transactions in the order of the chain, which is that of
\* the account's sequence.
InOrder(h) == \A k \in Where({"included", "pending"}) : tx[h].sequence <= tx[k].sequence

Index(h) ==
    /\ InOrder(h)
    /\ \/ tx[h].at = "included" /\ Move(h, "pending")
       \/ tx[h].at = "pending" /\ Move(h, "success")
    /\ UNCHANGED <<hook, estimates, checks, faults>>
-----------------------------------------------------------------------------
Poll == \E c \in Check : Tick(c) \/ Answer(c) \/ Deliver(c)

Wallet == \E h \in Txs : Reject(h) \/ Broadcast(h) \/ BroadcastLost(h)
-----------------------------------------------------------------------------
\* client.ts: sign reads the account's sequence from the last block, so that of
\* the transactions a user signs, in however many prompts and retries, one at
\* a time waits for a block.
OneWaits == Cardinality(Where({"mempool"})) <= 1
=============================================================================
