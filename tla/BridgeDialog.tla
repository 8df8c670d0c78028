---------------------------- MODULE BridgeDialog ----------------------------
(***************************************************************************)
(* The bridge page of the app (routes/app.bridge.($ticker).tsx) and its    *)
(* two dialogs, before the indexers and the contract of Bridge: a transfer *)
(* to the remote chain is an inscription on the hub, then a claim with the *)
(* signatures of all indexers; a transfer back is a transaction on the     *)
(* remote chain, then a wait for the indexer to credit it.  The user may   *)
(* leave the page at any step and come back to it.                         *)
(***************************************************************************)
EXTENDS Bridge, SequencesExt

CONSTANTS
    Home,         \* the indexer behind asteroidApi
    Owner,        \* the user of the page, on both chains
    Default,      \* DEFAULT_TICKER
    Scale,        \* 10^decimals of a token
    Reopens,      \* whether a dialog is opened again on the same page
    Followed      \* transfers that the user follows up from the history

VARIABLES
    page,         \* the loader's data, what of it is shown, directionFrom
    shown,        \* amount of the dialog's value, 0 before it is opened
    hash, data,   \* submitTxState.txHash; the transaction of signatures.data
    claim, back   \* txState of the dialogs' transactions on the remote chain

dialog == <<page, shown, hash, data, claim, back>>
dialogVars == <<bridgeVars, dialog>>

ASSUME BridgeDialogAssumption ==
    /\ Home \in Indexer /\ Owner \in User /\ Default \in Token /\ Cardinality(Token) <= MaxTx
    /\ Scale \in [Token -> Nat \ {0}] /\ Reopens \in BOOLEAN /\ Followed \subseteq Nat
-----------------------------------------------------------------------------
View == {"none", "loading", "form", "finish", "alert"}

Page == [token: Token, item: Id \cup {0}, byTx: BOOLEAN, known: Nat, view: View, out: BOOLEAN]

DialogTypeOK ==
    /\ page \in Page /\ shown \in Amounts \cup {0}
    /\ hash \in 0 .. Len(chain) /\ data \in 0 .. Len(chain)
    /\ claim \in {"initial", "success", "failed"}
    /\ back \in {"initial", "onchain", "success", "failed"}
    /\ hash # 0 => page.view = "form" /\ page.out
    /\ back # "initial" => page.view = "form" /\ ~page.out

Closed == [token |-> Default, item |-> 0, byTx |-> FALSE, known |-> 0, view |-> "none",
           out |-> TRUE]

\* Every token has been enabled and linked.
Enabled ==
    [n \in 1 .. Cardinality(Token) |->
        Operation("enable", Owner, SetToSeq(Token)[n], Owner, 0)]

DialogInit ==
    /\ chain = Enabled
    /\ pos = [i \in Indexer |-> Len(chain) + 1] /\ rows = [i \in Indexer |-> Len(chain)]
    /\ pc = [i \in Indexer |-> "idle"] /\ fresh = [i \in Indexer |-> FALSE]
    /\ bal = [i \in Indexer |-> [h \in Token \X User |-> Funds]]
    /\ on = [i \in Indexer |-> Token] /\ record = [i \in Indexer |-> {}]
    /\ stops = [i \in Indexer |-> 0]
    /\ debited = [i \in Indexer |-> [n \in Id |-> 0]]
    /\ linked = Token /\ minted = {} /\ supply = [h \in Token \X User |-> 0]
    /\ packet = <<>>
    /\ page = Closed /\ shown = 0 /\ hash = 0 /\ data = 0
    /\ claim = "initial" /\ back = "initial"
-----------------------------------------------------------------------------
(* The page *)

\* The dialogs are mounted anew.
Fresh ==
    shown' = 0 /\ hash' = 0 /\ data' = 0 /\ claim' = "initial" /\ back' = "initial"

\* getLatestSendBridgeHistory
LatestSend ==
    LET sends == {n \in record[Home] : chain[n].op = "send" /\ chain[n].sender = Owner}
    IN IF sends = {} THEN 0 ELSE Max(sends)

\* The loaders of the root and of the page; last_known_height is a height that
\* the indexer has seen.
Load(k, n, byTx) ==
    /\ \E h \in pos[Home] - 1 .. Len(chain) :
          page' = [token |-> k, item |-> n, byTx |-> byTx, known |-> h, out |-> TRUE,
                   view |-> IF n = 0 THEN "form" ELSE "loading"]
    /\ Fresh /\ UNCHANGED bridgeVars

\* The address is in a cookie, once the wallet has been connected.
LoadTicker(k) == Load(k, LatestSend, FALSE) \/ Load(k, 0, FALSE)

\* Mutant: the parameter is read where the loader has put the latest send.
LoadTxLatest(n) == n \in record[Home] /\ Load(Default, LatestSend, TRUE)

\* The link of the bridge history, /app/bridge?tx=
LoadTx(n) == n \in record[Home] /\ Load(Default, n, TRUE)

\* useIsBridgeTransactionProcessed
Processed == chain[page.item].op = "recv" \/ page.item \in minted

Decided ==
    IF ~Processed THEN "finish" ELSE IF page.byTx THEN "alert" ELSE "form"

Show ==
    /\ page.view \in {"loading", "finish"} /\ page.view # Decided
    /\ page' = [page EXCEPT !.view = Decided]
    /\ Fresh /\ UNCHANGED bridgeVars

\* Mutant: both dialogs stay mounted.
ToggleMounted ==
    /\ page.view = "form" /\ page' = [page EXCEPT !.out = ~@]
    /\ shown' = 0 /\ UNCHANGED <<bridgeVars, hash, data, claim, back>>

Toggle ==
    /\ page.view = "form" /\ page' = [page EXCEPT !.out = ~@]
    /\ Fresh /\ UNCHANGED bridgeVars

\* "Bridge now".  Nothing but the value changes when the dialog is open or has
\* been open before.
Open(a) ==
    /\ page.view = "form" /\ shown # a /\ (shown = 0 \/ Reopens)
    /\ shown' = a
    /\ UNCHANGED <<bridgeVars, page, hash, data, claim, back>>
-----------------------------------------------------------------------------
(* ToNeutronBridgeDialog *)

Finishing == page.view = "finish"
Sending == page.view = "form" /\ page.out /\ shown # 0

Hash == IF Finishing THEN page.item ELSE hash
Ticker == IF Finishing THEN chain[page.item].token ELSE page.token

\* Mutant: the amount of the history item is taken for a decimal value.
DialogAmountBase ==
    IF Finishing THEN chain[page.item].amount * Scale[Ticker] ELSE shown

\* The page divides by the scale of its own token, the dialog multiplies by
\* that of the item's.
DialogAmount ==
    IF Finishing THEN (chain[page.item].amount * Scale[Ticker]) \div Scale[page.token]
                 ELSE shown

\* The inscription, sent and included.
SendOnHub ==
    /\ Sending /\ hash = 0 /\ Room
    /\ SubmitSend(Owner, page.token, Owner, shown)
    /\ hash' = Len(chain')
    /\ UNCHANGED <<page, shown, data, claim, back>>

\* fetchSignatures, from all of bridgeEndpoints.
FetchSignatures ==
    /\ Finishing \/ Sending
    /\ Hash # 0 /\ data # Hash /\ Signed(Hash)
    /\ data' = Hash
    /\ UNCHANGED <<bridgeVars, page, shown, hash, claim, back>>

StepTwo == (Finishing \/ Sending) /\ Hash # 0 /\ data = Hash

\* The contract checks the signatures against the message.
Matches == chain[Hash].token = Ticker /\ chain[Hash].amount = DialogAmount

Claim ==
    /\ StepTwo /\ claim = "initial"
    /\ Matches /\ Mint(Hash)
    /\ claim' = "success"
    /\ UNCHANGED <<page, shown, hash, data, back>>

\* Refused by the user, the wallet or the contract; onRetry does nothing.
ClaimFails ==
    /\ StepTwo /\ claim = "initial"
    /\ claim' = "failed"
    /\ UNCHANGED <<bridgeVars, page, shown, hash, data, back>>
-----------------------------------------------------------------------------
(* FromNeutronBridgeDialog *)

Returning == page.view = "form" /\ ~page.out /\ shown # 0

SendBack ==
    /\ Returning /\ back = "initial"
    /\ Burn(page.token, Owner, Owner, shown)
    /\ back' = "onchain"
    /\ UNCHANGED <<page, shown, hash, data, claim>>

SendBackFails ==
    /\ Returning /\ back = "initial"
    /\ back' = "failed"
    /\ UNCHANGED <<bridgeVars, page, shown, hash, data, claim>>

\* Mutant: the height is that of the indexer when it is asked.
ReceivedSince(n) ==
    /\ n \in record[Home] /\ n > pos[Home] - 1
    /\ chain[n].op = "recv" /\ chain[n].token = page.token /\ chain[n].to = Owner
    /\ chain[n].amount = shown

\* getReceivedBridgeHistory, which matches no sends: their receivers are
\* addresses of the other chain.
Received(n) ==
    /\ n \in record[Home] /\ n > page.known
    /\ chain[n].op = "recv" /\ chain[n].token = page.token /\ chain[n].to = Owner
    /\ chain[n].amount = shown

Poll ==
    /\ Returning /\ back = "onchain"
    /\ \E n \in Id : Received(n)
    /\ back' = "success"
    /\ UNCHANGED <<bridgeVars, page, shown, hash, data, claim>>
-----------------------------------------------------------------------------
Loads == (\E k \in Token : LoadTicker(k)) \/ \E n \in Id : LoadTx(n)

Dialogs ==
    \/ Show \/ Toggle \/ \E a \in Amounts : Open(a)
    \/ SendOnHub \/ FetchSignatures \/ Claim \/ ClaimFails
    \/ SendBack \/ SendBackFails \/ Poll

\* The claim is also made in another tab.
World ==
    /\ (\E i \in Indexer : Process(i) \/ Stop(i)) \/ Packets \/ \E n \in Id : Mint(n)
    /\ UNCHANGED dialog

DialogNext == Loads \/ Dialogs \/ World

DialogSpec == DialogInit /\ [][DialogNext]_dialogVars

\* Fairness of the indexers, relayers and timers, and of a user who comes back to
\* the link of a transfer in the history until it has been finished.
DialogFairSpec ==
    /\ DialogSpec
    /\ \A i \in Indexer : WF_dialogVars(Process(i) /\ UNCHANGED dialog)
    /\ \A p \in 1 .. MaxPackets :
          WF_dialogVars(p <= Len(packet) /\ (Relay(p) \/ RetrySend(p)) /\ UNCHANGED dialog)
    /\ WF_dialogVars(Show) /\ WF_dialogVars(FetchSignatures) /\ WF_dialogVars(Poll)

FinishingSpec ==
    /\ DialogFairSpec
    /\ \A n \in Followed : SF_dialogVars(n \notin minted /\ LoadTx(n))
    /\ \A n \in Followed : SF_dialogVars(page.item = n /\ Show)
    /\ \A n \in Followed : SF_dialogVars(Hash = n /\ FetchSignatures)
    /\ \A n \in Followed : SF_dialogVars(Hash = n /\ Claim)
-----------------------------------------------------------------------------
(* Properties *)

\* ToNeutronBridgeDialog: what it asks the user to sign on the remote chain is
\* what the indexers have signed, of the transfer that it shows.
ClaimIsSigned == StepTwo /\ claim = "initial" => Matches

\* The bridge page: its dialogs are in a state they can show, and ask for a claim
\* of what was signed.
DialogInv == DialogTypeOK /\ ClaimIsSigned

\* A transfer back ends with its dialog saying so, unless the user leaves or the
\* indexer is stopped before it has recorded it.
ArrivalShown == back = "onchain" ~> back # "onchain" \/ Stopped

\* Whatever pages the user leaves at whatever step, a transfer that all
\* indexers have signed can be finished.
TransfersFinish == \A n \in Followed : n \in Id /\ Signed(n) /\ chain[n].op = "send" ~> n \in minted
=============================================================================
