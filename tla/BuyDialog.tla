----------------------------- MODULE BuyDialog -----------------------------
(***************************************************************************)
(* BuyDialog.tsx over useSubmitTx, with the parts of the SDK's marketplace *)
(* operations that decide what it sends: a user reserves an inscription    *)
(* with a deposit and then buys it, in one dialog that the page keeps for  *)
(* one listing after another.  fetchListing, deposit, buy and getListing   *)
(* are promises that read the listing's row as the indexer has it then,    *)
(* and whose callbacks find the dialog as it is then.  The inscriptions    *)
(* are of a collection that asks for a royalty, which the page fetches on  *)
(* its own.                                                                *)
(***************************************************************************)
EXTENDS SubmitTx

CONSTANTS
    Listing,
    NoListing,
    Depositors,    \* who may hold the listings when the page is loaded
    DepositTimeout, \* deposit timeout, in blocks
    MaxHeight,     \* bound: height of the chain
    MaxJobs        \* bound: promises on their way, of which no two are alike

ASSUME BuyDialogAssumption ==
    /\ NoListing \notin Listing
    /\ Op = [kind: {"deposit", "buy"}, listing: Listing, royalty: BOOLEAN]
    /\ Depositors \subseteq {"nobody", "me", "other"}
    /\ {DepositTimeout, MaxHeight, MaxJobs} \subseteq Nat

VARIABLES
    prop,        \* listingHashProp
    listing,     \* listingHash
    step,        \* step
    royalty,     \* the royalty of prop's collection is there
    jobs,        \* promises on their way
    validating,  \* the click that waits for validate
    market,      \* the listings' rows in the indexer's database
    height,      \* last_known_height
    noted        \* history variable: "moved", the page has passed another listing;
                 \* "first", a purchase was prepared for a listing held already

dialog == <<prop, listing, step>>
window == <<dialog, royalty, validating>>
outside == <<market, height, noted>>
buyVars == <<submitVars, window, jobs, outside>>
-----------------------------------------------------------------------------
\* A purchase is prepared first, for a listing the user holds already, or
\* next, after the deposit.
Job == [kind: {"fetch", "deposit", "first", "next"}, listing: Listing, royalty: BOOLEAN]
Click == [listing: Listing \cup {NoListing}, op: Op \cup {NoOp}, fee: Op \cup {NoOp},
          again: BOOLEAN]
NoClick == [listing |-> NoListing, op |-> NoOp, fee |-> NoOp, again |-> FALSE]

BuyTypeOK ==
    /\ SubmitTypeOK
    /\ {prop, listing} \subseteq Listing \cup {NoListing}
    /\ step \in {"Initial", "InitialBuy", "Reserve", "Purchase"}
    /\ royalty \in BOOLEAN
    /\ jobs \subseteq Job /\ Cardinality(jobs) <= MaxJobs
    /\ validating \in Click
    /\ market \in [Listing ->
                     [by: {"nobody", "me", "other"}, until: Nat, gone: BOOLEAN]]
    /\ height \in 0 .. MaxHeight
    /\ noted \subseteq {"moved", "first"}

BuyInit ==
    /\ SubmitInit
    /\ prop = NoListing /\ listing = NoListing /\ step = "Initial" /\ royalty = FALSE
    /\ jobs = {}
    /\ validating = NoClick
    /\ \E d \in Depositors :
          market = [l \in Listing |->
                      [by |-> d, until |-> IF d = "nobody" THEN 0 ELSE DepositTimeout,
                       gone |-> FALSE]]
    /\ height = 0 /\ noted = {}
-----------------------------------------------------------------------------
Promise(kind, l) ==
    [kind |-> kind, listing |-> l, royalty |-> kind \in {"first", "next"} /\ royalty]
Deposit(l) == [kind |-> "deposit", listing |-> l, royalty |-> FALSE]
Buy(j) == [kind |-> "buy", listing |-> j.listing, royalty |-> j.royalty]

\* The promises in done are kept, those in new are made.
Jobs(done, new) ==
    /\ done \subseteq jobs /\ new \cap (jobs \ done) = {}
    /\ jobs' = (jobs \ done) \cup new
    /\ Cardinality(jobs') <= MaxJobs

\* setTxInscription: another object, and its estimate.
Prepared(o) ==
    /\ op' = o
    /\ estimates[o] < MaxEstimates
    /\ estimates' = [estimates EXCEPT ![o] = @ + 1]

Running(l) == market[l].until > height

\* api/marketplace.ts: getListingState is Buy; getListing of the SDK.
IsMine(l) == market[l].by = "me" /\ market[l].until >= height
BuyOK(l) == ~market[l].gone /\ IsMine(l)

\* depositListing of the SDK.
DepositOK(l) == ~market[l].gone /\ (market[l].by # "nobody" => ~Running(l))
-----------------------------------------------------------------------------
(* The effects of the dialog *)

\* The page passes another listing, or the first effect runs again before
\* fetchListing has answered: resetState, fetchListing.
OpenListing(l) ==
    /\ l # listing
    /\ prop' = l /\ listing' = NoListing /\ step' = "Initial"
    /\ royalty' = (royalty /\ l = prop)
    /\ Reset(NoOp)
    /\ Jobs({}, {Promise("fetch", l)})
    /\ noted' = IF prop \in {l, NoListing} THEN noted ELSE noted \cup {"moved"}
    /\ UNCHANGED <<checks, tx, faults, validating, market, height>>

\* "Back to market": resetState, upon which the first effect runs again.
BackToMarket ==
    /\ step = "Purchase" /\ state = "Success" /\ hash # 0
    /\ listing' = NoListing /\ step' = "Initial"
    /\ Reset(NoOp)
    /\ Jobs({}, {Promise("fetch", prop)})
    /\ UNCHANGED <<prop, royalty, checks, tx, faults, validating, outside>>

\* What the second effect makes, for a listing and a step: a deposit, which
\* takes the dialog to its first step, or a purchase, first or after it.
Effect(l, s) ==
    CASE s = "Initial" /\ state = "Initial" -> {Promise("deposit", l)}
      [] s = "InitialBuy" /\ state = "Initial" -> {Promise("first", l)}
      [] s = "Reserve" /\ state = "Success" -> {Promise("next", l)}
      [] OTHER -> {}

\* .then of fetchListing.
StepFor(l) == IF IsMine(l) THEN "InitialBuy" ELSE step
After(s) == IF s = "Initial" /\ state = "Initial" THEN "Reserve" ELSE s

Fetched(j) ==
    /\ j.kind = "fetch" /\ j.listing = prop
    /\ listing' = prop
    /\ step' = After(StepFor(prop))
    /\ Jobs({j}, Effect(prop, StepFor(prop)))
    /\ UNCHANGED <<submitVars, prop, royalty, validating, outside>>

\* Mutant: the first effect takes any listing for the page's.
FetchedLateKept(j) ==
    /\ j.kind = "fetch" /\ j.listing # prop
    /\ listing' = j.listing
    /\ step' = After(StepFor(j.listing))
    /\ Jobs({j}, Effect(j.listing, StepFor(j.listing)))
    /\ UNCHANGED <<submitVars, prop, royalty, validating, outside>>

\* Of a listing that is not prop any more: the first effect resets the dialog
\* and fetches prop again; the second, which sees the step and the listing
\* from before that, prepares a deposit or a purchase all the same.
FetchedLate(j) ==
    /\ j.kind = "fetch" /\ j.listing # prop
    /\ LET s == StepFor(j.listing) IN
       /\ step' = IF After(s) # s THEN "Reserve" ELSE "Initial"
       /\ Jobs({j}, Effect(j.listing, s) \cup {Promise("fetch", prop)})
    /\ listing' = NoListing
    /\ Reset(NoOp)
    /\ UNCHANGED <<prop, royalty, checks, tx, faults, validating, outside>>

\* Mutant: the second effect does not depend on txState.
ReservedUnseen == UNCHANGED jobs

\* A poll that ends in success runs the second effect.
Reserved ==
    IF state' = "Success" /\ state # "Success" /\ step = "Reserve" /\ listing # NoListing
    THEN Jobs({}, {Promise("next", listing)}) ELSE UNCHANGED jobs

\* So does the royalty's arrival, and a new render of the page, as long as
\* the purchase is not there.
Render ==
    /\ royalty' \in {royalty, TRUE} /\ prop # NoListing
    /\ LET made == IF listing = NoListing THEN {} ELSE Effect(listing, step)
           now == {[j EXCEPT !.royalty = j.kind # "deposit" /\ royalty'] : j \in made}
       IN /\ now = {} => royalty' # royalty
          /\ Jobs({}, now)
    /\ UNCHANGED <<submitVars, dialog, validating, outside>>
-----------------------------------------------------------------------------
(* The callbacks *)

DepositPrepared(j) ==
    /\ j.kind = "deposit" /\ Jobs({j}, {})
    /\ IF DepositOK(j.listing)
       THEN Prepared(Deposit(j.listing)) /\ UNCHANGED error
       ELSE error' = "Validation" /\ UNCHANGED <<op, estimates>>
    /\ UNCHANGED <<state, hash, fee, checks, tx, faults, window, outside>>

\* From InitialBuy: nothing is reset.
FirstPrepared(j) ==
    /\ j.kind = "first" /\ Jobs({j}, {})
    /\ step' = "Purchase" /\ noted' = noted \cup {"first"}
    /\ IF BuyOK(j.listing)
       THEN Prepared(Buy(j)) /\ UNCHANGED error
       ELSE error' = "Validation" /\ UNCHANGED <<op, estimates>>
    /\ UNCHANGED <<state, hash, fee, checks, tx, faults>>
    /\ UNCHANGED <<prop, listing, royalty, validating, market, height>>

Restart == fee' = NoOp /\ state' = "Initial" /\ hash' = 0

\* Mutant: the step is set, and the deposit is left in the hook.
NextPreparedForgotten(j) ==
    /\ j.kind = "next" /\ Jobs({j}, {})
    /\ step' = "Purchase" /\ Restart
    /\ IF BuyOK(j.listing) /\ op \in Op
       THEN Prepared(op) /\ error' = "none"
       ELSE error' = "Validation" /\ UNCHANGED <<op, estimates>>
    /\ UNCHANGED <<checks, tx, faults, prop, listing, royalty, validating, outside>>

\* After the deposit: the hook starts anew.
NextPrepared(j) ==
    /\ j.kind = "next" /\ Jobs({j}, {})
    /\ step' = "Purchase" /\ Restart
    /\ IF BuyOK(j.listing)
       THEN Prepared(Buy(j)) /\ error' = "none"
       ELSE error' = "Validation" /\ UNCHANGED <<op, estimates>>
    /\ UNCHANGED <<checks, tx, faults, prop, listing, royalty, validating, outside>>

\* .catch: a request of the SDK fails.
PrepareFails(j) ==
    /\ j.kind # "fetch" /\ Jobs({j}, {})
    /\ faults.errors < MaxErrors /\ Count("errors")
    /\ error' = "Validation"
    /\ IF j.kind = "deposit" THEN UNCHANGED step ELSE step' = "Purchase"
    /\ IF j.kind = "next" THEN Restart ELSE UNCHANGED <<fee, state, hash>>
    /\ UNCHANGED <<op, estimates, checks, tx, prop, listing, royalty, validating, outside>>
-----------------------------------------------------------------------------
(* The buttons *)

\* Mutant: the button is not disabled while the royalty is fetched.
PressEarly(again) ==
    /\ IF again THEN CanRetry ELSE CanSubmit
    /\ IF step = "Purchase"
       THEN /\ validating = NoClick /\ listing # NoListing
            /\ validating' = [listing |-> listing, op |-> op, fee |-> fee, again |-> again]
            /\ UNCHANGED submitVars
       ELSE /\ IF again THEN Retry(op, fee) ELSE SendTx(op, fee)
            /\ UNCHANGED validating
    /\ UNCHANGED <<dialog, royalty, jobs, outside>>

\* The first is disabled until the royalty is there.
Press(again) ==
    /\ IF again THEN CanRetry ELSE CanSubmit /\ royalty
    /\ IF step = "Purchase"
       THEN /\ validating = NoClick /\ listing # NoListing
            /\ validating' = [listing |-> listing, op |-> op, fee |-> fee, again |-> again]
            /\ UNCHANGED submitVars
       ELSE /\ IF again THEN Retry(op, fee) ELSE SendTx(op, fee)
            /\ UNCHANGED validating
    /\ UNCHANGED <<dialog, royalty, jobs, outside>>

\* validate has the answer of getListing.  What it calls then is of the render
\* of the click.
Validated ==
    /\ validating # NoClick
    /\ validating' = NoClick
    /\ IF BuyOK(validating.listing)
       THEN IF validating.again THEN Retry(validating.op, validating.fee)
            ELSE SendTx(validating.op, validating.fee)
       ELSE /\ error' = "Validation"
            /\ UNCHANGED <<op, state, hash, fee, estimates, checks, tx, faults>>
    /\ UNCHANGED <<dialog, royalty, jobs, outside>>
-----------------------------------------------------------------------------
(* The marketplace, as far as the dialog sees it *)

\* The indexer's Deposit and buy.inscription.
Accepted(o) ==
    IF o.kind = "deposit" THEN ~Running(o.listing)
    ELSE ~market[o.listing].gone /\ market[o.listing].by = "me" /\ o.royalty

Execute(h) ==
    /\ tx[h].at = "pending" /\ InOrder(h)
    /\ LET o == tx[h].op IN
       IF Accepted(o)
       THEN /\ Move(h, "success")
            /\ market' = IF o.kind = "buy" THEN [market EXCEPT ![o.listing].gone = TRUE]
                         ELSE [market EXCEPT ![o.listing].by = "me",
                                             ![o.listing].until = height + DepositTimeout + 1]
       ELSE Move(h, "error") /\ UNCHANGED market
    /\ UNCHANGED <<hook, estimates, checks, faults, window, jobs, height, noted>>

\* Someone else reserves or buys, or the seller delists.
OtherBuyers(l) ==
    /\ ~market[l].gone
    /\ \/ /\ ~Running(l)
          /\ market' \in {[market EXCEPT ![l].by = "other",
                                          ![l].until = height + DepositTimeout + 1],
                          [market EXCEPT ![l].by = "nobody", ![l].until = 0, ![l].gone = TRUE]}
       \/ /\ market[l].by = "other"
          /\ market' = [market EXCEPT ![l].gone = TRUE]
    /\ UNCHANGED <<submitVars, window, jobs, height, noted>>

Block ==
    /\ height < MaxHeight
    /\ height' = height + 1
    /\ UNCHANGED <<submitVars, window, jobs, market, noted>>
-----------------------------------------------------------------------------
Callbacks ==
    \E j \in Job : \/ Fetched(j) \/ FetchedLate(j)
                   \/ DepositPrepared(j) \/ FirstPrepared(j) \/ NextPrepared(j)
                   \/ PrepareFails(j)

Hook ==
    /\ \/ \E o \in Op : Estimated(o) \/ EstimateFails(o)
       \/ Poll \/ Wallet
       \/ \E h \in Txs : Include(h) \/ Fail(h) \/ Drop(h) \/ (tx[h].at = "included" /\ Index(h))
    /\ UNCHANGED <<window, outside>>
    /\ Reserved

BuyNext ==
    \/ \E l \in Listing : OpenListing(l) \/ OtherBuyers(l)
    \/ BackToMarket \/ Render \/ Callbacks
    \/ \E again \in BOOLEAN : Press(again)
    \/ Validated \/ Hook \/ Block
    \/ \E h \in Txs : Execute(h)

BuySpec == BuyInit /\ [][BuyNext]_buyVars

\* Promises are kept, the timer and the answers come, blocks are indexed.
BuyFairSpec ==
    /\ BuySpec
    /\ WF_buyVars(Callbacks)
    /\ \A c \in Check : WF_buyVars(Hook /\ (Tick(c) \/ Answer(c) \/ Deliver(c)))
    /\ \A h \in 1 .. MaxSends :
          /\ WF_buyVars(Hook /\ h \in Txs /\ (Include(h) \/ Index(h)))
          /\ WF_buyVars(h \in Txs /\ Execute(h))
-----------------------------------------------------------------------------
(* Properties *)

Signs == Len(tx') > Len(tx)
Signed == tx'[Len(tx')].op

Mine(l, kind, places) ==
    {h \in Txs : tx[h].op.kind = kind /\ tx[h].op.listing = l /\ tx[h].at \in places}

\* The dialog is used for one listing: of two, the callbacks of one find the
\* other, so that an error of the first asks for a second signature.
Stays == "moved" \notin noted

\* No request fails, no answer is lost and none of the user's transactions is
\* refused.
Smooth ==
    Stays /\ faults.errors + faults.lost + Cardinality(Where({"failed", "error"})) = 0

\* "The two-step buying process requires a small deposit to reserve the tokens
\* for purchase": as long as the user stays with a listing and nothing fails, no
\* deposit is paid while another runs or is on its way, and one purchase.
TwoSteps ==
    Smooth =>
        \A l \in Listing :
            /\ Cardinality(Mine(l, "deposit", {"mempool", "included", "pending"}))
                 + (IF market[l].by = "me" /\ Running(l) THEN 1 ELSE 0) <= 1
            /\ Cardinality(Mine(l, "buy", InBlock \cup {"mempool"})) <= 1

\* BuyDialog.tsx: the two effects and the callbacks of two fetches leave the
\* dialog on the listing that the page passes, or on none.
OnTheListing == listing \in {prop, NoListing}

\* The dialog and its hook: their state is one the components can show, and it is
\* about the listing of the page.
BuyInv == BuyTypeOK /\ OnTheListing

\* The dialog's second step is the purchase: as long as the user stays with the
\* listing and nothing fails, nothing else is signed in it, and no second deposit
\* paid.
PurchaseBuys ==
    [][Signs /\ Smooth /\ step = "Purchase" => Signed.kind = "buy"]_buyVars

\* BuyDialog.tsx: a deposit that was sent leads on to the purchase, to an error
\* that can be retried, or to another prompt, unless it is lost.
LeadsOn ==
    step = "Reserve" /\ state \in {"Submit", "SuccessOnchain", "SuccessIndexer"}
        ~> step # "Reserve" \/ error # "none" \/ state = "Sign" \/ faults.lost > 0

\* client/src/operations/marketplace.ts: "Add royalty if exists".  A purchase
\* that is signed in the second step has it.  One that is prepared first, before
\* the royalty is there, is not prepared again, and after an error the deposit is
\* sent without waiting for it.
BuysWithRoyalty ==
    [][Signs /\ noted = {} /\ faults.errors = 0 /\ step = "Purchase" /\ Signed.kind = "buy"
         => Signed.royalty]_buyVars
=============================================================================
