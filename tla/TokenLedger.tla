----------------------------- MODULE TokenLedger -----------------------------
(***************************************************************************)
(* What the CFT-20 indexer promises about the units of a token, without    *)
(* rows, handlers, blocks or crashes.  Every circulating unit is in one    *)
(* place: the balance of an address or the escrow of an open sell          *)
(* position.  Units enter when they are issued, leave when they are        *)
(* burned, and otherwise only change place.  Leak is the one impure step:  *)
(* units in nobody's hands, which is what an indexer that stops between    *)
(* two saves of a handler leaves behind (LeakAllowed bounds where).        *)
(***************************************************************************)
EXTENDS Integers, FiniteSetsExt

CONSTANTS
    Addr,         \* holders
    Ticker,       \* tokens
    Lot,          \* identifiers of sell positions
    Amount,       \* the amounts one step may deal in
    LeakAllowed   \* BOOLEAN: may units be lost?

VARIABLES
    cap,      \* [Ticker -> Nat]: the most that may ever circulate
    supply,   \* [Ticker -> Nat]: the circulating supply
    bal,      \* [Ticker -> [Addr -> Nat]]
    escrow    \* [Ticker -> [Lot -> Nat]]

ledger == <<cap, supply, bal, escrow>>

Init ==
    /\ cap = [t \in Ticker |-> 0]
    /\ supply = [t \in Ticker |-> 0]
    /\ bal = [t \in Ticker |-> [a \in Addr |-> 0]]
    /\ escrow = [t \in Ticker |-> [l \in Lot |-> 0]]

Found(t, n) ==
    /\ cap[t] = 0
    /\ cap' = [cap EXCEPT ![t] = n]
    /\ UNCHANGED <<supply, bal, escrow>>

Issue(t, a, n) ==
    /\ supply[t] + n <= cap[t]
    /\ supply' = [supply EXCEPT ![t] = @ + n]
    /\ bal' = [bal EXCEPT ![t][a] = @ + n]
    /\ UNCHANGED <<cap, escrow>>

Move(t, a, b, n) ==
    /\ n <= bal[t][a]
    /\ bal' = [bal EXCEPT ![t] = [x \in Addr |->
                 @[x] - (IF x = a THEN n ELSE 0) + (IF x = b THEN n ELSE 0)]]
    /\ UNCHANGED <<cap, supply, escrow>>

Lock(t, a, l, n) ==
    /\ n <= bal[t][a]
    /\ escrow[t][l] = 0
    /\ bal' = [bal EXCEPT ![t][a] = @ - n]
    /\ escrow' = [escrow EXCEPT ![t][l] = n]
    /\ UNCHANGED <<cap, supply>>

\* A position is emptied at once, into one balance.
Release(t, l, b) ==
    /\ bal' = [bal EXCEPT ![t][b] = @ + escrow[t][l]]
    /\ escrow' = [escrow EXCEPT ![t][l] = 0]
    /\ UNCHANGED <<cap, supply>>

Burn(t, a, n) ==
    /\ n <= bal[t][a]
    /\ bal' = [bal EXCEPT ![t][a] = @ - n]
    /\ supply' = [supply EXCEPT ![t] = @ - n]
    /\ cap' = [cap EXCEPT ![t] = @ - n]
    /\ UNCHANGED escrow

Leak(t, a, n) ==
    /\ LeakAllowed
    /\ n <= bal[t][a]
    /\ bal' = [bal EXCEPT ![t][a] = @ - n]
    /\ UNCHANGED <<cap, supply, escrow>>

Step(n) ==
    \E t \in Ticker, a \in Addr :
        \/ Found(t, n)
        \/ Issue(t, a, n)
        \/ Leak(t, a, n)
        \/ Burn(t, a, n)
        \/ \E b \in Addr : Move(t, a, b, n)
        \/ \E l \in Lot : Lock(t, a, l, n) \/ Release(t, l, a)

Spec == Init /\ [][\E n \in Amount : Step(n)]_ledger
-----------------------------------------------------------------------------
Held(t) ==
    MapThenSumSet(LAMBDA a : bal[t][a], Addr)
        + MapThenSumSet(LAMBDA l : escrow[t][l], Lot)
=============================================================================
