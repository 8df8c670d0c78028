----------------------------- MODULE MCLaunchpad -----------------------------
EXTENDS Launchpad

CONSTANTS Metas, Amounts

MCMeta(supply, start, finish, limit, members, now, date) ==
    [supply |-> supply, start |-> start, finish |-> finish, limit |-> limit,
     members |-> members, now |-> now, date |-> date]

\* Open at once and revealed at once; with a whitelist, a limit and a reveal
\* date, and a start after the launch; and waiting to be sold out.
MCMetas == {MCMeta(2, 0, 0, 0, {}, TRUE, FALSE),
            MCMeta(3, 2, 2, 2, Addr \ {Creator}, FALSE, TRUE),
            MCMeta(1, 2, 0, 0, {}, FALSE, FALSE)}

MCBlank(op, a) ==
    [op |-> op, sender |-> a, meta |-> MCMeta(0, 0, 0, 0, {}, FALSE, FALSE),
     amount |-> 0, token |-> 1, bot |-> FALSE]

MCSubmissions ==
    {[MCBlank(op, Creator) EXCEPT !.meta = m] : op \in {"launch", "update"}, m \in Metas}
    \cup {[MCBlank("reserve", a) EXCEPT !.amount = n] : a \in Addr \ {Creator}, n \in Amounts}
    \cup {[MCBlank("inscribe", a) EXCEPT !.token = t] : a \in Addr, t \in Token}

\* Bounds on the behaviours explored: the first transaction launches or
\* inscribes; one that fails when it is first run is left out; the bot, the
\* clock and the chain, which write no row, move between two transactions of
\* the indexer, the job at any time.
Focus == sent = 1 /\ tail # <<>> => tail[1].tx.op \in {"launch", "inscribe"}
Effective ==
    /\ pc = "run" /\ fresh /\ ~tx.bot => pc' # "idle" \/ stops' # stops
    /\ <<clock, list, queue>>' # <<clock, list, queue>> => pc = "idle" /\ at > Len(tail)
    /\ height' # height => sent < MaxTx
=============================================================================
