------------------------------ MODULE Launchpad ------------------------------
(***************************************************************************)
(* A collection's launchpad, and the three programs that work on its rows: *)
(* the indexer (metaprotocol/launchpad.go and the inscribe operation of    *)
(* metaprotocol/inscription.go), the job that expires reservations         *)
(* (workers/expire_launchpad_reservations.go, in a process of its own) and *)
(* the mint bot (scripts/mint-bot.ts), which inscribes for the holders of  *)
(* reservations.  Each reads rows, keeps them in memory and saves them     *)
(* whole, every column of them, whatever has become of the row meanwhile.  *)
(*                                                                         *)
(* The launchpad has one stage.  The block loop is the one of module       *)
(* Indexer: after a stop the last processed block and what was done of the *)
(* next are run again, their transactions now without an ID.               *)
(***************************************************************************)
EXTENDS Integers, Sequences, FiniteSets, FiniteSetsExt, SequencesExt

CONSTANTS
    Addr,          \* addresses
    Creator,       \* the creator of the collection
    NoAddr, NoRow,
    Token,         \* token IDs, each with its content
    Wide,          \* 2^64: a supply is a uint64
    Submissions,   \* transactions users submit
    MaxTx,         \* bound: transactions
    MaxHeight,     \* bound: height of the chain, which is also its time
    MaxStops       \* bound: stops of a process

ASSUME LaunchpadAssumption ==
    /\ Creator \in Addr /\ NoAddr \notin Addr
    /\ Token \subseteq Nat /\ 1 \in Token
    /\ Wide \in Nat \ {0} /\ MaxTx \in Nat /\ MaxHeight \in Nat \ {0} /\ MaxStops \in Nat

VARIABLES
    launchpad,     \* table launchpad
    stage,         \* table launchpad_stage, with its launchpad_whitelist
    reservation,   \* table launchpad_mint_reservation, in the order of token_id
    nft,           \* table inscription: the owner of each content
    tail, mark, at, sent, height, fresh, stops,   \* as in Marketplace
    pc,            \* the next save of the running handler
    mem,           \* what the handler has read
    job,           \* the running expiry job
    lapsed,        \* history variable: a job has saved a row
    aged, older,   \* how many reservations are over one hour old, and over two
    since,         \* the reveal date: 0 to come, 1 passed, 2 two hours ago
    list,          \* reservations the bot has fetched and not worked off, smallest first
    queue          \* the bot's transactions not yet in a block

tables == <<launchpad, stage, reservation, nft>>
loop == <<tail, mark, at, sent, height, fresh, stops>>
clock == <<aged, older, since>>
others == <<job, lapsed, clock, list, queue>>
vars == <<tables, loop, pc, mem, others>>
-----------------------------------------------------------------------------
\* supply and limit: 0 is none.  start and finish: 0 is no date.  members: the
\* whitelist, {} is none.  now: reveal_immediately; date: there is a reveal_date.
Metadata == [supply: 0 .. Wide - 1, start: Nat, finish: Nat, limit: Nat,
             members: SUBSET Addr, now: BOOLEAN, date: BOOLEAN]

\* meta is read by launch and update, amount by reserve, token by inscribe;
\* bot: the transaction is executed by the mint bot, for the sender.
Tx == [op: {"launch", "update", "reserve", "inscribe"}, sender: Addr,
       meta: Metadata, amount: Nat, token: Token, bot: BOOLEAN]

ASSUME SubmissionsAssumption == \A t \in Submissions : t \in Tx

LaunchpadRow == [supply: 0 .. Wide - 1, minted: 0 .. Wide - 1, start: Nat,
                 now: BOOLEAN, date: BOOLEAN]
StageRow == [start: Nat, finish: Nat, limit: Nat, members: SUBSET Addr]
Reservation == [who: Addr, minted: BOOLEAN, expired: BOOLEAN]
Entry == [tx: Tx, height: 1 .. MaxHeight]

ASSUME RowsAssumption == NoRow \notin LaunchpadRow \cup StageRow

Blank == [lp |-> NoRow, left |-> 0, r |-> 0, expired |-> FALSE]
NoJob == [step |-> "off", todo |-> {}, r |-> 0, lp |-> NoRow]

TypeOK ==
    /\ launchpad \in LaunchpadRow \cup {NoRow}
    /\ stage \in StageRow \cup {NoRow}
    /\ reservation \in Seq(Reservation)
    /\ nft \in [Token -> Addr \cup {NoAddr}]
    /\ tail \in Seq(Entry) /\ mark \in 0 .. Len(tail) /\ at \in 1 .. Len(tail) + 1
    /\ sent \in 0 .. MaxTx /\ height \in 1 .. MaxHeight
    /\ fresh \in BOOLEAN /\ stops \in 0 .. MaxStops
    /\ pc \in {"idle", "run", "launch", "update", "stage", "reserve", "supply",
               "premint", "mark", "insert"}
    /\ mem \in [lp: LaunchpadRow \cup {NoRow}, left: Nat,
                r: 0 .. Len(reservation), expired: BOOLEAN]
    /\ job \in [step: {"off", "read", "row", "supply"},
                todo: SUBSET (1 .. Len(reservation)),
                r: 0 .. Len(reservation), lp: LaunchpadRow \cup {NoRow}]
    /\ lapsed \in BOOLEAN
    /\ aged \in 0 .. Len(reservation) /\ older \in 0 .. aged /\ since \in 0 .. 2
    /\ list \subseteq 1 .. Len(reservation)
    /\ queue \in Seq(Tx)

\* The collection exists; nothing is in it.
Init ==
    /\ launchpad = NoRow /\ stage = NoRow
    /\ reservation = <<>> /\ nft = [t \in Token |-> NoAddr]
    /\ tail = <<>> /\ mark = 0 /\ at = 1 /\ sent = 0 /\ height = 1
    /\ fresh = FALSE /\ stops = 0
    /\ pc = "idle" /\ mem = Blank
    /\ job = NoJob /\ lapsed = FALSE
    /\ aged = 0 /\ older = 0 /\ since = 0
    /\ list = {} /\ queue = <<>>
-----------------------------------------------------------------------------
me == tail[at]
tx == me.tx

Goto(step) == pc' = step /\ UNCHANGED <<loop, others>>

Finish ==
    /\ pc' = "idle" /\ at' = at + 1 /\ mem' = Blank
    /\ UNCHANGED <<tail, mark, sent, height, fresh, stops, others>>

\* The checks of a handler read the tables and change none.
Check(ok, step, read) ==
    /\ pc = "run"
    /\ IF ok THEN mem' = read /\ Goto(step) ELSE Finish
    /\ UNCHANGED tables

Mine(a) == {r \in DOMAIN reservation : reservation[r].who = a}
Taken == {t \in Token : nft[t] # NoAddr}

\* Before the launchpad's start; at the start itself it counts as not yet
\* started for an update.
NotStarted(h) == launchpad.start # 0 /\ launchpad.start >= h
-----------------------------------------------------------------------------
(* launch and update *)

\* A reveal date is set, never removed.
LaunchRow(minted, dated) ==
    [supply |-> tx.meta.supply, minted |-> minted, start |-> tx.meta.start,
     now |-> tx.meta.now, date |-> tx.meta.date \/ dated]

Launch ==
    /\ pc = "run" /\ tx.op = "launch"
    /\ Check(tx.sender = Creator /\ launchpad = NoRow /\ Taken = {},
             "launch", Blank)

\* The foreign key on transaction_id refuses a launchpad without an ID.
SaveLaunch ==
    /\ pc = "launch"
    /\ IF fresh
       THEN launchpad' = LaunchRow(0, FALSE) /\ Goto("stage") /\ UNCHANGED mem
       ELSE Finish /\ UNCHANGED launchpad
    /\ UNCHANGED <<stage, reservation, nft>>

Update ==
    /\ pc = "run" /\ tx.op = "update"
    /\ Check(tx.sender = Creator /\ launchpad # NoRow /\ NotStarted(me.height),
             "update", [Blank EXCEPT !.lp = launchpad])

SaveUpdate ==
    /\ pc = "update"
    /\ launchpad' = LaunchRow(mem.lp.minted, mem.lp.date)
    /\ Goto("stage")
    /\ UNCHANGED <<stage, reservation, nft, mem>>

\* The stage and its whitelist.
SaveStage ==
    /\ pc = "stage"
    /\ stage' = [start |-> tx.meta.start, finish |-> tx.meta.finish,
                 limit |-> tx.meta.limit, members |-> tx.meta.members]
    /\ Finish
    /\ UNCHANGED <<launchpad, reservation, nft>>
-----------------------------------------------------------------------------
(* reserve *)

SmallerOf(x, y) == IF x < y THEN x ELSE y

Active(h) ==
    /\ stage.start <= h
    /\ stage.finish = 0 \/ h <= stage.finish

\* Mutants: a reservation of several is cut to neither the supply nor the limit.
AmountToMintNoSupply ==
    LET asked == IF tx.amount = 0 THEN 1 ELSE tx.amount
    IN  IF stage.limit = 0 THEN asked
        ELSE SmallerOf(asked, stage.limit - Cardinality(Mine(tx.sender)))

AmountToMintNoLimit ==
    LET asked == IF tx.amount = 0 THEN 1 ELSE tx.amount
    IN  IF launchpad.supply = 0 THEN asked
        ELSE SmallerOf(asked, launchpad.supply - launchpad.minted)

AmountToMint ==
    LET asked == IF tx.amount = 0 THEN 1 ELSE tx.amount
        left == IF launchpad.supply = 0 THEN asked
                ELSE SmallerOf(asked, launchpad.supply - launchpad.minted)
    IN  IF stage.limit = 0 THEN left
        ELSE SmallerOf(left, stage.limit - Cardinality(Mine(tx.sender)))

ReserveOK ==
    /\ launchpad # NoRow /\ stage # NoRow
    /\ launchpad.supply > 0 => launchpad.minted < launchpad.supply
    /\ Active(me.height)
    /\ stage.members # {} => tx.sender \in stage.members
    /\ stage.limit > 0 => Cardinality(Mine(tx.sender)) < stage.limit

Reserve ==
    /\ pc = "run" /\ tx.op = "reserve"
    /\ Check(ReserveOK, "reserve",
             [Blank EXCEPT !.lp = launchpad, !.left = AmountToMint])

\* The token IDs count on from the largest in the table: no row of it is ever
\* deleted, and nobody else inserts one.
SaveReservation ==
    /\ pc = "reserve"
    /\ reservation' = Append(reservation,
           [who |-> tx.sender, minted |-> FALSE, expired |-> FALSE])
    /\ Goto("supply")
    /\ UNCHANGED <<launchpad, stage, nft, mem>>

\* The row read by the checks is saved, with one more.
SaveSupply ==
    /\ pc = "supply"
    /\ launchpad' = [mem.lp EXCEPT !.minted = (@ + 1) % Wide]
    /\ IF mem.left > 1
       THEN mem' = [mem EXCEPT !.lp.minted = (@ + 1) % Wide, !.left = @ - 1] /\ Goto("reserve")
       ELSE Finish
    /\ UNCHANGED <<stage, reservation, nft>>
-----------------------------------------------------------------------------
(* inscribe, into the collection *)

\* Mutant: anybody may mint ahead of the start.
BeforeStartAnyone == launchpad.start > me.height

BeforeStart == tx.sender = Creator /\ launchpad.start > me.height

\* The reservation an inscription uses up, an expired one if it comes first.
Unminted == {r \in Mine(tx.sender) : ~reservation[r].minted}

InscribeAlone ==
    /\ pc = "run" /\ tx.op = "inscribe" /\ launchpad = NoRow
    /\ Check(tx.sender = Creator, "insert", Blank)

InscribePremint ==
    /\ pc = "run" /\ tx.op = "inscribe" /\ launchpad # NoRow /\ BeforeStart
    /\ Check(TRUE, "premint", [Blank EXCEPT !.lp = launchpad])

InscribeReserved ==
    /\ pc = "run" /\ tx.op = "inscribe" /\ launchpad # NoRow /\ ~BeforeStart
    /\ LET r == Min(Unminted)
       IN  Check(Unminted # {} /\ tx.bot, "mark",
                 [Blank EXCEPT !.r = r, !.expired = reservation[r].expired])

SavePremint ==
    /\ pc = "premint"
    /\ launchpad' = [mem.lp EXCEPT !.minted = (@ + 1) % Wide]
    /\ Goto("insert")
    /\ UNCHANGED <<stage, reservation, nft, mem>>

\* Mutant: the reservation is not marked.
SaveMarkNothing ==
    /\ pc = "mark"
    /\ reservation' = [reservation EXCEPT ![mem.r].minted = FALSE,
                                          ![mem.r].expired = FALSE]
    /\ Goto("insert")
    /\ UNCHANGED <<launchpad, stage, nft, mem>>

SaveMark ==
    /\ pc = "mark"
    /\ reservation' = [reservation EXCEPT ![mem.r].minted = TRUE,
                                          ![mem.r].expired = mem.expired]
    /\ Goto("insert")
    /\ UNCHANGED <<launchpad, stage, nft, mem>>

\* Content and token ID are unique; without an ID the foreign key fails.
SaveInscription ==
    /\ pc = "insert"
    /\ nft' = IF fresh /\ nft[tx.token] = NoAddr
              THEN [nft EXCEPT ![tx.token] = tx.sender] ELSE nft
    /\ Finish
    /\ UNCHANGED <<launchpad, stage, reservation>>

Handle ==
    \/ Launch \/ SaveLaunch \/ Update \/ SaveUpdate \/ SaveStage
    \/ Reserve \/ SaveReservation \/ SaveSupply
    \/ InscribeAlone \/ InscribePremint \/ InscribeReserved
    \/ SavePremint \/ SaveMark \/ SaveInscription
-----------------------------------------------------------------------------
(* The expiry job *)

Idle == UNCHANGED <<tables, loop, pc, mem, clock, list, queue>>
Due == {r \in 1 .. aged : ~reservation[r].minted /\ ~reservation[r].expired}

\* A job without anything to do is no step.
JobSelect ==
    /\ job.step = "off" /\ Due # {}
    /\ job' = [NoJob EXCEPT !.step = "read", !.todo = Due]
    /\ UNCHANGED lapsed /\ Idle

\* Mutant: launches with a reveal date are left alone.
ExpiresNowOnly(lp) == lp.now

\* Two hours after the reveal, or after the last reservation of a sold-out
\* launch; the latest reservation is the last one inserted.
Expires(lp) ==
    \/ lp.now
    \/ ~lp.now /\ lp.date /\ since = 2
    \/ /\ ~lp.now /\ ~lp.date
       /\ lp.supply > 0 /\ lp.minted >= lp.supply
       /\ older = Len(reservation)

JobRead ==
    /\ job.step = "read"
    /\ \E r \in job.todo :
        LET rest == job.todo \ {r}
        IN  job' = IF Expires(launchpad)
                   THEN [step |-> "row", todo |-> rest, r |-> r, lp |-> launchpad]
                   ELSE [NoJob EXCEPT !.step = IF rest = {} THEN "off" ELSE "read",
                                      !.todo = rest]
    /\ UNCHANGED lapsed /\ Idle

\* The row as it was selected, not minted then, is saved.
JobSaveRow ==
    /\ job.step = "row"
    /\ reservation' = [reservation EXCEPT ![job.r].minted = FALSE,
                                          ![job.r].expired = TRUE]
    /\ job' = [job EXCEPT !.step = "supply"]
    /\ lapsed' = TRUE
    /\ UNCHANGED <<launchpad, stage, nft, loop, pc, mem, clock, list, queue>>

\* Mutant: the row takes negative numbers.
JobSaveSupplySigned ==
    /\ job.step = "supply"
    /\ launchpad' = [job.lp EXCEPT !.minted = @ - 1]
    /\ job' = IF job.todo = {} THEN NoJob
              ELSE [NoJob EXCEPT !.step = "read", !.todo = job.todo]
    /\ UNCHANGED <<stage, reservation, nft, loop, pc, mem, lapsed, clock, list, queue>>

\* The launchpad's row as it was read is saved, with one less, in uint64.
JobSaveSupply ==
    /\ job.step = "supply"
    /\ launchpad' = [job.lp EXCEPT !.minted = (@ - 1) % Wide]
    /\ job' = IF job.todo = {} THEN NoJob
              ELSE [NoJob EXCEPT !.step = "read", !.todo = job.todo]
    /\ UNCHANGED <<stage, reservation, nft, loop, pc, mem, lapsed, clock, list, queue>>

Job == JobSelect \/ JobRead \/ JobSaveRow \/ JobSaveSupply

\* The worker's process stops; the job is run again as a new one.
JobStop ==
    /\ job # NoJob /\ stops < MaxStops
    /\ job' = NoJob /\ stops' = stops + 1
    /\ UNCHANGED <<tables, tail, mark, at, sent, height, fresh, pc, mem, lapsed,
                   clock, list, queue>>
-----------------------------------------------------------------------------
(* The mint bot *)

Free == (1 .. (IF launchpad.supply = 0 THEN 1 ELSE launchpad.supply)) \ Taken

Ready ==
    \/ launchpad.now
    \/ launchpad.date /\ since > 0
    \/ ~launchpad.date /\ launchpad.supply \in {0, launchpad.minted}

Waiting == {r \in DOMAIN reservation : ~reservation[r].minted /\ ~reservation[r].expired}

BotFetch ==
    /\ list = {} /\ Waiting # {} /\ Ready
    /\ list' = Waiting
    /\ UNCHANGED <<tables, loop, pc, mem, job, lapsed, clock, queue>>

\* A random token ID that no inscription has; a launchpad without a maximum
\* supply gives the bot 1 to choose from.  The bot waits for a block, not for
\* the indexer.
BotMint ==
    /\ list # {} /\ sent + Len(queue) < MaxTx
    /\ \E t \in Free \cap Token :
        queue' = Append(queue,
            [op |-> "inscribe", sender |-> reservation[Min(list)].who,
             meta |-> [supply |-> 0, start |-> 0, finish |-> 0, limit |-> 0,
                       members |-> {}, now |-> FALSE, date |-> FALSE],
             amount |-> 0, token |-> t, bot |-> TRUE])
    /\ list' = list \ {Min(list)}
    /\ UNCHANGED <<tables, loop, pc, mem, job, lapsed, clock>>

\* No authorization, or the broadcast fails.  The API is taken to answer, so
\* that nothing ends the search for a token ID when there is none.
BotFails ==
    /\ list # {} /\ Free # {}
    /\ list' = list \ {Min(list)}
    /\ UNCHANGED <<tables, loop, pc, mem, job, lapsed, clock, queue>>

Bot == BotFetch \/ BotMint \/ BotFails
-----------------------------------------------------------------------------
(* The block loop, and time *)

Receive ==
    /\ pc = "idle" /\ at = Len(tail) + 1 /\ sent < MaxTx
    /\ \E t \in Submissions \cup ToSet(queue) :
        /\ tail' = Append(tail, [tx |-> t, height |-> height])
        /\ IF t.op = "inscribe" /\ t.bot
           THEN queue # <<>> /\ t = Head(queue) /\ queue' = Tail(queue)
           ELSE UNCHANGED queue
    /\ sent' = sent + 1
    /\ pc' = "run" /\ fresh' = TRUE
    /\ UNCHANGED <<tables, mark, at, height, stops, mem, job, lapsed, clock, list>>

Again ==
    /\ pc = "idle" /\ at <= Len(tail)
    /\ pc' = "run" /\ fresh' = FALSE
    /\ UNCHANGED <<tables, tail, mark, at, sent, height, stops, mem, others>>

NextBlock ==
    /\ pc = "idle" /\ at = Len(tail) + 1 /\ height < MaxHeight
    /\ height' = height + 1
    /\ tail' = SubSeq(tail, mark + 1, Len(tail))
    /\ mark' = Len(tail) - mark
    /\ at' = Len(tail) - mark + 1
    /\ UNCHANGED <<tables, sent, fresh, stops, pc, mem, others>>

Stop ==
    /\ stops < MaxStops
    /\ stops' = stops + 1
    /\ at' = 1 /\ pc' = "idle" /\ mem' = Blank
    /\ UNCHANGED <<tables, tail, mark, sent, height, fresh, others>>

Indexer == Receive \/ Again \/ Handle \/ NextBlock

HourPasses ==
    /\ <<aged, older>> # <<Len(reservation), aged>>
    /\ aged' = Len(reservation) /\ older' = aged
    /\ UNCHANGED <<tables, loop, pc, mem, job, lapsed, since, list, queue>>

\* The reveal date matters to a launchpad that has one.
RevealAges ==
    /\ launchpad # NoRow /\ launchpad.date
    /\ since < 2 /\ since' = since + 1
    /\ UNCHANGED <<tables, loop, pc, mem, job, lapsed, aged, older, list, queue>>

Next == Indexer \/ Stop \/ Job \/ JobStop \/ Bot \/ HourPasses \/ RevealAges

Spec == Init /\ [][Next]_vars

\* The job queue runs a job every quarter of an hour, the bot works off its
\* list, and time passes.
FairSpec ==
    /\ Spec
    /\ WF_vars(Job) /\ WF_vars(Bot) /\ WF_vars(HourPasses) /\ WF_vars(RevealAges)
-----------------------------------------------------------------------------
(* Properties *)

Settled(r) == reservation[r].minted \/ reservation[r].expired
Outstanding == {r \in DOMAIN reservation : ~Settled(r)}

\* A reservation that is minted or expired never comes back, though the job
\* and the indexer overwrite each other's columns: the bot would inscribe for
\* it again and charge its holder.
SettledIsFinal ==
    [][\A r \in DOMAIN reservation : Settled(r) => Settled(r)']_vars

\* No request for several, no expiry and no transaction run again after a stop
\* gives anyone more reservations than the stage allows.
LimitKept ==
    [][\A a \in Addr :
          Mine(a)' # Mine(a) /\ stage.limit > 0 => Cardinality(Mine(a)') <= stage.limit]_vars

\* While only the indexer writes, and does not stop, a reservation is given out
\* only if there is a token left for it: reservations and inscriptions, of the
\* creator before the start and of the bot, come to the supply at most.
NotOversold ==
    [][reservation' # reservation /\ Len(reservation') > Len(reservation)
         /\ stops = 0 /\ ~lapsed /\ launchpad.supply > 0
       => Cardinality(Outstanding') + Cardinality(Taken) <= launchpad.supply]_vars

\* Until a job has overwritten a row, every inscription but the creator's has
\* used up a reservation of its owner, transactions run again included.
MintsAreReserved ==
    ~lapsed => \A a \in Addr \ {Creator} :
        Cardinality({t \in Token : nft[t] = a})
            <= Cardinality({r \in Mine(a) : reservation[r].minted})

\* launchpad.go, expire_launchpad_reservations.go: with two processes that write
\* the same rows, counts stay within uint64 and mints use up reservations.
LaunchpadInv == TypeOK /\ MintsAreReserved

\* A reservation is minted or expires in the end, unless its launch waits to
\* be sold out.
ReservationsSettle ==
    \A r \in 1 .. MaxTx :
        (r \in DOMAIN reservation /\ (launchpad.now \/ launchpad.date))
            ~> (r \in DOMAIN reservation /\ (Settled(r) \/ ~(launchpad.now \/ launchpad.date)))
=============================================================================
