----------------------------- MODULE Statistics -----------------------------
(***************************************************************************)
(* The statistics of a collection: what the indexer's handlers ask for     *)
(* (worker/client.go), the queue, which is external and keeps one job of a *)
(* kind for each DebouncePeriod, and the workers, each of which reads the  *)
(* tables in one statement and overwrites what it computes from            *)
(* (workers/collection_stats.go, collection_traits.go,                     *)
(* collections_stats.go).  A row is the number of changes it was computed  *)
(* from.                                                                   *)
(***************************************************************************)
EXTENDS Naturals, Sequences, FiniteSets

CONSTANTS
    Changes,      \* what handlers do: "inscribe", "market" or "transfer"
    DebouncePeriod,
    MaxChanges,   \* bound: changes to the collection
    MaxTime,      \* bound: when the last change may happen
    MaxLost,      \* bound: stops of the indexer, and inserts of a job that fail
    MaxRetries    \* bound: jobs that fail

VARIABLES
    now,
    data,         \* changes to what each row is computed from
    shown,        \* changes that each row was computed from
    asked,        \* kinds of job the running handler has still to insert
    job,          \* the queue: by kind and period
    whole,        \* the job of all collections
    excused,      \* history variable: a handler asked for no job, an insert was
                  \* lost, or two jobs were at work on the same rows at a time
    lost, retries

statsVars == <<now, data, shown, asked, job, whole, excused, lost, retries>>

ASSUME StatisticsAssumption ==
    /\ Changes \subseteq {"inscribe", "market", "transfer"}
    /\ DebouncePeriod \in Nat \ {0}
    /\ {MaxChanges, MaxTime, MaxLost, MaxRetries} \subseteq Nat
-----------------------------------------------------------------------------
\* collection_stats, collection_traits, inscription_rarity
Row == {"stats", "traits", "rarity"}
Kind == {"stats", "traits"}

\* Statements of a job.
Statements(k) == IF k = "stats" THEN <<"stats">> ELSE <<"traits", "rarity">>

\* What a handler changes, and the jobs it asks for: inscribe and migrate both,
\* the marketplace statistics, a transfer none.
Changed(c) == IF c = "inscribe" THEN Row ELSE {"stats"}
Asks(c) == CASE c = "inscribe" -> Kind [] c = "market" -> {"stats"} [] c = "transfer" -> {}

Period == 0 .. MaxTime \div DebouncePeriod
PeriodOf(t) == t \div DebouncePeriod

\* left: statements to run; snap: what the statement that runs has read.
Job == [at: Nat, running: BOOLEAN, left: Seq(Row), read: BOOLEAN, snap: 0 .. MaxChanges]
NoJob == [at |-> 0, running |-> FALSE, left |-> <<>>, read |-> FALSE, snap |-> 0]

StatsTypeOK ==
    /\ now \in 0 .. MaxTime + DebouncePeriod
    /\ data \in [Row -> 0 .. MaxChanges]
    /\ shown \in [Row -> 0 .. MaxChanges] /\ \A r \in Row : shown[r] <= data[r]
    /\ asked \subseteq Kind
    /\ job \in [Kind \X Period -> Job \cup {NoJob}]
    /\ \A k \in Kind, p \in Period :
          job[<<k, p>>].at # 0 => job[<<k, p>>].at >= (p + 1) * DebouncePeriod
    /\ whole \in Job /\ excused \in BOOLEAN
    /\ lost \in 0 .. MaxLost /\ retries \in 0 .. MaxRetries

StatsInit ==
    /\ now = 0
    /\ data = [r \in Row |-> 0] /\ shown = [r \in Row |-> 0]
    /\ asked = {}
    /\ job = [j \in Kind \X Period |-> NoJob]
    /\ whole = NoJob /\ excused = FALSE
    /\ lost = 0 /\ retries = 0

Pass ==
    /\ now < MaxTime + DebouncePeriod /\ now' = now + 1
    /\ UNCHANGED <<data, shown, asked, job, whole, excused, lost, retries>>
-----------------------------------------------------------------------------
(* The indexer *)

Change(c) ==
    /\ asked = {} /\ now <= MaxTime /\ data["stats"] < MaxChanges
    /\ data' = [r \in Row |-> IF r \in Changed(c) THEN data[r] + 1 ELSE data[r]]
    /\ asked' = Asks(c) /\ excused' = (excused \/ Asks(c) = {})
    /\ UNCHANGED <<now, shown, job, whole, lost, retries>>

\* Mutant: the job is due at once.
DueAtOnce == now

Due == now + DebouncePeriod

\* UniqueOpts: completed jobs of the period count too.
Insert(k) ==
    /\ k \in asked /\ now <= MaxTime
    /\ asked' = asked \ {k}
    /\ job' = IF job[<<k, PeriodOf(now)>>].at = 0
              THEN [job EXCEPT ![<<k, PeriodOf(now)>>] =
                       [NoJob EXCEPT !.at = Due, !.left = Statements(k)]]
              ELSE job
    /\ UNCHANGED <<now, data, shown, whole, excused, lost, retries>>

\* The indexer stops, and refuses the transaction when it sees it again; or the
\* insert fails, which is only logged.
Lose ==
    /\ asked # {} /\ lost < MaxLost
    /\ \E ks \in SUBSET asked : ks # {} /\ asked' = asked \ ks
    /\ lost' = lost + 1 /\ excused' = TRUE
    /\ UNCHANGED <<now, data, shown, job, whole, retries>>
-----------------------------------------------------------------------------
(* The workers *)

\* Nobody else is at work on a row.
Alone(k) ==
    /\ \A p \in Period : ~job[<<k, p>>].running
    /\ k = "stats" => ~whole.running

Begin(k, p) ==
    LET j == job[<<k, p>>] IN
    /\ j.left # <<>> /\ ~j.running /\ j.at <= now
    /\ excused' = (excused \/ ~Alone(k))
    /\ job' = [job EXCEPT ![<<k, p>>] = [j EXCEPT !.running = TRUE]]
    /\ UNCHANGED <<now, data, shown, asked, whole, lost, retries>>

Read(k, p) ==
    LET j == job[<<k, p>>] IN
    /\ j.running /\ ~j.read
    /\ job' = [job EXCEPT ![<<k, p>>] = [j EXCEPT !.read = TRUE, !.snap = data[Head(j.left)]]]
    /\ UNCHANGED <<now, data, shown, asked, whole, excused, lost, retries>>

\* ON CONFLICT DO UPDATE
Write(k, p) ==
    LET j == job[<<k, p>>] IN
    /\ j.running /\ j.read
    /\ shown' = [shown EXCEPT ![Head(j.left)] = j.snap]
    /\ job' = [job EXCEPT ![<<k, p>>] = [j EXCEPT !.left = Tail(j.left), !.read = FALSE,
                                                 !.snap = 0, !.running = Len(j.left) > 1]]
    /\ UNCHANGED <<now, data, asked, whole, excused, lost, retries>>

\* A job that fails is run again from its first statement.
Fail(k, p) ==
    LET j == job[<<k, p>>] IN
    /\ j.running /\ retries < MaxRetries
    /\ job' = [job EXCEPT ![<<k, p>>] = [j EXCEPT !.left = Statements(k), !.read = FALSE,
                                                 !.snap = 0, !.running = FALSE]]
    /\ retries' = retries + 1
    /\ UNCHANGED <<now, data, shown, asked, whole, excused, lost>>
-----------------------------------------------------------------------------
(* Every four hours *)

WholeStarts ==
    /\ ~whole.running
    /\ excused' = (excused \/ ~Alone("stats"))
    /\ whole' = [whole EXCEPT !.running = TRUE, !.read = FALSE]
    /\ UNCHANGED <<now, data, shown, asked, job, lost, retries>>

WholeReads ==
    /\ whole.running /\ ~whole.read
    /\ whole' = [whole EXCEPT !.read = TRUE, !.snap = data["stats"]]
    /\ UNCHANGED <<now, data, shown, asked, job, excused, lost, retries>>

\* Mutant: a row that is there already is left alone.
WholeWritesOnce ==
    /\ whole.running /\ whole.read
    /\ shown' = [shown EXCEPT !["stats"] = IF @ = 0 THEN whole.snap ELSE @]
    /\ whole' = NoJob
    /\ UNCHANGED <<now, data, asked, job, excused, lost, retries>>

\* ON CONFLICT DO UPDATE
WholeWrites ==
    /\ whole.running /\ whole.read
    /\ shown' = [shown EXCEPT !["stats"] = whole.snap]
    /\ whole' = NoJob
    /\ UNCHANGED <<now, data, asked, job, excused, lost, retries>>
-----------------------------------------------------------------------------
Indexing == (\E c \in Changes : Change(c)) \/ (\E k \in Kind : Insert(k)) \/ Lose
Works(k, p) == Begin(k, p) \/ Read(k, p) \/ Write(k, p)
Whole == WholeStarts \/ WholeReads \/ WholeWrites

StatsNext ==
    \/ Pass \/ Indexing
    \/ \E k \in Kind, p \in Period : Works(k, p) \/ Fail(k, p)
    \/ Whole

StatsSpec == StatsInit /\ [][StatsNext]_statsVars

\* Time passes, handlers go on, and the workers run what is due.
StatsFairSpec ==
    /\ StatsSpec
    /\ WF_statsVars(Pass) /\ WF_statsVars(\E k \in Kind : Insert(k)) /\ WF_statsVars(Whole)
    /\ \A k \in Kind, p \in Period : WF_statsVars(Works(k, p))
-----------------------------------------------------------------------------
(* Properties *)

Pending(k) == \E p \in Period : job[<<k, p>>].left # <<>>

\* worker/client.go: a job is dropped when the period has one already.  None is
\* missed by that: with nothing left to run, the rows are those of the tables,
\* unless a job was lost or not asked for, or the one of two that read first
\* wrote last.
NothingMissed ==
    asked = {} /\ ~excused =>
        /\ Pending("stats") \/ whole.running \/ shown["stats"] = data["stats"]
        /\ Pending("traits") \/ \A r \in {"traits", "rarity"} : shown[r] = data[r]

\* worker/client.go: a job is never due within its own period, no row is computed
\* from changes that have not happened, and none is missed.
StatisticsInv == StatsTypeOK /\ NothingMissed

\* collections_stats.go: whatever is lost, dropped, overwritten or not asked
\* for, the statistics of a collection that changes no more become right.
StatsSettle == <>[](shown["stats"] = data["stats"])
=============================================================================
