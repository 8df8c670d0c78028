--------------------------- MODULE Launchpad_proofs ---------------------------
(***************************************************************************)
(* Theorems about module Launchpad, for any addresses, tokens, submissions *)
(* and stops: a stage's limit is kept, a settled reservation stays settled *)
(* and a mint uses up a reservation although two programs save the same    *)
(* rows whole; and a launch that only the indexer works on is not oversold.*)
(*                                                                         *)
(* A handler compares counts when it checks and saves row by row after it. *)
(* The invariants say what its counts are worth at each of its saves: the  *)
(* job changes the supply under it, but no reservation's holder, no stage  *)
(* and no inscription.                                                     *)
(***************************************************************************)
EXTENDS Launchpad, SequenceTheorems, FiniteSetTheorems,
        WellFoundedInduction, TLAPS

Busy == pc # "idle"

Mem(n) == [lp: LaunchpadRow \cup {NoRow}, left: Nat, r: 0 .. n, expired: BOOLEAN]
JobRec(n) == [step: {"off", "read", "row", "supply"}, todo: SUBSET (1 .. n),
              r: 0 .. n, lp: LaunchpadRow \cup {NoRow}]

\* The type invariant, in parts.
RowTypes ==
    /\ launchpad \in LaunchpadRow \cup {NoRow}
    /\ stage \in StageRow \cup {NoRow}
    /\ reservation \in Seq(Reservation)
    /\ nft \in [Token -> Addr \cup {NoAddr}]

LoopTypes ==
    /\ tail \in Seq(Entry) /\ mark \in 0 .. Len(tail) /\ at \in 1 .. Len(tail) + 1
    /\ sent \in 0 .. MaxTx /\ height \in 1 .. MaxHeight
    /\ fresh \in BOOLEAN /\ stops \in 0 .. MaxStops
    /\ pc \in {"idle", "run", "launch", "update", "stage", "reserve", "supply",
               "premint", "mark", "insert"}

OtherTypes ==
    /\ job \in JobRec(Len(reservation)) /\ lapsed \in BOOLEAN
    /\ aged \in 0 .. Len(reservation) /\ older \in 0 .. aged /\ since \in 0 .. 2
    /\ list \subseteq 1 .. Len(reservation)
    /\ queue \in Seq(Tx)

\* A handler has what it read, a job has its rows, and reservations have a launchpad.
HasRead(p, m) ==
    /\ p \in {"update", "reserve", "supply", "premint"} => launchpad # NoRow /\ m.lp # NoRow
    /\ p \in {"reserve", "supply"} => stage # NoRow /\ m.left >= 1
    /\ p = "mark" => m.r \in DOMAIN reservation /\ reservation[m.r].who = tx.sender

JobReady ==
    /\ job.step \in {"row", "supply"} => job.lp # NoRow /\ job.r \in DOMAIN reservation
    /\ job.step = "supply" => lapsed

Running ==
    /\ Busy => at <= Len(tail)
    /\ HasRead(pc, mem) /\ JobReady
    /\ reservation # <<>> => launchpad # NoRow

RunInv == TypeOK /\ Running

\* How many rows a reserve is still to insert, and how many it has inserted
\* that its launchpad's row does not count yet.
ToInsert == IF pc = "reserve" THEN mem.left ELSE IF pc = "supply" THEN mem.left - 1 ELSE 0
Uncounted == IF pc = "supply" THEN 1 ELSE 0

\* What a reserve is still to insert is within the limit it checked.
WithinLimit ==
    pc \in {"reserve", "supply"} /\ stage.limit > 0
        => Cardinality(Mine(tx.sender)) + ToInsert <= stage.limit

Owned(a) == {t \in Token : nft[t] = a}
Used(a) == {r \in Mine(a) : reservation[r].minted}
InHand(a) == IF pc = "insert" /\ tx.sender = a THEN 1 ELSE 0

\* An inscription about to be inserted has its reservation marked before.
MarkedFirst ==
    ~lapsed =>
        /\ pc = "mark" => ~reservation[mem.r].minted
        /\ \A a \in Addr \ {Creator} : Cardinality(Owned(a)) + InHand(a) <= Cardinality(Used(a))

MintInv ==
    /\ IsFiniteSet(Taken)
    /\ pc = "premint" => tx.sender = Creator
    /\ MarkedFirst

\* Only the indexer writes, and it has not stopped.
Alone == stops = 0 /\ ~lapsed

\* The rows a handler read are as they were, and no reservation is expired.
AsRead ==
    /\ IF Busy THEN at = Len(tail) ELSE at = Len(tail) + 1
    /\ pc = "launch" => launchpad = NoRow /\ Taken = {}
    /\ pc \in {"update", "reserve", "supply", "premint"} => mem.lp = launchpad
    /\ \A r \in DOMAIN reservation : ~reservation[r].expired
    /\ pc = "mark" => ~mem.expired

About == IF pc = "insert" THEN 1 ELSE 0

\* The launchpad's row counts the reservations not used up and the inscriptions.
Counted ==
    launchpad # NoRow =>
        Cardinality(Outstanding) + Cardinality(Taken) + About <= launchpad.minted + Uncounted

\* A reserve inserts no more than is left of the supply.
WithinSupply ==
    pc \in {"reserve", "supply"} /\ launchpad.supply > 0
        => launchpad.minted + mem.left <= launchpad.supply

\* A transaction counts at most most mints.
Pending(most) ==
    CASE pc = "run" -> most
      [] pc \in {"reserve", "supply"} -> mem.left
      [] pc = "premint" -> 1
      [] OTHER -> 0

Bounded(most) == launchpad # NoRow => launchpad.minted + Pending(most) <= sent * most

\* No transaction asks for more than most.
SmallAmounts(most) ==
    /\ \A n \in 1 .. Len(tail) : tail[n].tx.amount <= most
    /\ \A n \in 1 .. Len(queue) : queue[n].amount <= most

SoldInv(most) == AsRead /\ Counted /\ WithinSupply /\ Bounded(most)
AloneInv(most) == SmallAmounts(most) /\ (Alone => SoldInv(most))

\* No transaction reserves more than most, and all of them together do not
\* reach 2^64: a reservation is a row of a table and a pass of a loop.
Countable(most) ==
    /\ most \in Nat \ {0}
    /\ \A t \in Submissions : t.amount <= most
    /\ MaxTx * most < Wide
-----------------------------------------------------------------------------
(* Types, and what the programs have in hand *)

LEMMA TypeParts ==
  /\ TypeOK <=> RowTypes /\ LoopTypes /\ mem \in Mem(Len(reservation)) /\ OtherTypes
  /\ TypeOK' <=> /\ RowTypes' /\ LoopTypes' /\ mem' \in Mem(Len(reservation'))
                 /\ OtherTypes'
  BY DEF TypeOK, RowTypes, LoopTypes, OtherTypes, Mem, JobRec

\* The transaction that is being run.
LEMMA AtWork ==
  ASSUME RunInv, Busy
  PROVE  /\ at \in 1 .. Len(tail) /\ me \in Entry /\ me.height \in Nat
         /\ tx \in Tx /\ tx.sender \in Addr /\ tx.meta \in Metadata
         /\ tx.amount \in Nat /\ tx.token \in Token /\ tx.bot \in BOOLEAN
  <1>1. at \in 1 .. Len(tail) /\ tail \in Seq(Entry)
    BY TypeParts DEF RunInv, LoopTypes, Running
  <1>2. me \in Entry
    BY <1>1, ElementOfSeq DEF me
  <1> QED
    BY <1>1, <1>2, LaunchpadAssumption DEF Entry, tx, Tx

\* Rows are added and overwritten; their holders stay.
Grows ==
    /\ Len(reservation') >= Len(reservation)
    /\ \A r \in DOMAIN reservation : reservation'[r].who = reservation[r].who

Stays ==
    /\ launchpad # NoRow => launchpad' # NoRow
    /\ stage # NoRow => stage' # NoRow
    /\ reservation' # <<>> => launchpad' # NoRow

\* What the loop, the job and the bot have is of the right type still when
\* rows have been added.
LEMMA OthersStay ==
  ASSUME RunInv, RowTypes', Grows, UNCHANGED others
  PROVE  OtherTypes' /\ JobReady'
  <1> DEFINE n == Len(reservation)  m == Len(reservation')
  <1>1. /\ n \in Nat /\ m \in Nat /\ m >= n
        /\ DOMAIN reservation = 1 .. n /\ DOMAIN reservation' = 1 .. m
    BY TypeParts, LenProperties DEF RunInv, RowTypes, Grows
  <1>2. OtherTypes /\ JobReady
    BY TypeParts DEF RunInv, Running
  <1> HIDE DEF n, m
  <1>3. JobRec(n) \subseteq JobRec(m) /\ 1 .. n \subseteq 1 .. m /\ 0 .. n \subseteq 0 .. m
    BY <1>1 DEF JobRec
  <1>4. lapsed' \in BOOLEAN
    BY <1>2, Zenon DEF others, OtherTypes
  <1>5. /\ job' \in JobRec(m) /\ aged' \in 0 .. m /\ older' \in 0 .. aged'
        /\ since' \in 0 .. 2 /\ list' \subseteq 1 .. m /\ queue' \in Seq(Tx)
    BY <1>2, <1>3 DEF others, clock, OtherTypes, n
  <1>6. JobReady'
    BY <1>1, <1>2 DEF others, JobReady
  <1> QED
    BY <1>4, <1>5, <1>6 DEF OtherTypes, m

\* A step of a handler: to its end, or to its next save.
LEMMA HandlerEnds ==
  ASSUME RunInv, Busy, Finish, RowTypes', Grows, Stays
  PROVE  RunInv'
  <1>1. at \in 1 .. Len(tail)
    BY AtWork
  <1>2. /\ pc' = "idle" /\ at' = at + 1 /\ mem' = Blank
        /\ UNCHANGED <<tail, mark, sent, height, fresh, stops>>
    BY DEF Finish
  <1>3. LoopTypes
    BY TypeParts DEF RunInv
  <1>4. fresh' \in BOOLEAN
    BY <1>2, <1>3, Zenon DEF LoopTypes
  <1>5. LoopTypes'
    BY <1>1, <1>2, <1>3, <1>4 DEF LoopTypes
  <1>6. mem' \in Mem(Len(reservation'))
    BY <1>2, LenProperties DEF Blank, Mem, RowTypes
  <1>7. OtherTypes' /\ JobReady'
    BY OthersStay DEF Finish
  <1>8. Running'
    BY <1>2, <1>7 DEF Running, HasRead, Busy, Stays
  <1> QED
    BY <1>5, <1>6, <1>7, <1>8, TypeParts DEF RunInv

LEMMA HandlerGoes ==
  ASSUME RunInv, Busy, RowTypes', Grows, Stays, UNCHANGED <<loop, others>>,
         mem' \in Mem(Len(reservation')), HasRead(pc, mem)',
         pc' \in {"launch", "update", "stage", "reserve", "supply", "premint",
                  "mark", "insert"}
  PROVE  RunInv'
  <1>1. LoopTypes
    BY TypeParts DEF RunInv
  <1>2. fresh' \in BOOLEAN
    BY <1>1, Zenon DEF LoopTypes, loop
  <1>3. LoopTypes'
    BY <1>1, <1>2 DEF LoopTypes, loop
  <1>4. OtherTypes' /\ JobReady'
    BY OthersStay
  <1>5. at' <= Len(tail')
    BY DEF RunInv, Running, Busy, loop
  <1>6. Running'
    BY <1>4, <1>5 DEF Running, Stays
  <1> QED
    BY <1>3, <1>4, <1>6, TypeParts DEF RunInv

\* The smallest of a set of naturals is in it.
LEMMA SmallestIsIn ==
  ASSUME NEW S \in SUBSET Nat, S # {}
  PROVE  Min(S) \in S
  <1> DEFINE R == {ss \in Nat \X Nat : ss[1] < ss[2]}
  <1>1. IsWellFoundedOn(R, Nat)
    BY NatLessThanWellFounded DEF OpToRel
  <1>2. PICK x \in S : \A y \in S : ~(<<y, x>> \in R)
    BY <1>1, WFMin
  <1>3. \A y \in S : ~(y < x)
    BY <1>2
  <1>4. \E z \in S : \A y \in S : z =< y
    BY <1>3
  <1> QED
    BY <1>4 DEF Min

\* The checks of a handler.
LEMMA ChecksKeep ==
  ASSUME RunInv, NEW ok, NEW step, NEW read, Check(ok, step, read),
         ok => /\ read \in Mem(Len(reservation)) /\ HasRead(step, read)
               /\ step \in {"launch", "update", "stage", "reserve", "supply", "premint",
                            "mark", "insert"}
  PROVE  RunInv'
  <1>1. Busy /\ UNCHANGED tables /\ RowTypes
    BY TypeParts DEF Check, Busy, RunInv
  <1>2. RowTypes'
    BY <1>1 DEF RowTypes, tables
  <1>3. Grows /\ Stays
    BY <1>1, LenProperties DEF RowTypes, tables, Grows, Stays, RunInv, Running
  <1>4. CASE ok
    <2>1. pc' = step /\ mem' = read /\ UNCHANGED <<loop, others>>
      BY <1>4 DEF Check, Goto
    <2>2. HasRead(pc, mem)'
      BY <1>1, <1>4, <2>1 DEF HasRead, tables, loop, tx, me
    <2>3. mem' \in Mem(Len(reservation'))
      BY <1>1, <1>4, <2>1 DEF tables
    <2> QED
      BY <1>1, <1>2, <1>3, <1>4, <2>1, <2>2, <2>3, HandlerGoes
  <1>5. CASE ~ok
    <2>1. Finish
      BY <1>5 DEF Check
    <2> QED
      BY <1>1, <1>2, <1>3, <2>1, HandlerEnds
  <1> QED
    BY <1>4, <1>5

\* What is left to a reserve that passes its checks: at least one, within the
\* supply and the limit.
LEMMA LeftToMint ==
  ASSUME RunInv, Busy, ReserveOK
  PROVE  /\ launchpad \in LaunchpadRow /\ stage \in StageRow
         /\ AmountToMint \in Nat /\ AmountToMint >= 1
         /\ launchpad.supply > 0 => launchpad.minted + AmountToMint <= launchpad.supply
         /\ Cardinality(Mine(tx.sender)) \in Nat
         /\ stage.limit > 0 => Cardinality(Mine(tx.sender)) + AmountToMint <= stage.limit
         /\ AmountToMint <= (IF tx.amount = 0 THEN 1 ELSE tx.amount)
  <1>1. launchpad \in LaunchpadRow /\ stage \in StageRow /\ reservation \in Seq(Reservation)
    BY TypeParts DEF RunInv, RowTypes, ReserveOK
  <1>2. Cardinality(Mine(tx.sender)) \in Nat
    <2>1. IsFiniteSet(1 .. Len(reservation)) /\ DOMAIN reservation = 1 .. Len(reservation)
      BY <1>1, FS_Interval, LenProperties
    <2>2. IsFiniteSet(Mine(tx.sender))
      BY <2>1, FS_Subset DEF Mine
    <2> QED
      BY <2>2, FS_CardinalityType
  <1>3. tx.amount \in Nat
    BY AtWork
  <1>4. /\ launchpad.supply \in Nat /\ launchpad.minted \in Nat /\ stage.limit \in Nat
    BY <1>1, LaunchpadAssumption DEF LaunchpadRow, StageRow
  <1>5. /\ launchpad.supply > 0 => launchpad.minted < launchpad.supply
        /\ stage.limit > 0 => Cardinality(Mine(tx.sender)) < stage.limit
    BY DEF ReserveOK
  <1> DEFINE k == Cardinality(Mine(tx.sender))
             asked == IF tx.amount = 0 THEN 1 ELSE tx.amount
             left == IF launchpad.supply = 0 THEN asked
                     ELSE SmallerOf(asked, launchpad.supply - launchpad.minted)
  <1>6. asked \in Nat /\ asked >= 1
    BY <1>3
  <1>7. AmountToMint = IF stage.limit = 0 THEN left ELSE SmallerOf(left, stage.limit - k)
    BY DEF AmountToMint
  <1> HIDE DEF asked, k
  <1>8. /\ left \in Nat /\ left >= 1 /\ left <= asked
        /\ launchpad.supply > 0 => launchpad.minted + left <= launchpad.supply
    BY <1>4, <1>5, <1>6 DEF SmallerOf
  <1> HIDE DEF left
  <1>9. k \in Nat /\ (stage.limit > 0 => k < stage.limit)
    BY <1>2, <1>5 DEF k
  <1>10. /\ AmountToMint \in Nat /\ AmountToMint >= 1 /\ AmountToMint <= left
         /\ stage.limit > 0 => k + AmountToMint <= stage.limit
    BY <1>4, <1>7, <1>8, <1>9 DEF SmallerOf
  <1>11. /\ launchpad.supply > 0 => launchpad.minted + AmountToMint <= launchpad.supply
         /\ AmountToMint <= asked
    BY <1>4, <1>6, <1>8, <1>10
  <1> QED
    BY <1>1, <1>9, <1>10, <1>11 DEF k, asked

LEMMA MemTypes ==
  ASSUME NEW n \in Nat
  PROVE  /\ Blank \in Mem(n)
         /\ \A m \in Mem(n), lp \in LaunchpadRow \cup {NoRow} : [m EXCEPT !.lp = lp] \in Mem(n)
         /\ \A m \in Mem(n), k \in Nat : [m EXCEPT !.left = k] \in Mem(n)
         /\ \A m \in Mem(n), r \in 0 .. n : [m EXCEPT !.r = r] \in Mem(n)
         /\ \A m \in Mem(n), e \in BOOLEAN : [m EXCEPT !.expired = e] \in Mem(n)
  <1>1. Blank \in Mem(n)
    BY DEF Blank, Mem
  <1>2. ASSUME NEW m \in Mem(n), NEW lp \in LaunchpadRow \cup {NoRow}
        PROVE  [m EXCEPT !.lp = lp] \in Mem(n)
    BY DEF Mem
  <1>3. ASSUME NEW m \in Mem(n), NEW k \in Nat
        PROVE  [m EXCEPT !.left = k] \in Mem(n)
    BY DEF Mem
  <1>4. ASSUME NEW m \in Mem(n), NEW r \in 0 .. n
        PROVE  [m EXCEPT !.r = r] \in Mem(n)
    BY DEF Mem
  <1>5. ASSUME NEW m \in Mem(n), NEW e \in BOOLEAN
        PROVE  [m EXCEPT !.expired = e] \in Mem(n)
    BY DEF Mem
  <1> QED
    BY <1>1, <1>2, <1>3, <1>4, <1>5

LEMMA HandlerChecks ==
  ASSUME RunInv,
         Launch \/ Update \/ Reserve \/ InscribeAlone \/ InscribePremint \/ InscribeReserved
  PROVE  RunInv'
  <1>1. RowTypes /\ Len(reservation) \in Nat
    BY TypeParts, LenProperties DEF RunInv, RowTypes
  <1>2. Blank \in Mem(Len(reservation))
    BY <1>1 DEF Blank, Mem
  <1>3. CASE Launch
    BY <1>2, <1>3, ChecksKeep DEF Launch, HasRead
  <1>4. CASE Update
    <2>1. [Blank EXCEPT !.lp = launchpad] \in Mem(Len(reservation))
      BY <1>1, MemTypes DEF RowTypes
    <2>2. launchpad # NoRow => HasRead("update", [Blank EXCEPT !.lp = launchpad])
      BY DEF HasRead, Blank
    <2> QED
      BY <1>4, <2>1, <2>2, ChecksKeep DEF Update
  <1>5. CASE Reserve
    <2> DEFINE read == [Blank EXCEPT !.lp = launchpad, !.left = AmountToMint]
    <2>1. pc = "run" /\ Check(ReserveOK, "reserve", read)
      BY <1>5 DEF Reserve, Check
    <2>2. ASSUME ReserveOK
          PROVE  read \in Mem(Len(reservation)) /\ HasRead("reserve", read)
      <3>1. AmountToMint \in Nat /\ AmountToMint >= 1 /\ launchpad # NoRow /\ stage # NoRow
        BY <2>1, <2>2, LeftToMint DEF Busy, ReserveOK
      <3>2. read.lp = launchpad /\ read.left = AmountToMint
        BY DEF Blank
      <3>3. read \in Mem(Len(reservation))
        <4>1. read = [[Blank EXCEPT !.lp = launchpad] EXCEPT !.left = AmountToMint]
          OBVIOUS
        <4> HIDE DEF read
        <4> QED
          BY <1>1, <3>1, <4>1, MemTypes DEF RowTypes
      <3> HIDE DEF read
      <3> QED
        BY <3>1, <3>2, <3>3 DEF HasRead
    <2> HIDE DEF read
    <2> QED
      BY <2>1, <2>2, ChecksKeep
  <1>6. CASE InscribeAlone
    BY <1>2, <1>6, ChecksKeep DEF InscribeAlone, HasRead
  <1>7. CASE InscribePremint
    <2>1. [Blank EXCEPT !.lp = launchpad] \in Mem(Len(reservation))
      BY <1>1, MemTypes DEF RowTypes
    <2>2. HasRead("premint", [Blank EXCEPT !.lp = launchpad])
      BY <1>7 DEF HasRead, Blank, InscribePremint
    <2> QED
      BY <1>7, <2>1, <2>2, ChecksKeep DEF InscribePremint
  <1>8. CASE InscribeReserved
    <2> DEFINE r == Min(Unminted)
               read == [Blank EXCEPT !.r = r, !.expired = reservation[r].expired]
    <2>1. Check(Unminted # {} /\ tx.bot, "mark", read)
      BY <1>8 DEF InscribeReserved
    <2>2. ASSUME Unminted # {}
          PROVE  read \in Mem(Len(reservation)) /\ HasRead("mark", read)
      <3>1. Unminted \in SUBSET DOMAIN reservation /\ DOMAIN reservation = 1 .. Len(reservation)
        BY <1>1, LenProperties DEF Unminted, Mine, RowTypes
      <3>2. r \in Unminted
        BY <2>2, <3>1, SmallestIsIn
      <3>3. r \in 1 .. Len(reservation) /\ reservation[r].who = tx.sender
        BY <3>1, <3>2 DEF Unminted, Mine
      <3>4. reservation[r] \in Reservation
        BY <1>1, <3>3, ElementOfSeq DEF RowTypes
      <3>5. reservation[r].expired \in BOOLEAN
        BY <3>4 DEF Reservation
      <3> HIDE DEF r
      <3>6. read.r = r
        BY DEF Blank
      <3>7. read \in Mem(Len(reservation))
        <4>1. read = [[Blank EXCEPT !.r = r] EXCEPT !.expired = reservation[r].expired]
          OBVIOUS
        <4> HIDE DEF read
        <4>2. [Blank EXCEPT !.r = r] \in Mem(Len(reservation))
          BY <1>1, <3>3, MemTypes
        <4> QED
          BY <1>1, <3>5, <4>1, <4>2, MemTypes, Zenon
      <3> QED
        BY <3>1, <3>3, <3>6, <3>7 DEF HasRead
    <2> HIDE DEF read
    <2> QED
      BY <2>1, <2>2, ChecksKeep
  <1> QED
    BY <1>3, <1>4, <1>5, <1>6, <1>7, <1>8

(* The saves of a handler *)

LEMMA CountedRow ==
  ASSUME NEW lp \in LaunchpadRow, NEW d \in {1, -1}
  PROVE  [lp EXCEPT !.minted = (@ + d) % Wide] \in LaunchpadRow
  <1>1. lp.minted \in Nat /\ Wide \in Nat \ {0}
    BY LaunchpadAssumption DEF LaunchpadRow
  <1>2. lp.minted + d \in Int
    BY <1>1
  <1> DEFINE k == (lp.minted + d) % Wide
  <1>3. k \in 0 .. Wide - 1
    BY <1>1, <1>2
  <1>4. [lp EXCEPT !.minted = (@ + d) % Wide] = [lp EXCEPT !.minted = k]
    OBVIOUS
  <1> HIDE DEF k
  <1>5. [lp EXCEPT !.minted = k] \in LaunchpadRow
    BY <1>3 DEF LaunchpadRow
  <1> QED
    BY <1>4, <1>5

LEMMA LaunchRowType ==
  ASSUME RunInv, Busy, NEW minted \in 0 .. Wide - 1, NEW dated \in BOOLEAN
  PROVE  LaunchRow(minted, dated) \in LaunchpadRow
  <1>1. tx.meta \in Metadata
    BY AtWork
  <1>2. /\ tx.meta.supply \in 0 .. Wide - 1 /\ tx.meta.start \in Nat
        /\ tx.meta.now \in BOOLEAN /\ tx.meta.date \in BOOLEAN
    BY <1>1 DEF Metadata
  <1>3. (tx.meta.date \/ dated) \in BOOLEAN
    OBVIOUS
  <1> DEFINE b == tx.meta.date \/ dated
  <1> HIDE DEF b
  <1>4. [supply |-> tx.meta.supply, minted |-> minted, start |-> tx.meta.start,
         now |-> tx.meta.now, date |-> b] \in LaunchpadRow
    BY <1>2, <1>3, Zenon DEF LaunchpadRow, b
  <1> QED
    BY <1>4 DEF LaunchRow, b

\* Saves that leave the reservations alone.
LEMMA RowsAlone ==
  ASSUME RunInv, UNCHANGED reservation,
         launchpad' \in LaunchpadRow \/ UNCHANGED launchpad,
         stage' \in StageRow \/ UNCHANGED stage,
         nft' \in [Token -> Addr \cup {NoAddr}]
  PROVE  RowTypes' /\ Grows /\ Stays
  <1>1. RowTypes
    BY TypeParts DEF RunInv
  <1>2. RowTypes'
    BY <1>1 DEF RowTypes
  <1>3. Grows
    BY <1>1, LenProperties DEF RowTypes, Grows
  <1>4. Stays
    BY RowsAssumption DEF RunInv, Running, Stays
  <1> QED
    BY <1>2, <1>3, <1>4

LEMMA HandlerSavesRow ==
  ASSUME RunInv, SaveLaunch \/ SaveUpdate \/ SaveStage \/ SaveSupply \/ SavePremint
  PROVE  RunInv'
  <1>1. /\ RowTypes /\ mem \in Mem(Len(reservation)) /\ HasRead(pc, mem)
    BY TypeParts DEF RunInv, Running
  <1>2. Busy /\ UNCHANGED <<reservation, nft>>
    BY DEF SaveLaunch, SaveUpdate, SaveStage, SaveSupply, SavePremint, Busy
  <1>3. nft' \in [Token -> Addr \cup {NoAddr}]
    BY <1>1, <1>2 DEF RowTypes
  <1>4. CASE SaveLaunch
    <2>1. CASE fresh
      <3>1. launchpad' = LaunchRow(0, FALSE) /\ Goto("stage") /\ UNCHANGED <<mem, stage>>
        BY <1>4, <2>1 DEF SaveLaunch
      <3>2. launchpad' \in LaunchpadRow
        <4>1. 0 \in 0 .. Wide - 1
          BY LaunchpadAssumption
        <4> QED
          BY <1>2, <3>1, <4>1, LaunchRowType, Zenon
      <3>3. RowTypes' /\ Grows /\ Stays
        BY <1>2, <1>3, <3>1, <3>2, RowsAlone
      <3>4. HasRead(pc, mem)' /\ mem' \in Mem(Len(reservation'))
        BY <1>1, <1>2, <3>1 DEF HasRead, Goto
      <3> QED
        BY <1>2, <3>1, <3>3, <3>4, HandlerGoes DEF Goto
    <2>2. CASE ~fresh
      <3>1. Finish /\ UNCHANGED <<launchpad, stage>>
        BY <1>4, <2>2 DEF SaveLaunch
      <3> QED
        BY <1>2, <1>3, <3>1, RowsAlone, HandlerEnds
    <2> QED
      BY <2>1, <2>2
  <1>5. CASE SaveUpdate
    <2>1. /\ launchpad' = LaunchRow(mem.lp.minted, mem.lp.date)
          /\ Goto("stage") /\ UNCHANGED <<mem, stage>> /\ pc = "update"
      BY <1>5 DEF SaveUpdate
    <2>2. mem.lp \in LaunchpadRow
      BY <1>1, <2>1 DEF Mem, HasRead
    <2>3. mem.lp.minted \in 0 .. Wide - 1 /\ mem.lp.date \in BOOLEAN
      BY <2>2 DEF LaunchpadRow
    <2>4. launchpad' \in LaunchpadRow
      BY <1>2, <2>1, <2>3, LaunchRowType, Zenon
    <2>5. RowTypes' /\ Grows /\ Stays
      BY <1>2, <1>3, <2>1, <2>4, RowsAlone
    <2>6. HasRead(pc, mem)' /\ mem' \in Mem(Len(reservation'))
      BY <1>1, <1>2, <2>1 DEF HasRead, Goto
    <2> QED
      BY <1>2, <2>1, <2>5, <2>6, HandlerGoes DEF Goto
  <1>6. CASE SaveStage
    <2>1. tx.meta \in Metadata
      BY <1>2, AtWork
    <2>2. stage' \in StageRow /\ Finish /\ UNCHANGED launchpad
      BY <1>6, <2>1 DEF SaveStage, StageRow, Metadata
    <2> QED
      BY <1>2, <1>3, <2>2, RowsAlone, HandlerEnds
  <1>7. CASE SaveSupply
    <2>1. pc = "supply" /\ launchpad' = [mem.lp EXCEPT !.minted = (@ + 1) % Wide]
          /\ UNCHANGED stage
      BY <1>7 DEF SaveSupply
    <2>2. mem.lp \in LaunchpadRow /\ mem.lp # NoRow /\ mem.left \in Nat
      BY <1>1, <2>1 DEF Mem, HasRead
    <2>3. launchpad' \in LaunchpadRow
      BY <2>1, <2>2, CountedRow
    <2>4. RowTypes' /\ Grows /\ Stays
      BY <1>2, <1>3, <2>1, <2>3, RowsAlone
    <2>5. CASE mem.left > 1
      <3> DEFINE new == [mem.lp EXCEPT !.minted = (@ + 1) % Wide]
      <3>1. Goto("reserve") /\ mem' = [mem EXCEPT !.lp.minted = (@ + 1) % Wide, !.left = @ - 1]
        BY <1>7, <2>5 DEF SaveSupply
      <3>2. mem' = [[mem EXCEPT !.lp = new] EXCEPT !.left = mem.left - 1]
        BY <1>1, <3>1 DEF Mem
      <3>3. mem.left - 1 \in Nat /\ mem.left - 1 >= 1
        BY <2>2, <2>5
      <3>4. new \in LaunchpadRow
        BY <2>1, <2>3
      <3> HIDE DEF new
      <3>5. Len(reservation) \in Nat
        BY <1>1, LenProperties DEF RowTypes
      <3>6. [mem EXCEPT !.lp = new] \in Mem(Len(reservation))
        BY <1>1, <3>4, <3>5, MemTypes
      <3>7. mem' \in Mem(Len(reservation))
        BY <3>2, <3>3, <3>5, <3>6, MemTypes
      <3>8. mem'.lp = new /\ mem'.left = mem.left - 1
        BY <1>1, <3>2 DEF Mem
      <3>9. launchpad' # NoRow /\ new # NoRow
        BY <2>3, <3>4, RowsAssumption
      <3>10. HasRead(pc, mem)'
        BY <1>1, <2>1, <3>1, <3>3, <3>8, <3>9 DEF HasRead, Goto
      <3> QED
        BY <1>2, <2>4, <3>1, <3>7, <3>10, HandlerGoes DEF Goto
    <2>6. CASE ~(mem.left > 1)
      <3>1. Finish
        BY <1>7, <2>6 DEF SaveSupply
      <3> QED
        BY <1>2, <2>4, <3>1, HandlerEnds
    <2> QED
      BY <2>5, <2>6
  <1>8. CASE SavePremint
    <2>1. /\ pc = "premint" /\ launchpad' = [mem.lp EXCEPT !.minted = (@ + 1) % Wide]
          /\ Goto("insert") /\ UNCHANGED <<stage, mem>>
      BY <1>8 DEF SavePremint
    <2>2. mem.lp \in LaunchpadRow
      BY <1>1, <2>1 DEF Mem, HasRead
    <2>3. launchpad' \in LaunchpadRow
      BY <2>1, <2>2, CountedRow
    <2>4. RowTypes' /\ Grows /\ Stays
      BY <1>2, <1>3, <2>1, <2>3, RowsAlone
    <2>5. HasRead(pc, mem)' /\ mem' \in Mem(Len(reservation'))
      BY <1>1, <1>2, <2>1 DEF HasRead, Goto
    <2> QED
      BY <1>2, <2>1, <2>4, <2>5, HandlerGoes DEF Goto
  <1> QED
    BY <1>4, <1>5, <1>6, <1>7, <1>8

\* A reservation added to, or overwritten in, the table keeps the holders of
\* the others.
LEMMA Overwritten ==
  ASSUME RowTypes, NEW r \in DOMAIN reservation, NEW e \in BOOLEAN, NEW b \in BOOLEAN,
         reservation' = [reservation EXCEPT ![r].minted = b, ![r].expired = e]
  PROVE  /\ reservation' \in Seq(Reservation)
         /\ Len(reservation') = Len(reservation) /\ DOMAIN reservation' = DOMAIN reservation
         /\ \A k \in DOMAIN reservation : reservation'[k].who = reservation[k].who
         /\ \A k \in DOMAIN reservation : k # r => reservation'[k] = reservation[k]
         /\ reservation'[r].minted = b /\ reservation'[r].expired = e
  <1> DEFINE n == Len(reservation)
             q == reservation[r]
             half == [q EXCEPT !.minted = b]
             row == [half EXCEPT !.expired = e]
  <1>1. /\ reservation \in Seq(Reservation) /\ n \in Nat /\ DOMAIN reservation = 1 .. n
    BY LenProperties DEF RowTypes
  <1>2. q \in Reservation
    BY <1>1, ElementOfSeq
  <1>3. reservation' = [reservation EXCEPT ![r] = row]
    BY <1>1
  <1> HIDE DEF q
  <1>4. half \in Reservation /\ half.who = q.who
    BY <1>2 DEF Reservation
  <1>5. half.minted = b
    BY <1>2, Zenon DEF Reservation
  <1> HIDE DEF half
  <1>6. row \in Reservation /\ row.who = q.who
    BY <1>4 DEF Reservation
  <1>7. row.minted = b /\ row.expired = e
    BY <1>4, <1>5, Zenon DEF Reservation
  <1> HIDE DEF row
  <1>8. /\ reservation' \in Seq(Reservation) /\ Len(reservation') = n
        /\ \A k \in 1 .. n : reservation'[k] = IF k = r THEN row ELSE reservation[k]
    <2>1. r \in 1 .. Len(reservation)
      BY <1>1
    <2> DEFINE new == [reservation EXCEPT ![r] = row]
    <2>2. /\ new \in Seq(Reservation) /\ Len(new) = Len(reservation)
          /\ \A k \in 1 .. Len(reservation) : new[k] = IF k = r THEN row ELSE reservation[k]
      BY <1>1, <1>6, <2>1, ExceptSeq, Zenon
    <2> QED
      BY <1>3, <2>2, Zenon
  <1>9. DOMAIN reservation' = 1 .. n
    BY <1>8, LenProperties
  <1>10. \A k \in 1 .. n : reservation'[k].who = reservation[k].who
    BY <1>1, <1>6, <1>8 DEF q
  <1>11. \A k \in 1 .. n : k # r => reservation'[k] = reservation[k]
    BY <1>8
  <1>12. reservation'[r] = row
    BY <1>1, <1>8
  <1>13. reservation'[r].minted = b /\ reservation'[r].expired = e
    BY <1>7, <1>12, Zenon
  <1> QED
    BY <1>1, <1>8, <1>9, <1>10, <1>11, <1>13, Zenon

LEMMA Inserted ==
  ASSUME RowTypes, NEW row \in Reservation, reservation' = Append(reservation, row)
  PROVE  /\ reservation' \in Seq(Reservation)
         /\ Len(reservation') = Len(reservation) + 1 /\ Len(reservation) \in Nat
         /\ DOMAIN reservation' = DOMAIN reservation \cup {Len(reservation')}
         /\ Len(reservation') \notin DOMAIN reservation
         /\ \A q \in DOMAIN reservation : reservation'[q] = reservation[q]
         /\ reservation'[Len(reservation')] = row
  <1> DEFINE n == Len(reservation)
  <1>1. reservation \in Seq(Reservation) /\ n \in Nat /\ DOMAIN reservation = 1 .. n
    BY LenProperties DEF RowTypes
  <1>2. /\ reservation' \in Seq(Reservation) /\ Len(reservation') = n + 1
        /\ DOMAIN reservation' = 1 .. n + 1
        /\ \A q \in 1 .. n : reservation'[q] = reservation[q]
        /\ reservation'[n + 1] = row
    BY <1>1, AppendProperties
  <1> HIDE DEF n
  <1> QED
    BY <1>1, <1>2 DEF n

LEMMA HandlerSavesReservation ==
  ASSUME RunInv, SaveReservation \/ SaveMark \/ SaveInscription
  PROVE  RunInv'
  <1>1. RowTypes /\ mem \in Mem(Len(reservation)) /\ HasRead(pc, mem) /\ Running
    BY TypeParts DEF RunInv, Running
  <1>2. Busy /\ UNCHANGED <<launchpad, stage>>
    BY DEF SaveReservation, SaveMark, SaveInscription, Busy
  <1>3. tx.sender \in Addr /\ tx.token \in Token /\ Len(reservation) \in Nat
    BY <1>1, <1>2, AtWork, LenProperties DEF RowTypes
  <1>4. CASE SaveReservation
    <2> DEFINE row == [who |-> tx.sender, minted |-> FALSE, expired |-> FALSE]
    <2>1. /\ pc = "reserve" /\ reservation' = Append(reservation, row)
          /\ Goto("supply") /\ UNCHANGED <<nft, mem>>
      BY <1>4 DEF SaveReservation
    <2>2. row \in Reservation
      BY <1>3, Zenon DEF Reservation
    <2> HIDE DEF row
    <2>3. /\ reservation' \in Seq(Reservation)
          /\ Len(reservation') = Len(reservation) + 1
          /\ \A q \in DOMAIN reservation : reservation'[q] = reservation[q]
      BY <1>1, <2>1, <2>2, Inserted
    <2>4. RowTypes' /\ Grows
      BY <1>1, <1>2, <1>3, <2>1, <2>3 DEF RowTypes, Grows
    <2>5. Stays /\ HasRead(pc, mem)'
      BY <1>1, <1>2, <2>1 DEF Stays, HasRead, Goto
    <2>6. mem' \in Mem(Len(reservation'))
      BY <1>1, <1>3, <2>1, <2>3 DEF Mem
    <2> QED
      BY <1>2, <2>1, <2>4, <2>5, <2>6, HandlerGoes DEF Goto
  <1>5. CASE SaveMark
    <2>1. /\ pc = "mark" /\ Goto("insert") /\ UNCHANGED <<nft, mem>>
          /\ reservation' = [reservation EXCEPT ![mem.r].minted = TRUE,
                                                ![mem.r].expired = mem.expired]
      BY <1>5 DEF SaveMark
    <2>2. mem.r \in DOMAIN reservation
      BY <1>1, <2>1 DEF HasRead
    <2>3. mem.expired \in BOOLEAN
      BY <1>1 DEF Mem
    <2>4. /\ reservation' \in Seq(Reservation)
          /\ Len(reservation') = Len(reservation)
          /\ \A q \in DOMAIN reservation : reservation'[q].who = reservation[q].who
      BY <1>1, <2>1, <2>2, <2>3, Overwritten, Zenon
    <2>5. RowTypes' /\ Grows
      BY <1>1, <1>2, <1>3, <2>1, <2>4 DEF RowTypes, Grows
    <2>6. reservation # <<>>
      BY <2>2
    <2>7. Stays /\ HasRead(pc, mem)'
      BY <1>1, <1>2, <2>1, <2>6 DEF Running, Stays, HasRead, Goto
    <2>8. mem' \in Mem(Len(reservation'))
      BY <1>1, <2>1, <2>4
    <2> QED
      BY <1>2, <2>1, <2>5, <2>7, <2>8, HandlerGoes DEF Goto
  <1>6. CASE SaveInscription
    <2>1. Finish /\ UNCHANGED reservation
      BY <1>6 DEF SaveInscription
    <2>2. nft' = nft \/ nft' = [nft EXCEPT ![tx.token] = tx.sender]
      BY <1>6 DEF SaveInscription
    <2>3. nft' \in [Token -> Addr \cup {NoAddr}]
      BY <1>1, <1>3, <2>2 DEF RowTypes
    <2> QED
      BY <1>2, <2>1, <2>3, RowsAlone, HandlerEnds
  <1> QED
    BY <1>4, <1>5, <1>6
-----------------------------------------------------------------------------
(* The job, the bot, the loop and time *)

\* Whoever else moves, a handler keeps what it read.
LEMMA HandlerStays ==
  ASSUME RunInv, RowTypes', Grows, Stays, UNCHANGED <<tail, at, pc, mem>>
  PROVE  /\ mem' \in Mem(Len(reservation')) /\ HasRead(pc, mem)'
         /\ Busy' => at' <= Len(tail')
         /\ reservation' # <<>> => launchpad' # NoRow
  <1>1. /\ RowTypes /\ mem \in Mem(Len(reservation)) /\ HasRead(pc, mem)
        /\ Busy => at <= Len(tail)
    BY TypeParts DEF RunInv, Running
  <1>2. /\ Len(reservation) \in Nat /\ Len(reservation') \in Nat
        /\ DOMAIN reservation = 1 .. Len(reservation)
        /\ DOMAIN reservation' = 1 .. Len(reservation')
    BY <1>1, LenProperties DEF RowTypes
  <1>3. 0 .. Len(reservation) \subseteq 0 .. Len(reservation')
    BY <1>2 DEF Grows
  <1>4. mem' \in Mem(Len(reservation'))
    BY <1>1, <1>3 DEF Mem
  <1>5. tx' = tx
    BY DEF tx, me
  <1>6. pc = "mark" => mem.r \in DOMAIN reservation' /\ reservation'[mem.r].who = tx.sender
    BY <1>1, <1>2 DEF HasRead, Grows
  <1>7. HasRead(pc, mem)'
    BY <1>1, <1>5, <1>6 DEF HasRead, Stays
  <1> QED
    BY <1>1, <1>4, <1>7 DEF Stays, Busy

LEMMA UnchangedLoop ==
  ASSUME LoopTypes, UNCHANGED <<tail, mark, at, sent, height, fresh, pc>>,
         stops' \in 0 .. MaxStops
  PROVE  LoopTypes'
  <1>1. fresh' \in BOOLEAN
    BY Zenon DEF LoopTypes
  <1> QED
    BY <1>1 DEF LoopTypes

LEMMA JobKeeps == RunInv /\ (Job \/ JobStop) => RunInv'
  <1> SUFFICES ASSUME RunInv, Job \/ JobStop PROVE RunInv'
    OBVIOUS
  <1> DEFINE n == Len(reservation)
  <1>1. /\ RowTypes /\ LoopTypes /\ OtherTypes /\ JobReady
    BY TypeParts DEF RunInv, Running
  <1>2. /\ reservation \in Seq(Reservation) /\ n \in Nat /\ DOMAIN reservation = 1 .. n
    BY <1>1, LenProperties DEF RowTypes
  <1>3. /\ UNCHANGED <<tail, mark, at, sent, height, fresh, pc, mem, clock, list, queue>>
        /\ stops' \in 0 .. MaxStops
    <2>1. CASE Job
      <3>1. UNCHANGED <<loop, pc, mem, clock, list, queue>>
        BY <2>1, Zenon DEF Job, JobSelect, JobRead, JobSaveRow, JobSaveSupply, Idle
      <3> QED
        BY <1>1, <3>1 DEF loop, LoopTypes
    <2>2. CASE JobStop
      <3>1. /\ UNCHANGED <<tail, mark, at, sent, height, fresh, pc, mem, clock, list, queue>>
            /\ stops < MaxStops /\ stops' = stops + 1
        BY <2>2 DEF JobStop
      <3> QED
        BY <1>1, <3>1, LaunchpadAssumption DEF LoopTypes
    <2> QED
      BY <2>1, <2>2
  <1>4. LoopTypes'
    BY <1>1, <1>3, UnchangedLoop
  <1>5. ASSUME RowTypes', Grows, Stays, job' \in JobRec(Len(reservation')),
               lapsed' \in BOOLEAN, JobReady'
        PROVE  RunInv'
    <2>1. /\ mem' \in Mem(Len(reservation')) /\ HasRead(pc, mem)'
          /\ Busy' => at' <= Len(tail')
          /\ reservation' # <<>> => launchpad' # NoRow
      BY <1>3, <1>5, HandlerStays
    <2>2. Running'
      BY <1>5, <2>1 DEF Running
    <2>3. Len(reservation') \in Nat /\ Len(reservation') >= n
      BY <1>5, LenProperties DEF RowTypes, Grows
    <2>4. /\ aged' \in 0 .. Len(reservation') /\ older' \in 0 .. aged'
          /\ since' \in 0 .. 2 /\ list' \subseteq 1 .. Len(reservation')
          /\ queue' \in Seq(Tx)
      BY <1>1, <1>2, <1>3, <2>3 DEF OtherTypes, clock
    <2>5. OtherTypes'
      BY <1>5, <2>4, Zenon DEF OtherTypes
    <2> QED
      BY <1>4, <1>5, <2>1, <2>2, <2>5, TypeParts DEF RunInv
  <1>6. ASSUME UNCHANGED <<tables, lapsed>>
        PROVE  RowTypes' /\ Grows /\ Stays /\ lapsed' \in BOOLEAN
    <2>1. RowTypes' /\ Grows
      BY <1>1, <1>2, <1>6 DEF RowTypes, Grows, tables
    <2>2. Stays
      BY <1>6 DEF Stays, tables, RunInv, Running
    <2>3. lapsed' \in BOOLEAN
      BY <1>1, <1>6, Zenon DEF OtherTypes
    <2> QED
      BY <2>1, <2>2, <2>3
  <1>7. ASSUME NEW S \in SUBSET (1 .. n), NEW step \in {"off", "read"},
               job' = [NoJob EXCEPT !.step = step, !.todo = S]
        PROVE  job' \in JobRec(n) /\ JobReady'
    <2> DEFINE half == [NoJob EXCEPT !.step = step]
    <2>1. NoJob \in JobRec(n)
      BY <1>2 DEF NoJob, JobRec
    <2>2. half \in JobRec(n) /\ half.step = step
      BY <2>1 DEF JobRec
    <2>3. job' = [half EXCEPT !.todo = S]
      BY <1>7
    <2> HIDE DEF half
    <2>4. job' \in JobRec(n) /\ job'.step = step
      BY <2>2, <2>3 DEF JobRec
    <2> QED
      BY <2>4 DEF JobReady
  <1>8. CASE JobSelect
    <2>1. /\ UNCHANGED <<tables, lapsed>> /\ job' = [NoJob EXCEPT !.step = "read", !.todo = Due]
      BY <1>8 DEF JobSelect, Idle
    <2>2. Due \subseteq 1 .. n
      BY <1>1, <1>2 DEF Due, OtherTypes
    <2>3. job' \in JobRec(n) /\ JobReady'
      BY <1>7, <2>1, <2>2
    <2> QED
      BY <1>5, <1>6, <2>1, <2>3 DEF tables
  <1>9. CASE JobRead
    <2>1. UNCHANGED <<tables, lapsed>>
      BY <1>9 DEF JobRead, Idle
    <2>2. PICK r \in job.todo :
            job' = IF Expires(launchpad)
                   THEN [step |-> "row", todo |-> job.todo \ {r}, r |-> r, lp |-> launchpad]
                   ELSE [NoJob EXCEPT !.step = IF job.todo \ {r} = {} THEN "off" ELSE "read",
                                      !.todo = job.todo \ {r}]
      BY <1>9 DEF JobRead
    <2>3. job.todo \subseteq 1 .. n /\ r \in 1 .. n
      BY <1>1, <2>2 DEF OtherTypes, JobRec
    <2>4. CASE Expires(launchpad)
      <3>1. job' = [step |-> "row", todo |-> job.todo \ {r}, r |-> r, lp |-> launchpad]
        BY <2>2, <2>4
      <3>2. job' \in JobRec(n)
        BY <1>1, <1>2, <2>3, <3>1 DEF JobRec, RowTypes
      <3>3. reservation # <<>>
        BY <1>2, <2>3
      <3>4. JobReady'
        BY <1>2, <2>1, <2>3, <3>1, <3>3 DEF JobReady, tables, RunInv, Running
      <3> QED
        BY <1>5, <1>6, <2>1, <3>2, <3>4 DEF tables
    <2>5. CASE ~Expires(launchpad)
      <3>1. PICK step \in {"off", "read"} :
                job' = [NoJob EXCEPT !.step = step, !.todo = job.todo \ {r}]
        BY <2>2, <2>5
      <3>2. job' \in JobRec(n) /\ JobReady'
        BY <1>7, <2>3, <3>1
      <3> QED
        BY <1>5, <1>6, <2>1, <3>2 DEF tables
    <2> QED
      BY <2>4, <2>5
  <1>10. CASE JobSaveRow
    <2>1. /\ job.step = "row" /\ UNCHANGED <<launchpad, stage, nft>> /\ lapsed' = TRUE
          /\ job' = [job EXCEPT !.step = "supply"]
          /\ reservation' = [reservation EXCEPT ![job.r].minted = FALSE,
                                                ![job.r].expired = TRUE]
      BY <1>10 DEF JobSaveRow
    <2>2. job.r \in DOMAIN reservation /\ job.lp # NoRow
      BY <1>1, <2>1 DEF JobReady
    <2>3. /\ reservation' \in Seq(Reservation)
          /\ Len(reservation') = n /\ DOMAIN reservation' = DOMAIN reservation
          /\ \A q \in DOMAIN reservation : reservation'[q].who = reservation[q].who
      BY <1>1, <2>1, <2>2, Overwritten, Zenon
    <2>4. RowTypes' /\ Grows
      BY <1>1, <1>2, <2>1, <2>3 DEF RowTypes, Grows
    <2>5. Stays
      BY <1>2, <2>1, <2>2 DEF Stays, RunInv, Running
    <2>6. job' \in JobRec(n)
      BY <1>1, <2>1 DEF JobRec, OtherTypes
    <2>7. JobReady'
      BY <1>1, <2>1, <2>2, <2>3 DEF JobReady, OtherTypes, JobRec
    <2>8. lapsed' \in BOOLEAN
      BY <2>1, Zenon
    <2> QED
      BY <1>5, <2>3, <2>4, <2>5, <2>6, <2>7, <2>8
  <1>11. CASE JobSaveSupply
    <2>1. /\ job.step = "supply" /\ UNCHANGED <<stage, reservation, nft, lapsed>>
          /\ launchpad' = [job.lp EXCEPT !.minted = (@ - 1) % Wide]
      BY <1>11 DEF JobSaveSupply
    <2>2. job.lp \in LaunchpadRow
      BY <1>1, <2>1 DEF JobReady, OtherTypes, JobRec
    <2>3. job.lp.minted \in Nat
      BY <2>2, LaunchpadAssumption DEF LaunchpadRow
    <2>4. launchpad' = [job.lp EXCEPT !.minted = (@ + -1) % Wide]
      BY <2>1, <2>3
    <2>5. launchpad' \in LaunchpadRow
      BY <2>2, <2>4, CountedRow
    <2>6. RowTypes' /\ Grows /\ Stays
      BY <1>1, <2>1, <2>5, RowsAlone DEF RowTypes
    <2>7. lapsed' \in BOOLEAN
      BY <1>1, <2>1, Zenon DEF OtherTypes
    <2>8. \/ job' = NoJob
          \/ job' = [NoJob EXCEPT !.step = "read", !.todo = job.todo]
      BY <1>11 DEF JobSaveSupply
    <2>9. job.todo \subseteq 1 .. n
      BY <1>1 DEF OtherTypes, JobRec
    <2>10. NoJob \in JobRec(n) /\ NoJob.step = "off"
      BY <1>2 DEF JobRec, NoJob
    <2>11. job' \in JobRec(n) /\ JobReady'
      <3>1. CASE job' = NoJob
        BY <2>10, <3>1 DEF JobReady
      <3>2. CASE job' = [NoJob EXCEPT !.step = "read", !.todo = job.todo]
        BY <1>7, <2>9, <3>2
      <3> QED
        BY <2>8, <3>1, <3>2
    <2> QED
      BY <1>5, <2>1, <2>6, <2>7, <2>11
  <1>12. CASE JobStop
    <2>1. UNCHANGED <<tables, lapsed>> /\ job' = NoJob
      BY <1>12 DEF JobStop
    <2>2. job' \in JobRec(n) /\ JobReady'
      BY <1>2, <2>1 DEF NoJob, JobRec, JobReady
    <2> QED
      BY <1>5, <1>6, <2>1, <2>2 DEF tables
  <1> QED
    BY <1>8, <1>9, <1>10, <1>11, <1>12 DEF Job

\* Steps that change no table and nothing of the job.
LEMMA TablesAlone ==
  ASSUME RunInv, UNCHANGED <<tables, job, lapsed>>
  PROVE  /\ RowTypes' /\ Grows /\ Stays /\ JobReady'
         /\ Len(reservation') \in Nat /\ Len(reservation') = Len(reservation)
         /\ job' \in JobRec(Len(reservation')) /\ lapsed' \in BOOLEAN
  <1>1. RowTypes /\ OtherTypes /\ JobReady /\ Len(reservation) \in Nat
    BY TypeParts, LenProperties DEF RunInv, Running, RowTypes
  <1>2. RowTypes' /\ Grows
    BY <1>1 DEF RowTypes, Grows, tables
  <1>3. Stays /\ JobReady'
    BY <1>1 DEF Stays, JobReady, tables, RunInv, Running
  <1>4. lapsed' \in BOOLEAN
    BY <1>1, Zenon DEF OtherTypes
  <1>5. job' \in JobRec(Len(reservation'))
    BY <1>1 DEF OtherTypes, tables
  <1> QED
    BY <1>1, <1>2, <1>3, <1>4, <1>5 DEF tables

LEMMA BotAndTimeKeep == RunInv /\ (Bot \/ HourPasses \/ RevealAges) => RunInv'
  <1> SUFFICES ASSUME RunInv, Bot \/ HourPasses \/ RevealAges PROVE RunInv'
    OBVIOUS
  <1> DEFINE n == Len(reservation)
  <1>1. RowTypes /\ LoopTypes /\ OtherTypes
    BY TypeParts DEF RunInv
  <1>2. n \in Nat /\ DOMAIN reservation = 1 .. n
    BY <1>1, LenProperties DEF RowTypes
  <1>3. UNCHANGED <<tables, loop, pc, mem, job, lapsed>>
    BY Zenon DEF Bot, BotFetch, BotMint, BotFails, HourPasses, RevealAges
  <1>4. /\ RowTypes' /\ Grows /\ Stays /\ JobReady'
        /\ job' \in JobRec(Len(reservation')) /\ lapsed' \in BOOLEAN
    BY <1>3, TablesAlone
  <1>5. stops' \in 0 .. MaxStops
    BY <1>1, <1>3 DEF loop, LoopTypes
  <1>6. LoopTypes'
    BY <1>1, <1>3, <1>5, UnchangedLoop DEF loop
  <1>7. /\ mem' \in Mem(Len(reservation')) /\ Running'
    BY <1>3, <1>4, HandlerStays DEF loop, Running
  <1>8. ASSUME aged' \in 0 .. n, older' \in 0 .. aged', since' \in 0 .. 2,
               list' \subseteq 1 .. n, queue' \in Seq(Tx)
        PROVE  RunInv'
    <2>1. reservation' = reservation
      BY <1>3 DEF tables
    <2>2. OtherTypes'
      BY <1>4, <1>8, <2>1, Zenon DEF OtherTypes
    <2> QED
      BY <1>4, <1>6, <1>7, <2>2, TypeParts DEF RunInv
  <1>9. CASE BotFetch
    <2>1. list' \subseteq 1 .. n
      BY <1>2, <1>9 DEF BotFetch, Waiting
    <2> QED
      BY <1>1, <1>8, <1>9, <2>1 DEF BotFetch, OtherTypes, clock
  <1>10. CASE BotMint
    <2> DEFINE none == [supply |-> 0, start |-> 0, finish |-> 0, limit |-> 0,
                        members |-> {}, now |-> FALSE, date |-> FALSE]
    <2>1. PICK t \in Free \cap Token :
              queue' = Append(queue, [op |-> "inscribe", sender |-> reservation[Min(list)].who,
                                      meta |-> none, amount |-> 0, token |-> t, bot |-> TRUE])
      BY <1>10 DEF BotMint
    <2>2. list' \subseteq list /\ list # {} /\ UNCHANGED <<aged, older, since>>
      BY <1>10 DEF BotMint, clock
    <2>3. Min(list) \in list /\ list \subseteq 1 .. n
      BY <1>1, <2>2, SmallestIsIn DEF OtherTypes
    <2>4. reservation[Min(list)] \in Reservation
      BY <1>1, <2>3, ElementOfSeq DEF RowTypes
    <2>5. reservation[Min(list)].who \in Addr
      BY <2>4 DEF Reservation
    <2>6. none \in Metadata
      <3>1. 0 \in 0 .. Wide - 1 /\ 0 \in Nat
        BY LaunchpadAssumption
      <3> QED
        BY <3>1, Zenon DEF Metadata
    <2> HIDE DEF none
    <2>7. [op |-> "inscribe", sender |-> reservation[Min(list)].who, meta |-> none,
           amount |-> 0, token |-> t, bot |-> TRUE] \in Tx
      <3>1. 0 \in Nat /\ "inscribe" \in {"launch", "update", "reserve", "inscribe"} /\ t \in Token
        OBVIOUS
      <3> QED
        BY <2>5, <2>6, <3>1, Zenon DEF Tx
    <2>8. queue' \in Seq(Tx)
      BY <1>1, <2>1, <2>7, AppendProperties DEF OtherTypes
    <2> QED
      BY <1>1, <1>8, <2>2, <2>8 DEF OtherTypes
  <1>11. CASE BotFails
    BY <1>1, <1>8, <1>11 DEF BotFails, OtherTypes, clock
  <1>12. CASE HourPasses
    <2>1. aged' = n /\ older' = aged /\ UNCHANGED <<since, list, queue>>
      BY <1>12 DEF HourPasses
    <2>2. aged' \in 0 .. n /\ older' \in 0 .. aged'
      BY <1>1, <1>2, <2>1 DEF OtherTypes
    <2> QED
      BY <1>1, <1>8, <2>1, <2>2 DEF OtherTypes
  <1>13. CASE RevealAges
    BY <1>1, <1>8, <1>13 DEF RevealAges, OtherTypes
  <1> QED
    BY <1>9, <1>10, <1>11, <1>12, <1>13 DEF Bot

LEMMA LoopKeeps == RunInv /\ (Receive \/ Again \/ NextBlock \/ Stop) => RunInv'
  <1> SUFFICES ASSUME RunInv, Receive \/ Again \/ NextBlock \/ Stop PROVE RunInv'
    OBVIOUS
  <1> DEFINE n == Len(tail)
  <1>1. /\ RowTypes /\ LoopTypes /\ OtherTypes /\ mem \in Mem(Len(reservation))
        /\ reservation # <<>> => launchpad # NoRow
    BY TypeParts DEF RunInv, Running
  <1>2. tail \in Seq(Entry) /\ n \in Nat
    BY <1>1, LenProperties DEF LoopTypes
  <1>3. UNCHANGED <<tables, job, lapsed, clock, list>>
    BY Zenon DEF Receive, Again, NextBlock, Stop, others
  <1>4. /\ RowTypes' /\ JobReady' /\ Len(reservation') = Len(reservation)
        /\ Len(reservation') \in Nat
        /\ job' \in JobRec(Len(reservation')) /\ lapsed' \in BOOLEAN
    BY <1>3, TablesAlone
  <1>5. pc' \in {"run", "idle"} /\ (mem' = mem \/ mem' = Blank)
    BY <1>1 DEF Receive, Again, NextBlock, Stop, LoopTypes
  <1>6. mem' \in Mem(Len(reservation'))
    BY <1>1, <1>4, <1>5, MemTypes
  <1>7. ASSUME queue' \in Seq(Tx), LoopTypes', Busy' => at' <= Len(tail')
        PROVE  RunInv'
    <2>1. HasRead(pc, mem)'
      BY <1>5 DEF HasRead
    <2>2. reservation' # <<>> => launchpad' # NoRow
      BY <1>1, <1>3 DEF tables
    <2>3. Running'
      BY <1>4, <1>7, <2>1, <2>2 DEF Running
    <2>4. /\ aged' \in 0 .. Len(reservation') /\ older' \in 0 .. aged'
          /\ since' \in 0 .. 2 /\ list' \subseteq 1 .. Len(reservation')
      BY <1>1, <1>3, <1>4 DEF OtherTypes, clock
    <2>5. OtherTypes'
      BY <1>4, <1>7, <2>4, Zenon DEF OtherTypes
    <2> QED
      BY <1>4, <1>6, <1>7, <2>3, <2>5, TypeParts DEF RunInv
  <1>8. CASE Receive
    <2>1. PICK t \in Submissions \cup ToSet(queue) :
              /\ tail' = Append(tail, [tx |-> t, height |-> height])
              /\ IF t.op = "inscribe" /\ t.bot
                 THEN queue # <<>> /\ t = Head(queue) /\ queue' = Tail(queue)
                 ELSE UNCHANGED queue
      BY <1>8 DEF Receive
    <2>2. t \in Tx /\ queue' \in Seq(Tx)
      <3>1. queue \in Seq(Tx)
        BY <1>1 DEF OtherTypes
      <3>2. t \in Tx
        BY <2>1, <3>1, SubmissionsAssumption, ElementOfSeq, LenProperties DEF ToSet
      <3>3. queue' = queue \/ (queue # <<>> /\ queue' = Tail(queue))
        BY <2>1
      <3> QED
        BY <3>1, <3>2, <3>3, HeadTailProperties
    <2>3. [tx |-> t, height |-> height] \in Entry
      BY <1>1, <2>2 DEF LoopTypes, Entry
    <2>4. tail' \in Seq(Entry) /\ Len(tail') = n + 1
      BY <1>2, <2>1, <2>3, AppendProperties
    <2>5. /\ at = n + 1 /\ sent' = sent + 1 /\ sent < MaxTx /\ pc' = "run" /\ fresh' = TRUE
          /\ UNCHANGED <<mark, at, height, stops>>
      BY <1>8 DEF Receive
    <2>6. fresh' \in BOOLEAN
      BY <2>5, Zenon
    <2>7. LoopTypes' /\ at' <= Len(tail')
      BY <1>1, <1>2, <2>4, <2>5, <2>6, LaunchpadAssumption DEF LoopTypes
    <2> QED
      BY <1>7, <2>2, <2>7
  <1>9. CASE Again
    <2>1. /\ at <= n /\ pc' = "run" /\ fresh' = FALSE
          /\ UNCHANGED <<tail, mark, at, sent, height, stops, queue>>
      BY <1>9 DEF Again, others
    <2>2. fresh' \in BOOLEAN
      BY <2>1, Zenon
    <2>3. LoopTypes' /\ at' <= Len(tail') /\ queue' \in Seq(Tx)
      BY <1>1, <2>1, <2>2 DEF LoopTypes, OtherTypes
    <2> QED
      BY <1>7, <2>3
  <1>10. CASE NextBlock
    <2>1. /\ pc = "idle" /\ height < MaxHeight /\ height' = height + 1
          /\ tail' = SubSeq(tail, mark + 1, n) /\ mark' = n - mark /\ at' = n - mark + 1
          /\ UNCHANGED <<sent, fresh, stops, pc, queue>>
      BY <1>10 DEF NextBlock, others
    <2>2. mark \in 0 .. n
      BY <1>1 DEF LoopTypes
    <2>3. tail' \in Seq(Entry) /\ Len(tail') = n - mark
      <3> DEFINE k == mark + 1
      <3>1. k \in 1 .. n + 1 /\ n \in (k - 1) .. n
        BY <1>2, <2>2
      <3> HIDE DEF k
      <3>2. /\ SubSeq(tail, k, n) \in Seq(Entry)
            /\ Len(SubSeq(tail, k, n)) = IF k <= n THEN n - k + 1 ELSE 0
        BY <1>2, <3>1, SubSeqProperties
      <3> QED
        BY <1>2, <2>1, <2>2, <3>2 DEF k
    <2>4. fresh' \in BOOLEAN
      BY <1>1, <2>1, Zenon DEF LoopTypes
    <2>5. LoopTypes'
      BY <1>1, <1>2, <2>1, <2>2, <2>3, <2>4, LaunchpadAssumption DEF LoopTypes
    <2> QED
      BY <1>1, <1>7, <2>1, <2>5 DEF Busy, OtherTypes
  <1>11. CASE Stop
    <2>1. /\ stops < MaxStops /\ stops' = stops + 1 /\ at' = 1 /\ pc' = "idle"
          /\ UNCHANGED <<tail, mark, sent, height, fresh, queue>>
      BY <1>11 DEF Stop, others
    <2>2. fresh' \in BOOLEAN
      BY <1>1, <2>1, Zenon DEF LoopTypes
    <2>3. LoopTypes'
      BY <1>1, <1>2, <2>1, <2>2, LaunchpadAssumption DEF LoopTypes
    <2> QED
      BY <1>1, <1>7, <2>1, <2>3 DEF Busy, OtherTypes
  <1> QED
    BY <1>8, <1>9, <1>10, <1>11

LEMMA InitRun == Init => RunInv
  <1> SUFFICES ASSUME Init PROVE RunInv
    OBVIOUS
  <1>1. /\ reservation = <<>> /\ Len(reservation) = 0 /\ tail = <<>> /\ Len(tail) = 0
        /\ <<>> \in Seq(Reservation) /\ <<>> \in Seq(Entry) /\ <<>> \in Seq(Tx)
    BY EmptySeq DEF Init
  <1>2. fresh \in BOOLEAN /\ lapsed \in BOOLEAN
    BY Zenon DEF Init
  <1>3. RowTypes
    BY <1>1 DEF Init, RowTypes
  <1>4. LoopTypes
    BY <1>1, <1>2, LaunchpadAssumption DEF Init, LoopTypes
  <1>5. mem \in Mem(0)
    BY MemTypes DEF Init
  <1>6. job \in JobRec(0)
    BY DEF Init, NoJob, JobRec
  <1>7. OtherTypes
    BY <1>1, <1>2, <1>6 DEF Init, OtherTypes
  <1>8. Running
    BY <1>1 DEF Init, Running, Busy, HasRead, JobReady, NoJob
  <1> QED
    BY <1>1, <1>3, <1>4, <1>5, <1>7, <1>8, TypeParts DEF RunInv

LEMMA NextRun == RunInv /\ [Next]_vars => RunInv'
  <1> SUFFICES ASSUME RunInv, [Next]_vars PROVE RunInv'
    OBVIOUS
  <1>1. CASE Next
    <2>1. CASE Handle
      BY <2>1, HandlerChecks, HandlerSavesRow, HandlerSavesReservation DEF Handle
    <2>2. CASE Receive \/ Again \/ NextBlock \/ Stop
      BY <2>2, LoopKeeps
    <2>3. CASE Job \/ JobStop
      BY <2>3, JobKeeps
    <2>4. CASE Bot \/ HourPasses \/ RevealAges
      BY <2>4, BotAndTimeKeep
    <2> QED
      BY <1>1, <2>1, <2>2, <2>3, <2>4 DEF Next, Indexer
  <1>2. CASE UNCHANGED vars
    <2>1. UNCHANGED <<tables, loop, pc, mem, others>>
      BY <1>2, Zenon DEF vars
    <2>2. TypeOK'
      <3>1. RowTypes /\ LoopTypes /\ mem \in Mem(Len(reservation)) /\ OtherTypes
        BY TypeParts DEF RunInv
      <3>2. RowTypes'
        BY <2>1, <3>1, Zenon DEF tables, RowTypes
      <3>3. LoopTypes'
        BY <2>1, <3>1, Zenon DEF loop, LoopTypes
      <3>4. OtherTypes'
        BY <2>1, <3>1, Zenon DEF tables, others, clock, OtherTypes
      <3>5. mem' \in Mem(Len(reservation'))
        BY <2>1, <3>1, Zenon DEF tables
      <3> QED
        BY <3>2, <3>3, <3>4, <3>5, TypeParts
    <2>3. HasRead(pc, mem)' <=> HasRead(pc, mem)
      BY <2>1, Zenon DEF tables, loop, HasRead, tx, me
    <2>4. Running' <=> Running
      BY <2>1, <2>3, Zenon DEF tables, loop, others, Running, JobReady, Busy
    <2> QED
      BY <2>2, <2>4 DEF RunInv
  <1> QED
    BY <1>1, <1>2

\* Every variable keeps its type: of two processes that save the launchpad's row,
\* neither leaves a count outside uint64 or a row that is not there.
THEOREM TypeCorrect == Spec => []TypeOK
  <1>1. RunInv => TypeOK
    BY DEF RunInv
  <1> QED
    BY InitRun, NextRun, <1>1, PTL DEF Spec
-----------------------------------------------------------------------------
(* The reservations *)

\* A step of the loop is between two handlers, and one of the job, the bot or
\* time leaves a handler alone.
LoopStep == pc' \in {"idle", "run"} /\ UNCHANGED <<tables, lapsed>>

OtherStep ==
    /\ UNCHANGED <<stage, nft, tail, mark, at, sent, height, fresh, pc, mem>>
    /\ JobSaveRow \/ UNCHANGED reservation

LEMMA Steps == [Next]_vars => Handle \/ LoopStep \/ OtherStep
  <1> SUFFICES ASSUME [Next]_vars PROVE Handle \/ LoopStep \/ OtherStep
    OBVIOUS
  <1>1. CASE Receive \/ Again \/ NextBlock \/ Stop
    <2>1. pc' \in {"idle", "run"}
      BY <1>1 DEF Receive, Again, NextBlock, Stop
    <2>2. UNCHANGED <<tables, lapsed>>
      BY <1>1, Zenon DEF Receive, Again, NextBlock, Stop, others
    <2> QED
      BY <2>1, <2>2 DEF LoopStep
  <1>2. CASE Job \/ JobStop \/ Bot \/ HourPasses \/ RevealAges \/ UNCHANGED vars
    BY <1>2, Zenon DEF Job, JobSelect, JobRead, JobSaveRow, JobSaveSupply, JobStop, Idle, Bot, BotFetch,
                BotMint, BotFails, HourPasses, RevealAges, vars, tables, loop, OtherStep
  <1> QED
    BY <1>1, <1>2 DEF Next, Indexer

\* Who writes to the table of reservations.
LEMMA RowWriters ==
  [Next]_vars => SaveReservation \/ SaveMark \/ JobSaveRow \/ UNCHANGED reservation
  <1> SUFFICES ASSUME [Next]_vars
               PROVE  SaveReservation \/ SaveMark \/ JobSaveRow \/ UNCHANGED reservation
    OBVIOUS
  <1>1. CASE Handle
    BY <1>1, Zenon DEF Handle, Launch, SaveLaunch, Update, SaveUpdate, SaveStage, Reserve, SaveSupply,
                InscribeAlone, InscribePremint, InscribeReserved, SavePremint,
                SaveInscription, Check, tables
  <1> QED
    BY <1>1, Steps DEF LoopStep, OtherStep, tables

\* What SaveMark and the job's save do to a row.
LEMMA MarkOrLapse ==
  ASSUME RunInv, SaveMark \/ JobSaveRow
  PROVE  \E r \in DOMAIN reservation, b \in BOOLEAN, e \in BOOLEAN :
             /\ reservation' = [reservation EXCEPT ![r].minted = b, ![r].expired = e]
             /\ b \/ e
             /\ SaveMark => b /\ r = mem.r
  <1>1. CASE SaveMark
    <2>1. mem.r \in DOMAIN reservation
      BY <1>1 DEF RunInv, Running, HasRead, SaveMark
    <2>2. mem.expired \in BOOLEAN
      BY TypeParts DEF RunInv, Mem
    <2>3. reservation' = [reservation EXCEPT ![mem.r].minted = TRUE,
                                             ![mem.r].expired = mem.expired]
      BY <1>1 DEF SaveMark
    <2> QED
      BY <2>1, <2>2, <2>3, Zenon
  <1>2. CASE JobSaveRow /\ ~SaveMark
    <2>1. job.r \in DOMAIN reservation
      BY <1>2 DEF RunInv, Running, JobReady, JobSaveRow
    <2>2. reservation' = [reservation EXCEPT ![job.r].minted = FALSE,
                                             ![job.r].expired = TRUE]
      BY <1>2 DEF JobSaveRow
    <2> QED
      BY <1>2, <2>1, <2>2, Zenon
  <1> QED
    BY <1>1, <1>2

LEMMA SettledStep ==
  RunInv /\ [Next]_vars => \A r \in DOMAIN reservation : Settled(r) => Settled(r)'
  <1> SUFFICES ASSUME RunInv, [Next]_vars, NEW r \in DOMAIN reservation, Settled(r)
               PROVE  Settled(r)'
    OBVIOUS
  <1>1. RowTypes
    BY TypeParts DEF RunInv
  <1>2. CASE SaveReservation
    <2>1. /\ reservation' = Append(reservation,
                                [who |-> tx.sender, minted |-> FALSE, expired |-> FALSE])
          /\ Busy
      BY <1>2 DEF SaveReservation, Busy
    <2>2. tx.sender \in Addr
      BY <2>1, AtWork
    <2>3. [who |-> tx.sender, minted |-> FALSE, expired |-> FALSE] \in Reservation
      BY <2>2, Zenon DEF Reservation
    <2>4. reservation'[r] = reservation[r]
      BY <1>1, <2>1, <2>3, Inserted
    <2> QED
      BY <2>4, Zenon DEF Settled
  <1>3. CASE SaveMark \/ JobSaveRow
    <2>1. PICK q \in DOMAIN reservation, b \in BOOLEAN, e \in BOOLEAN :
             /\ reservation' = [reservation EXCEPT ![q].minted = b, ![q].expired = e]
             /\ b \/ e
      BY <1>3, MarkOrLapse, Zenon
    <2>2. /\ \A k \in DOMAIN reservation : k # q => reservation'[k] = reservation[k]
          /\ reservation'[q].minted = b /\ reservation'[q].expired = e
      BY <1>1, <2>1, Overwritten, Zenon
    <2> QED
      BY <2>1, <2>2, Zenon DEF Settled
  <1>4. CASE UNCHANGED reservation
    BY <1>4, Zenon DEF Settled
  <1> QED
    BY <1>2, <1>3, <1>4, RowWriters

\* A reservation that is minted or expired never comes back, for any number of
\* reservations and stops, though the job and the indexer save it whole.
THEOREM SettledForGood == Spec => SettledIsFinal
  <1>1. RunInv /\ [Next]_vars
          => [\A r \in DOMAIN reservation : Settled(r) => Settled(r)']_vars
    BY SettledStep
  <1> QED
    BY InitRun, NextRun, <1>1, PTL DEF Spec, SettledIsFinal
-----------------------------------------------------------------------------
(* The limit of a stage *)

LEMMA MineIsFinite ==
  ASSUME RowTypes, NEW a
  PROVE  IsFiniteSet(Mine(a)) /\ Cardinality(Mine(a)) \in Nat /\ Mine(a) \subseteq DOMAIN reservation
  <1>1. IsFiniteSet(1 .. Len(reservation)) /\ DOMAIN reservation = 1 .. Len(reservation)
    BY FS_Interval, LenProperties DEF RowTypes
  <1>2. IsFiniteSet(Mine(a)) /\ Mine(a) \subseteq DOMAIN reservation
    BY <1>1, FS_Subset DEF Mine
  <1> QED
    BY <1>2, FS_CardinalityType

\* Only a new row makes anyone's reservations more, its holder's by one.
LEMMA MineStays ==
  ASSUME RunInv, NEW a, SaveMark \/ JobSaveRow \/ UNCHANGED reservation
  PROVE  Mine(a)' = Mine(a) /\ DOMAIN reservation' = DOMAIN reservation
  <1>1. RowTypes
    BY TypeParts DEF RunInv
  <1>2. CASE SaveMark \/ JobSaveRow
    <2>1. PICK q \in DOMAIN reservation, b \in BOOLEAN, e \in BOOLEAN :
             reservation' = [reservation EXCEPT ![q].minted = b, ![q].expired = e]
      BY <1>2, MarkOrLapse, Zenon
    <2>2. /\ DOMAIN reservation' = DOMAIN reservation
          /\ \A k \in DOMAIN reservation : reservation'[k].who = reservation[k].who
      BY <1>1, <2>1, Overwritten, Zenon
    <2> QED
      BY <2>2 DEF Mine
  <1>3. CASE UNCHANGED reservation
    BY <1>3 DEF Mine
  <1> QED
    BY <1>2, <1>3

LEMMA MineGrows ==
  ASSUME RunInv, SaveReservation
  PROVE  /\ Cardinality(Mine(tx.sender)') = Cardinality(Mine(tx.sender)) + 1
         /\ Cardinality(Mine(tx.sender)) \in Nat
         /\ \A a : a # tx.sender => Mine(a)' = Mine(a)
         /\ Len(reservation') \notin DOMAIN reservation
         /\ DOMAIN reservation' = DOMAIN reservation \cup {Len(reservation')}
         /\ \A q \in DOMAIN reservation : reservation'[q] = reservation[q]
         /\ reservation'[Len(reservation')]
              = [who |-> tx.sender, minted |-> FALSE, expired |-> FALSE]
  <1> DEFINE row == [who |-> tx.sender, minted |-> FALSE, expired |-> FALSE]
             n == Len(reservation')
             s == tx.sender
  <1>1. RowTypes /\ reservation' = Append(reservation, row) /\ Busy
    BY TypeParts DEF RunInv, SaveReservation, Busy
  <1>2. tx.sender \in Addr
    BY <1>1, AtWork
  <1>3. row \in Reservation
    BY <1>2, Zenon DEF Reservation
  <1>4. row.who = s
    OBVIOUS
  <1> HIDE DEF row
  <1>5. /\ DOMAIN reservation' = DOMAIN reservation \cup {n}
        /\ n \notin DOMAIN reservation
        /\ \A q \in DOMAIN reservation : reservation'[q] = reservation[q]
        /\ reservation'[n] = row
    BY <1>1, <1>3, Inserted
  <1> HIDE DEF n, s
  <1>6. Mine(s)' = Mine(s) \cup {n} /\ n \notin Mine(s)
    <2>1. Mine(s)' = {r \in DOMAIN reservation' : reservation'[r].who = s}
      BY DEF Mine, s, tx, me, SaveReservation, Goto, loop
    <2> QED
      BY <1>4, <1>5, <2>1 DEF Mine
  <1>7. \A a : a # s => Mine(a)' = Mine(a)
    BY <1>4, <1>5 DEF Mine
  <1>8. IsFiniteSet(Mine(s)) /\ Cardinality(Mine(s)) \in Nat
    BY <1>1, MineIsFinite
  <1>9. Cardinality(Mine(s) \cup {n}) = Cardinality(Mine(s)) + 1
    BY <1>6, <1>8, FS_AddElement
  <1> QED
    BY <1>5, <1>6, <1>7, <1>8, <1>9 DEF row, n, s

\* Where a step to the reserve handler comes from.
LEMMA ToReserve ==
  ASSUME RunInv, [Next]_vars, pc' \in {"reserve", "supply"}
  PROVE  \/ Reserve /\ ReserveOK
         \/ SaveReservation
         \/ SaveSupply /\ mem.left > 1
         \/ OtherStep
  <1>1. CASE Handle
    BY <1>1 DEF Handle, Launch, SaveLaunch, Update, SaveUpdate, SaveStage, Reserve,
                InscribeAlone, InscribePremint, InscribeReserved, SavePremint,
                SaveMark, SaveInscription, SaveSupply, Check, Goto, Finish
  <1>2. CASE LoopStep
    BY <1>2 DEF LoopStep
  <1> QED
    BY <1>1, <1>2, Steps

LEMMA LimitStep == RunInv /\ WithinLimit /\ [Next]_vars => WithinLimit'
  <1> SUFFICES ASSUME RunInv, WithinLimit, [Next]_vars,
                      pc' \in {"reserve", "supply"}, stage'.limit > 0
               PROVE  Cardinality(Mine(tx.sender))' + ToInsert' <= stage'.limit
    BY DEF WithinLimit
  <1>1. CASE Reserve /\ ReserveOK
    <2>1. /\ pc' = "reserve" /\ UNCHANGED <<tables, tail, at>> /\ Busy
          /\ mem' = [Blank EXCEPT !.lp = launchpad, !.left = AmountToMint]
      BY <1>1 DEF Reserve, Check, Goto, loop, Busy
    <2>2. ToInsert' = AmountToMint
      BY <2>1 DEF ToInsert, Blank
    <2>3. Mine(tx.sender)' = Mine(tx.sender)
      BY <2>1 DEF Mine, tables, tx, me
    <2>4. stage.limit > 0 => Cardinality(Mine(tx.sender)) + AmountToMint <= stage.limit
      BY <1>1, <2>1, LeftToMint
    <2> QED
      BY <2>1, <2>2, <2>3, <2>4 DEF tables
  <1>2. CASE SaveReservation
    <2>1. pc = "reserve" /\ pc' = "supply" /\ UNCHANGED <<stage, mem>>
      BY <1>2 DEF SaveReservation, Goto
    <2>2. ToInsert = mem.left /\ ToInsert' = mem.left - 1 /\ mem.left \in Nat
      BY <2>1, TypeParts DEF ToInsert, RunInv, Mem
    <2>3. /\ Cardinality(Mine(tx.sender)') = Cardinality(Mine(tx.sender)) + 1
          /\ Cardinality(Mine(tx.sender)) \in Nat
      BY <1>2, MineGrows
    <2>4. Cardinality(Mine(tx.sender)) + mem.left <= stage.limit
      BY <2>1, <2>2 DEF WithinLimit
    <2>5. stage.limit \in Nat
      BY <2>1, TypeParts DEF RunInv, RowTypes, Running, HasRead, StageRow
    <2> QED
      BY <2>1, <2>2, <2>3, <2>4, <2>5
  <1>3. CASE SaveSupply /\ mem.left > 1
    <2>1. /\ pc = "supply" /\ pc' = "reserve" /\ UNCHANGED <<stage, reservation, tail, at>>
          /\ mem' = [mem EXCEPT !.lp.minted = (@ + 1) % Wide, !.left = @ - 1]
      BY <1>3 DEF SaveSupply, Goto, loop
    <2>2. mem \in Mem(Len(reservation))
      BY TypeParts DEF RunInv
    <2>3. mem'.left = mem.left - 1
      BY <2>1, <2>2 DEF Mem
    <2>4. Mine(tx.sender)' = Mine(tx.sender)
      BY <2>1 DEF Mine, tx, me
    <2> QED
      BY <2>1, <2>3, <2>4 DEF WithinLimit, ToInsert
  <1>4. CASE OtherStep
    <2>1. /\ UNCHANGED <<stage, tail, at, pc, mem>>
          /\ JobSaveRow \/ UNCHANGED reservation
      BY <1>4 DEF OtherStep
    <2>2. tx' = tx
      BY <2>1 DEF tx, me
    <2>3. ASSUME NEW a PROVE Mine(a)' = Mine(a)
      BY <2>1, MineStays
    <2>4. Mine(tx.sender)' = Mine(tx.sender)
      <3> DEFINE s == tx.sender
      <3>1. Mine(s)' = {r \in DOMAIN reservation' : reservation'[r].who = s}
        BY <2>2 DEF Mine
      <3>2. PICK a : a = s
        OBVIOUS
      <3>3. Mine(a)' = Mine(a)
        BY <2>3
      <3>4. Mine(a)' = {r \in DOMAIN reservation' : reservation'[r].who = a}
        BY DEF Mine
      <3> QED
        BY <3>1, <3>2, <3>3, <3>4
    <2> QED
      BY <2>1, <2>4 DEF WithinLimit, ToInsert
  <1> QED
    BY <1>1, <1>2, <1>3, <1>4, ToReserve

LEMMA LimitAction ==
  RunInv /\ WithinLimit /\ [Next]_vars =>
      \A a \in Addr :
          Mine(a)' # Mine(a) /\ stage.limit > 0 => Cardinality(Mine(a)') <= stage.limit
  <1> SUFFICES ASSUME RunInv, WithinLimit, [Next]_vars, NEW a \in Addr,
                      Mine(a)' # Mine(a), stage.limit > 0
               PROVE  Cardinality(Mine(a)') <= stage.limit
    OBVIOUS
  <1>1. SaveReservation
    BY RowWriters, MineStays
  <1>2. /\ Cardinality(Mine(tx.sender)') = Cardinality(Mine(tx.sender)) + 1
        /\ Cardinality(Mine(tx.sender)) \in Nat
        /\ tx' = tx
    BY <1>1, MineGrows DEF SaveReservation, Goto, loop, tx, me
  <1>3. a = tx.sender
    BY <1>1, MineGrows
  <1>4. pc = "reserve" /\ mem.left \in Nat /\ mem.left >= 1 /\ stage.limit \in Nat
    BY <1>1, TypeParts DEF RunInv, RowTypes, Running, HasRead, StageRow, Mem, SaveReservation
  <1>5. Cardinality(Mine(tx.sender)) + mem.left <= stage.limit
    BY <1>4 DEF WithinLimit, ToInsert
  <1>6. Mine(a)' = Mine(tx.sender)'
    BY <1>2, <1>3 DEF Mine
  <1> QED
    BY <1>2, <1>4, <1>5, <1>6

LEMMA InitLimit == Init => WithinLimit
  BY DEF Init, WithinLimit

\* No reserve for several, no expiry and no transaction run again after a stop
\* gives anyone more reservations than the stage allows, whatever the limit.
THEOREM LimitHolds == Spec => LimitKept
  <1>1. RunInv /\ WithinLimit /\ [Next]_vars
          => [\A a \in Addr : Mine(a)' # Mine(a) /\ stage.limit > 0
                  => Cardinality(Mine(a)') <= stage.limit]_vars
    BY LimitAction
  <1> QED
    BY InitRun, NextRun, InitLimit, LimitStep, <1>1, PTL DEF Spec, LimitKept
-----------------------------------------------------------------------------
(* Mints and reservations *)

LEMMA CountsAreFinite ==
  ASSUME RunInv, IsFiniteSet(Taken), NEW a \in Addr
  PROVE  /\ IsFiniteSet(Owned(a)) /\ Cardinality(Owned(a)) \in Nat
         /\ IsFiniteSet(Used(a)) /\ Cardinality(Used(a)) \in Nat
  <1>1. Owned(a) \subseteq Taken
    BY LaunchpadAssumption DEF Owned, Taken
  <1>2. IsFiniteSet(Owned(a))
    BY <1>1, FS_Subset
  <1>3. IsFiniteSet(Mine(a)) /\ Used(a) \subseteq Mine(a)
    BY TypeParts, MineIsFinite DEF RunInv, Used
  <1>4. IsFiniteSet(Used(a))
    BY <1>3, FS_Subset
  <1> QED
    BY <1>2, <1>4, FS_CardinalityType

LEMMA LapsedStays == [Next]_vars /\ ~lapsed' => ~lapsed /\ ~JobSaveRow
  <1> SUFFICES ASSUME [Next]_vars, ~lapsed' PROVE ~lapsed /\ ~JobSaveRow
    OBVIOUS
  <1>1. ~JobSaveRow
    <2>1. JobSaveRow => lapsed' = TRUE
      BY DEF JobSaveRow
    <2> QED
      BY <2>1, Zenon
  <1>2. Handle => UNCHANGED lapsed
    BY Zenon DEF Handle, Launch, SaveLaunch, Update, SaveUpdate, SaveStage, Reserve, SaveSupply,
                InscribeAlone, InscribePremint, InscribeReserved, SavePremint, SaveMark,
                SaveReservation, SaveInscription, Check, Goto, Finish, others
  <1>3. Receive \/ Again \/ NextBlock \/ Stop => UNCHANGED lapsed
    BY Zenon DEF Receive, Again, NextBlock, Stop, others
  <1>4. Job \/ JobStop => UNCHANGED lapsed
    BY <1>1, Zenon DEF Job, JobSelect, JobRead, JobSaveSupply, JobStop
  <1>5. Bot \/ HourPasses \/ RevealAges \/ UNCHANGED vars => UNCHANGED lapsed
    BY Zenon DEF Bot, BotFetch, BotMint, BotFails, HourPasses, RevealAges, vars, others
  <1>6. UNCHANGED lapsed
    BY <1>2, <1>3, <1>4, <1>5, Zenon DEF Next, Indexer
  <1> QED
    BY <1>1, <1>6, Zenon

\* Steps of a handler that insert, mark and inscribe nothing.
LEMMA OtherSaves ==
  ASSUME Handle, ~SaveReservation, ~SaveMark, ~SaveInscription
  PROVE  /\ UNCHANGED <<reservation, nft>>
         /\ pc' = "insert" => (InscribeAlone /\ tx.sender = Creator) \/ SavePremint
         /\ pc' = "mark" => InscribeReserved /\ Unminted # {}
         /\ pc' = "premint" => InscribePremint
         /\ pc # "insert"
  <1>1. UNCHANGED <<reservation, nft>>
    BY Zenon DEF Handle, Launch, SaveLaunch, Update, SaveUpdate, SaveStage, Reserve,
                SaveSupply, InscribeAlone, InscribePremint, InscribeReserved, SavePremint,
                Check, tables
  <1> QED
    BY <1>1 DEF Handle, Launch, SaveLaunch, Update, SaveUpdate, SaveStage, Reserve,
                SaveSupply, InscribeAlone, InscribePremint, InscribeReserved, SavePremint,
                Check, Goto, Finish

\* The transaction that runs stays the same while its handler does.
LEMMA SameTx == Handle /\ pc' # "idle" => tx' = tx /\ pc # "idle"
  <1> SUFFICES ASSUME Handle, pc' # "idle" PROVE UNCHANGED <<tail, at>> /\ pc # "idle"
    BY DEF tx, me
  <1> QED
    BY DEF Handle, Launch, SaveLaunch, Update, SaveUpdate, SaveStage, Reserve,
                SaveSupply, InscribeAlone, InscribePremint, InscribeReserved, SavePremint,
                SaveMark, SaveReservation, SaveInscription, Check, Goto, Finish, loop

\* What an inscription does to the counts.
LEMMA InscriptionCounts ==
  ASSUME RunInv, IsFiniteSet(Taken), SaveInscription
  PROVE  /\ IsFiniteSet(Taken)'
         /\ Cardinality(Taken') <= Cardinality(Taken) + 1
         /\ Cardinality(Taken) \in Nat /\ Cardinality(Taken') \in Nat
         /\ \A a \in Addr :
               Cardinality(Owned(a)') <= Cardinality(Owned(a)) + (IF a = tx.sender THEN 1 ELSE 0)
  <1>1. /\ pc = "insert" /\ RowTypes
        /\ \/ nft' = nft
           \/ nft[tx.token] = NoAddr /\ nft' = [nft EXCEPT ![tx.token] = tx.sender]
    BY TypeParts DEF SaveInscription, RunInv
  <1>2. tx.sender \in Addr /\ tx.token \in Token
    BY <1>1, AtWork DEF Busy
  <1> DEFINE s == tx.sender  t == tx.token
  <1>3. Taken' \subseteq Taken \cup {t}
    BY <1>1, <1>2 DEF Taken, RowTypes
  <1>4. /\ IsFiniteSet(Taken \cup {t}) /\ Cardinality(Taken \cup {t}) <= Cardinality(Taken) + 1
        /\ Cardinality(Taken) \in Nat
    BY FS_AddElement, FS_CardinalityType
  <1>5. /\ IsFiniteSet(Taken') /\ Cardinality(Taken') <= Cardinality(Taken \cup {t})
        /\ Cardinality(Taken') \in Nat /\ Cardinality(Taken \cup {t}) \in Nat
    BY <1>3, <1>4, FS_Subset, FS_CardinalityType
  <1>6. ASSUME NEW a \in Addr
        PROVE  Cardinality(Owned(a)') <= Cardinality(Owned(a)) + (IF a = s THEN 1 ELSE 0)
    <2>1. IsFiniteSet(Owned(a)) /\ Cardinality(Owned(a)) \in Nat
      BY CountsAreFinite
    <2>2. CASE a = s
      <3>1. Owned(a)' \subseteq Owned(a) \cup {t}
        BY <1>1, <1>2 DEF Owned, RowTypes
      <3>2. /\ IsFiniteSet(Owned(a) \cup {t})
            /\ Cardinality(Owned(a) \cup {t}) <= Cardinality(Owned(a)) + 1
            /\ Cardinality(Owned(a) \cup {t}) \in Nat
        <4>1. /\ IsFiniteSet(Owned(a) \cup {t})
              /\ Cardinality(Owned(a) \cup {t})
                   = IF t \in Owned(a) THEN Cardinality(Owned(a)) ELSE Cardinality(Owned(a)) + 1
          BY <2>1, FS_AddElement
        <4> QED
          BY <2>1, <4>1
      <3>3. /\ Cardinality(Owned(a)') <= Cardinality(Owned(a) \cup {t})
            /\ Cardinality(Owned(a)') \in Nat
        BY <3>1, <3>2, FS_Subset, FS_CardinalityType
      <3> QED
        BY <2>1, <2>2, <3>2, <3>3
    <2>3. CASE a # s
      <3>1. Owned(a)' = Owned(a)
        BY <1>1, <1>2, <2>3, LaunchpadAssumption DEF Owned, RowTypes
      <3> QED
        BY <2>1, <2>3, <3>1
    <2> QED
      BY <2>2, <2>3
  <1> QED
    BY <1>4, <1>5, <1>6

LEMMA MintStep == RunInv /\ MintInv /\ [Next]_vars => MintInv'
  <1> SUFFICES ASSUME RunInv, MintInv, [Next]_vars PROVE MintInv'
    OBVIOUS
  <1>1. IsFiniteSet(Taken)'
    <2>1. CASE SaveInscription
      BY <2>1, InscriptionCounts DEF MintInv
    <2>2. CASE Handle /\ ~SaveInscription
      <3>1. nft' = nft
        BY <2>2, OtherSaves DEF SaveReservation, SaveMark
      <3> QED
        BY <3>1 DEF Taken, MintInv
    <2>3. CASE LoopStep \/ OtherStep
      BY <2>3 DEF Taken, MintInv, LoopStep, OtherStep, tables
    <2> QED
      BY <2>1, <2>2, <2>3, Steps
  <1>2. pc' = "premint" => tx'.sender = Creator
    <2> SUFFICES ASSUME pc' = "premint" PROVE tx'.sender = Creator
      OBVIOUS
    <2>1. CASE Handle
      <3>1. InscribePremint
        BY <2>1, OtherSaves DEF SaveReservation, SaveMark, SaveInscription, Goto, Finish
      <3> QED
        BY <2>1, <3>1, SameTx DEF InscribePremint, BeforeStart
    <2>2. CASE OtherStep
      BY <2>2 DEF OtherStep, tx, me, MintInv
    <2>3. CASE LoopStep
      BY <2>3 DEF LoopStep
    <2> QED
      BY <2>1, <2>2, <2>3, Steps
  <1>3. ASSUME ~lapsed' PROVE /\ pc' = "mark" => ~reservation'[mem'.r].minted
                              /\ \A a \in Addr \ {Creator} :
                                    Cardinality(Owned(a)') + InHand(a)' <= Cardinality(Used(a)')
    <2> DEFINE A == Addr \ {Creator}
    <2>1. ~lapsed /\ ~JobSaveRow
      BY <1>3, LapsedStays
    <2>2. /\ pc = "mark" => ~reservation[mem.r].minted
          /\ \A a \in A : Cardinality(Owned(a)) + InHand(a) <= Cardinality(Used(a))
      BY <2>1, Zenon DEF MintInv, MarkedFirst
    <2>3. \A a \in A : Cardinality(Owned(a)) \in Nat /\ Cardinality(Used(a)) \in Nat
      BY CountsAreFinite DEF MintInv
    <2>4. ASSUME UNCHANGED <<reservation, nft>>
          PROVE  \A a \in A : Owned(a)' = Owned(a) /\ Used(a)' = Used(a)
      BY <2>4 DEF Owned, Used, Mine
    <2>5. CASE LoopStep
      <3>1. UNCHANGED <<reservation, nft>> /\ pc' \in {"idle", "run"}
        BY <2>5 DEF LoopStep, tables
      <3>2. \A a \in A : InHand(a) >= 0 /\ InHand(a)' = 0 /\ InHand(a) \in Nat
        BY <3>1 DEF InHand
      <3>3. \A a \in A : Cardinality(Owned(a)') + InHand(a)' <= Cardinality(Used(a)')
        BY <2>2, <2>3, <2>4, <3>1, <3>2
      <3> QED
        BY <3>1, <3>3
    <2>6. CASE OtherStep
      <3>1. UNCHANGED <<reservation, nft, pc, mem, tail, at>>
        BY <2>1, <2>6 DEF OtherStep
      <3>2. \A a \in A : InHand(a)' = InHand(a)
        BY <3>1 DEF InHand, tx, me
      <3>3. \A a \in A : Cardinality(Owned(a)') + InHand(a)' <= Cardinality(Used(a)')
        BY <2>2, <2>4, <3>1, <3>2
      <3>4. pc' = "mark" => ~reservation'[mem'.r].minted
        BY <2>2, <3>1
      <3> QED
        BY <3>3, <3>4
    <2>7. CASE Handle /\ ~SaveReservation /\ ~SaveMark /\ ~SaveInscription
      <3>1. UNCHANGED <<reservation, nft>>
        BY <2>7, OtherSaves
      <3>2. \A a \in A : InHand(a)' = 0 /\ InHand(a) = 0
        <4>1. pc # "insert" /\ (pc' = "insert" => tx'.sender = Creator)
          BY <2>7, OtherSaves, SameTx DEF MintInv, SavePremint
        <4> QED
          BY <4>1 DEF InHand
      <3>3. \A a \in A : Cardinality(Owned(a)') + InHand(a)' <= Cardinality(Used(a)')
        BY <2>2, <2>4, <3>1, <3>2
      <3>4. ASSUME pc' = "mark" PROVE ~reservation'[mem'.r].minted
        <4> DEFINE r == Min(Unminted)
        <4>1. InscribeReserved /\ Unminted # {}
          BY <2>7, <3>4, OtherSaves
        <4>2. mem' = [Blank EXCEPT !.r = r, !.expired = reservation[r].expired]
          BY <3>4, <4>1 DEF InscribeReserved, Check, Goto, Finish
        <4>3. mem'.r = r
          BY <4>2 DEF Blank
        <4>4. Unminted \in SUBSET Nat
          <5>1. RowTypes
            BY TypeParts DEF RunInv
          <5>2. DOMAIN reservation = 1 .. Len(reservation) /\ Len(reservation) \in Nat
            BY <5>1, LenProperties DEF RowTypes
          <5> QED
            BY <5>2 DEF Unminted, Mine
        <4>5. r \in Unminted
          BY <4>1, <4>4, SmallestIsIn
        <4> QED
          BY <3>1, <4>3, <4>5 DEF Unminted
      <3> QED
        BY <3>3, <3>4
    <2>8. CASE SaveReservation
      <3>1. pc = "reserve" /\ pc' = "supply" /\ nft' = nft
        BY <2>8 DEF SaveReservation, Goto
      <3>2. \A a \in A : Used(a)' = Used(a)
        <4> DEFINE n == Len(reservation')
                   row == [who |-> tx.sender, minted |-> FALSE, expired |-> FALSE]
        <4>1. /\ n \notin DOMAIN reservation
              /\ DOMAIN reservation' = DOMAIN reservation \cup {n}
              /\ \A q \in DOMAIN reservation : reservation'[q] = reservation[q]
              /\ reservation'[n] = row
          BY <2>8, MineGrows
        <4>2. ~reservation'[n].minted
          <5>1. row.minted = FALSE
            OBVIOUS
          <5> HIDE DEF row
          <5> QED
            BY <4>1, <5>1, Zenon
        <4> HIDE DEF n, row
        <4> QED
          BY <4>1, <4>2 DEF Used, Mine
      <3>3. \A a \in A : InHand(a)' = 0 /\ InHand(a) = 0 /\ Owned(a)' = Owned(a)
        BY <3>1 DEF InHand, Owned
      <3>4. \A a \in A : Cardinality(Owned(a)') + InHand(a)' <= Cardinality(Used(a)')
        BY <2>2, <3>2, <3>3
      <3> QED
        BY <3>1, <3>4
    <2>9. CASE SaveMark
      <3>1. pc = "mark" /\ pc' = "insert" /\ nft' = nft /\ tx' = tx
        BY <2>9 DEF SaveMark, Goto, loop, tx, me
      <3>2. mem.r \in DOMAIN reservation /\ reservation[mem.r].who = tx.sender
        BY <3>1 DEF RunInv, Running, HasRead
      <3>3. PICK b \in BOOLEAN, e \in BOOLEAN :
               reservation' = [reservation EXCEPT ![mem.r].minted = b, ![mem.r].expired = e] /\ b
        BY <2>9, MarkOrLapse, Zenon
      <3>4. RowTypes
        BY TypeParts DEF RunInv
      <3>5. /\ DOMAIN reservation' = DOMAIN reservation
            /\ \A k \in DOMAIN reservation : reservation'[k].who = reservation[k].who
            /\ \A k \in DOMAIN reservation : k # mem.r => reservation'[k] = reservation[k]
            /\ reservation'[mem.r].minted
        BY <3>2, <3>3, <3>4, Overwritten, Zenon
      <3>6. ASSUME NEW a \in A
            PROVE  Cardinality(Owned(a)') + InHand(a)' <= Cardinality(Used(a)')
        <4>1. Owned(a)' = Owned(a) /\ InHand(a) = 0 /\ a \in Addr
          BY <3>1 DEF Owned, InHand
        <4>2. /\ Cardinality(Owned(a)) <= Cardinality(Used(a))
              /\ Cardinality(Owned(a)) \in Nat /\ Cardinality(Used(a)) \in Nat
          BY <2>2, <2>3, <4>1
        <4>3. CASE a = tx.sender
          <5>1. Used(a)' = Used(a) \cup {mem.r} /\ mem.r \notin Used(a)
            BY <2>2, <3>1, <3>2, <3>5, <4>3 DEF Used, Mine
          <5>2. IsFiniteSet(Used(a))
            BY <4>1, CountsAreFinite DEF MintInv
          <5>3. Cardinality(Used(a)') = Cardinality(Used(a)) + 1
            BY <5>1, <5>2, FS_AddElement
          <5>4. InHand(a)' \in {0, 1}
            BY DEF InHand
          <5> QED
            BY <4>1, <4>2, <5>3, <5>4
        <4>4. CASE a # tx.sender
          <5>1. Used(a)' = Used(a)
            BY <3>2, <3>5, <4>4 DEF Used, Mine
          <5>2. InHand(a)' = 0
            BY <3>1, <4>4 DEF InHand
          <5> QED
            BY <4>1, <4>2, <5>1, <5>2
        <4> QED
          BY <4>3, <4>4
      <3> QED
        BY <3>1, <3>6
    <2>10. CASE SaveInscription
      <3>1. pc = "insert" /\ pc' = "idle" /\ reservation' = reservation
        BY <2>10 DEF SaveInscription, Finish
      <3>2. ASSUME NEW a \in A
            PROVE  Cardinality(Owned(a)') + InHand(a)' <= Cardinality(Used(a)')
        <4>1. Used(a)' = Used(a) /\ InHand(a)' = 0
          BY <3>1 DEF Used, Mine, InHand
        <4>2. InHand(a) = IF a = tx.sender THEN 1 ELSE 0
          BY <3>1 DEF InHand
        <4>3. Cardinality(Owned(a)') <= Cardinality(Owned(a)) + (IF a = tx.sender THEN 1 ELSE 0)
          BY <2>10, InscriptionCounts DEF MintInv
        <4>4. Cardinality(Owned(a)') \in Nat
          <5>1. RunInv' /\ IsFiniteSet(Taken)'
            BY <1>1, NextRun
          <5>2. Owned(a)' \subseteq Taken'
            BY LaunchpadAssumption DEF Owned, Taken
          <5> QED
            BY <5>1, <5>2, FS_Subset, FS_CardinalityType
        <4> QED
          BY <2>2, <2>3, <4>1, <4>2, <4>3, <4>4
      <3> QED
        BY <3>1, <3>2
    <2> QED
      BY <2>5, <2>6, <2>7, <2>8, <2>9, <2>10, Steps
  <1> QED
    BY <1>1, <1>2, <1>3, Zenon DEF MintInv, MarkedFirst

LEMMA InitMint == Init => MintInv
  <1> SUFFICES ASSUME Init PROVE MintInv
    OBVIOUS
  <1>1. Taken = {}
    BY DEF Init, Taken
  <1>2. IsFiniteSet({}) /\ Cardinality({}) = 0
    BY FS_EmptySet
  <1>3. pc = "idle" /\ reservation = <<>>
    BY DEF Init
  <1>4. ASSUME NEW a \in Addr
        PROVE  Cardinality(Owned(a)) + InHand(a) <= Cardinality(Used(a))
    <2>1. Owned(a) = {} /\ Used(a) = {} /\ InHand(a) = 0
      BY <1>3, LaunchpadAssumption DEF Init, Owned, Used, Mine, InHand
    <2> QED
      BY <1>2, <2>1
  <1>5. MarkedFirst
    BY <1>3, <1>4 DEF MarkedFirst
  <1> QED
    BY <1>1, <1>2, <1>3, <1>5 DEF MintInv

LEMMA MintsFollow == RunInv /\ MintInv => MintsAreReserved
  <1> SUFFICES ASSUME RunInv, MintInv, ~lapsed, NEW a \in Addr \ {Creator}
               PROVE  Cardinality(Owned(a)) <= Cardinality(Used(a))
    BY Zenon DEF MintsAreReserved, Owned, Used
  <1>1. Cardinality(Owned(a)) \in Nat /\ Cardinality(Used(a)) \in Nat
    BY CountsAreFinite DEF MintInv
  <1>2. Cardinality(Owned(a)) + InHand(a) <= Cardinality(Used(a))
    BY Zenon DEF MintInv, MarkedFirst
  <1>3. InHand(a) \in {0, 1}
    BY DEF InHand
  <1> QED
    BY <1>1, <1>2, <1>3

\* launchpad.go, expire_launchpad_reservations.go: with two processes that write
\* the same rows, counts stay within uint64; and until a job has overwritten a
\* row, every inscription but the creator's has used up a reservation.
THEOREM LaunchpadInvariant == Spec => []LaunchpadInv
  <1>1. RunInv /\ MintInv => LaunchpadInv
    BY MintsFollow DEF RunInv, LaunchpadInv
  <1> QED
    BY InitRun, NextRun, InitMint, MintStep, <1>1, PTL DEF Spec
-----------------------------------------------------------------------------
(* The supply, while the indexer is alone *)

LEMMA Totals ==
  ASSUME RunInv, IsFiniteSet(Taken)
  PROVE  /\ IsFiniteSet(Outstanding) /\ Cardinality(Outstanding) \in Nat
         /\ Cardinality(Taken) \in Nat
  <1>1. IsFiniteSet(1 .. Len(reservation)) /\ DOMAIN reservation = 1 .. Len(reservation)
    BY TypeParts, FS_Interval, LenProperties DEF RunInv, RowTypes
  <1>2. IsFiniteSet(Outstanding)
    BY <1>1, FS_Subset DEF Outstanding
  <1> QED
    BY <1>2, FS_CardinalityType

LEMMA Products ==
  ASSUME NEW most, Countable(most), NEW n \in 0 .. MaxTx
  PROVE  /\ n * most \in Nat /\ n * most < Wide
         /\ (n + 1) * most = n * most + most
  <1>1. most \in Nat /\ MaxTx \in Nat /\ n \in Nat /\ n <= MaxTx /\ MaxTx * most < Wide
        /\ Wide \in Nat
    BY LaunchpadAssumption DEF Countable
  <1>2. n * most \in Nat /\ MaxTx * most \in Nat /\ n * most <= MaxTx * most
    BY <1>1
  <1>3. (n + 1) * most = n * most + most
    BY <1>1
  <1> QED
    BY <1>1, <1>2, <1>3

\* While the indexer is alone nobody else writes a row, and it does not stop.
Quiet == UNCHANGED <<tables, tail, at, sent, pc, mem>>

LEMMA AloneSteps ==
  ASSUME RunInv, [Next]_vars, Alone'
  PROVE  Alone /\ (Handle \/ Receive \/ Again \/ NextBlock \/ Quiet)
  <1>1. ~lapsed /\ ~JobSaveRow
    BY LapsedStays, Zenon DEF Alone
  <1>2. ~JobSaveSupply
    BY <1>1, Zenon DEF RunInv, Running, JobReady, JobSaveSupply
  <1>3. stops \in Nat /\ stops' = 0
    BY TypeParts, LaunchpadAssumption DEF RunInv, LoopTypes, Alone
  <1>4. ~Stop /\ ~JobStop
    BY <1>3 DEF Stop, JobStop
  <1>5. CASE Handle
    <2>1. UNCHANGED stops
      BY <1>5, Zenon DEF Handle, Launch, SaveLaunch, Update, SaveUpdate, SaveStage, Reserve,
                SaveSupply, InscribeAlone, InscribePremint, InscribeReserved, SavePremint,
                SaveMark, SaveReservation, SaveInscription, Check, Goto, Finish, loop
    <2> QED
      BY <1>1, <1>3, <1>5, <2>1 DEF Alone
  <1>6. CASE Receive \/ Again \/ NextBlock
    <2>1. UNCHANGED stops
      BY <1>6, Zenon DEF Receive, Again, NextBlock
    <2> QED
      BY <1>1, <1>3, <1>6, <2>1 DEF Alone
  <1>7. CASE JobSelect \/ JobRead \/ Bot \/ HourPasses \/ RevealAges \/ UNCHANGED vars
    <2>1. UNCHANGED <<tables, loop, pc, mem>>
      BY <1>7, Zenon DEF JobSelect, JobRead, Idle, Bot, BotFetch, BotMint, BotFails,
                HourPasses, RevealAges, vars
    <2> QED
      BY <1>1, <1>3, <2>1 DEF Alone, Quiet, loop
  <1> QED
    BY <1>1, <1>2, <1>4, <1>5, <1>6, <1>7 DEF Next, Indexer, Job

LEMMA BlockEnds ==
  ASSUME RunInv, NextBlock
  PROVE  /\ Len(tail') = Len(tail) - mark /\ at' = Len(tail') + 1
         /\ \A k \in 1 .. Len(tail') : \E n \in 1 .. Len(tail) : tail'[k] = tail[n]
  <1>1. tail \in Seq(Entry) /\ mark \in 0 .. Len(tail) /\ Len(tail) \in Nat
    BY TypeParts, LenProperties DEF RunInv, LoopTypes
  <1> DEFINE m == mark + 1  n == Len(tail)
  <1>2. m \in 1 .. n + 1 /\ n \in (m - 1) .. n
    BY <1>1
  <1>3. tail' = SubSeq(tail, m, n) /\ at' = n - mark + 1
    BY DEF NextBlock
  <1> HIDE DEF m, n
  <1>4. /\ Len(SubSeq(tail, m, n)) = IF m <= n THEN n - m + 1 ELSE 0
        /\ \A k \in 1 .. n - m + 1 : SubSeq(tail, m, n)[k] = tail[m + k - 1]
    BY <1>1, <1>2, SubSeqProperties DEF n
  <1>5. Len(tail') = n - mark /\ at' = Len(tail') + 1
    BY <1>1, <1>2, <1>3, <1>4 DEF m, n
  <1>6. ASSUME NEW k \in 1 .. Len(tail') PROVE \E q \in 1 .. n : tail'[k] = tail[q]
    <2>1. k \in 1 .. n - m + 1 /\ m + k - 1 \in 1 .. n
      BY <1>1, <1>2, <1>5 DEF m, n
    <2> QED
      BY <1>3, <1>4, <2>1
  <1> QED
    BY <1>5, <1>6 DEF n

LEMMA AmountStep ==
  ASSUME NEW most, Countable(most)
  PROVE  RunInv /\ SmallAmounts(most) /\ [Next]_vars => SmallAmounts(most)'
  <1> SUFFICES ASSUME RunInv, SmallAmounts(most), [Next]_vars PROVE SmallAmounts(most)'
    OBVIOUS
  <1>1. /\ tail \in Seq(Entry) /\ queue \in Seq(Tx)
        /\ Len(tail) \in Nat /\ Len(queue) \in Nat
    BY TypeParts, LenProperties DEF RunInv, LoopTypes, OtherTypes
  <1>2. CASE UNCHANGED <<tail, queue>>
    BY <1>2 DEF SmallAmounts
  <1>3. CASE Receive
    <2>1. PICK t \in Submissions \cup ToSet(queue) :
              /\ tail' = Append(tail, [tx |-> t, height |-> height])
              /\ queue' = queue \/ (queue # <<>> /\ queue' = Tail(queue))
      BY <1>3 DEF Receive
    <2>2. t.amount <= most /\ t \in Tx
      <3>1. CASE t \in Submissions
        BY <3>1, SubmissionsAssumption DEF Countable
      <3>2. CASE t \in ToSet(queue)
        BY <1>1, <3>2, LenProperties, ElementOfSeq DEF ToSet, SmallAmounts
      <3> QED
        BY <3>1, <3>2
    <2> DEFINE e == [tx |-> t, height |-> height]
    <2>3. e \in Entry /\ e.tx.amount <= most
      BY <2>2, TypeParts DEF RunInv, LoopTypes, Entry
    <2> HIDE DEF e
    <2>4. /\ Len(tail') = Len(tail) + 1
          /\ \A n \in 1 .. Len(tail) : tail'[n] = tail[n]
          /\ tail'[Len(tail) + 1] = e
      BY <1>1, <2>1, <2>3, AppendProperties DEF e
    <2>5. \A n \in 1 .. Len(tail') : tail'[n].tx.amount <= most
      BY <1>1, <2>3, <2>4 DEF SmallAmounts
    <2>6. \A n \in 1 .. Len(queue') : queue'[n].amount <= most
      <3>1. CASE queue' = queue
        BY <3>1 DEF SmallAmounts
      <3>2. CASE queue # <<>> /\ queue' = Tail(queue)
        <4>1. /\ Len(queue') = Len(queue) - 1
              /\ \A n \in 1 .. Len(queue') : queue'[n] = queue[n + 1]
          BY <1>1, <3>2, HeadTailProperties
        <4> QED
          BY <1>1, <4>1 DEF SmallAmounts
      <3> QED
        BY <2>1, <3>1, <3>2
    <2> QED
      BY <2>5, <2>6 DEF SmallAmounts
  <1>4. CASE NextBlock
    BY <1>4, BlockEnds DEF SmallAmounts, NextBlock, others
  <1>5. CASE BotMint
    <2> DEFINE none == [supply |-> 0, start |-> 0, finish |-> 0, limit |-> 0,
                        members |-> {}, now |-> FALSE, date |-> FALSE]
    <2>1. PICK t \in Free \cap Token :
              queue' = Append(queue, [op |-> "inscribe", sender |-> reservation[Min(list)].who,
                                      meta |-> none, amount |-> 0, token |-> t, bot |-> TRUE])
      BY <1>5 DEF BotMint
    <2> HIDE DEF none
    <2> DEFINE e == [op |-> "inscribe", sender |-> reservation[Min(list)].who,
                     meta |-> none, amount |-> 0, token |-> t, bot |-> TRUE]
    <2>2. e.amount = 0 /\ queue' = Append(queue, e) /\ UNCHANGED tail
      BY <1>5, <2>1 DEF BotMint, loop
    <2> HIDE DEF e
    <2>3. /\ Len(queue') = Len(queue) + 1
          /\ \A n \in 1 .. Len(queue) : queue'[n] = queue[n]
          /\ queue'[Len(queue) + 1] = e
      <3>1. queue \in Seq(Tx \cup {e}) /\ e \in Tx \cup {e}
        BY <1>1, SeqMonotonic
      <3> QED
        BY <2>2, <3>1, AppendProperties
    <2> QED
      BY <1>1, <2>2, <2>3 DEF SmallAmounts, Countable
  <1>6. \/ UNCHANGED <<tail, queue>> \/ Receive \/ NextBlock \/ BotMint
    <2>1. CASE Handle
      BY <2>1, Zenon DEF Handle, Launch, SaveLaunch, Update, SaveUpdate, SaveStage, Reserve,
                SaveSupply, InscribeAlone, InscribePremint, InscribeReserved, SavePremint,
                SaveMark, SaveReservation, SaveInscription, Check, Goto, Finish, loop, others
    <2>2. CASE Again \/ Stop
      BY <2>2, Zenon DEF Again, Stop, others
    <2>3. CASE Job \/ JobStop \/ BotFetch \/ BotFails \/ HourPasses \/ RevealAges \/ UNCHANGED vars
      BY <2>3, Zenon DEF Job, JobSelect, JobRead, JobSaveRow, JobSaveSupply, JobStop, Idle, BotFetch,
                BotFails, HourPasses, RevealAges, vars, loop, others
    <2> QED
      BY <2>1, <2>2, <2>3 DEF Next, Indexer, Bot
  <1> QED
    BY <1>2, <1>3, <1>4, <1>5, <1>6

LEMMA SoldByLoop ==
  ASSUME NEW most, Countable(most), RunInv, MintInv, SoldInv(most),
         Receive \/ Again \/ NextBlock \/ Quiet
  PROVE  SoldInv(most)'
  <1>1. CASE Quiet
    <2>1. /\ AsRead' /\ Counted' /\ WithinSupply'
      BY <1>1 DEF Quiet, tables, SoldInv, AsRead, Counted, WithinSupply, Busy, Taken,
                  Outstanding, Settled, About, Uncounted
    <2>2. Bounded(most)'
      BY <1>1 DEF Quiet, tables, SoldInv, Bounded, Pending
    <2> QED
      BY <2>1, <2>2 DEF SoldInv
  <1>2. CASE Receive \/ Again \/ NextBlock
    <2>1. /\ pc = "idle" /\ pc' \in {"idle", "run"}
          /\ UNCHANGED <<launchpad, stage, reservation, nft>>
      BY <1>2 DEF Receive, Again, NextBlock, tables
    <2>2. /\ tail \in Seq(Entry) /\ Len(tail) \in Nat /\ sent \in 0 .. MaxTx
          /\ sent \in Nat /\ Len(tail') \in Nat
      BY TypeParts, NextRun, LenProperties, LaunchpadAssumption
         DEF RunInv, LoopTypes, Next, Indexer, Receive, Again, NextBlock, vars
    <2>3. at = Len(tail) + 1
      BY <2>1 DEF SoldInv, AsRead, Busy
    <2>4. ~Again
      BY <2>2, <2>3 DEF Again
    <2>5. IF Busy' THEN at' = Len(tail') ELSE at' = Len(tail') + 1
      <3>1. CASE Receive
        <4>1. PICK t : tail' = Append(tail, [tx |-> t, height |-> height])
          BY <3>1 DEF Receive
        <4> DEFINE e == [tx |-> t, height |-> height]
        <4>2. tail \in Seq(Entry \cup {e}) /\ e \in Entry \cup {e}
          BY <2>2, SeqMonotonic
        <4>3. Len(tail') = Len(tail) + 1
          BY <4>1, <4>2, AppendProperties
        <4> QED
          BY <2>3, <3>1, <4>3 DEF Receive, Busy
      <3>2. CASE NextBlock
        BY <3>2, BlockEnds DEF NextBlock, Busy
      <3> QED
        BY <1>2, <2>4, <3>1, <3>2
    <2>6. AsRead'
      BY <2>1, <2>5, Zenon DEF SoldInv, AsRead
    <2>7. Counted'
      BY <2>1 DEF SoldInv, Counted, Taken, Outstanding, Settled, About, Uncounted
    <2>8. WithinSupply'
      BY <2>1 DEF WithinSupply
    <2>9. Bounded(most)'
      <3>1. ASSUME launchpad # NoRow PROVE launchpad.minted <= sent * most /\ launchpad.minted \in Nat
        <4>1. launchpad.minted \in Nat
          BY <3>1, TypeParts, LaunchpadAssumption DEF RunInv, RowTypes, LaunchpadRow
        <4>2. Pending(most) = 0
          BY <2>1 DEF Pending
        <4> QED
          BY <3>1, <4>1, <4>2 DEF SoldInv, Bounded
      <3>2. CASE Receive
        <4>1. sent' = sent + 1 /\ pc' = "run"
          BY <3>2 DEF Receive
        <4>2. sent' * most = sent * most + most /\ sent * most \in Nat /\ most \in Nat
          BY <2>2, <4>1, Products DEF Countable
        <4>3. Pending(most)' = most
          BY <4>1 DEF Pending
        <4> QED
          BY <2>1, <3>1, <4>2, <4>3 DEF Bounded
      <3>3. CASE NextBlock
        <4>1. pc' = "idle" /\ sent' = sent
          BY <2>1, <3>3 DEF NextBlock
        <4>2. Pending(most)' = 0
          BY <4>1 DEF Pending
        <4> QED
          BY <2>1, <3>1, <4>1, <4>2 DEF Bounded
      <3> QED
        BY <1>2, <2>4, <3>2, <3>3
    <2> QED
      BY <2>6, <2>7, <2>8, <2>9 DEF SoldInv
  <1> QED
    BY <1>1, <1>2

\* What holds of the loop's place and the reservations at the end of a handler's
\* step that changes neither.
LEMMA PlaceStays ==
  ASSUME RunInv, AsRead, Handle
  PROVE  /\ IF Busy' THEN at' = Len(tail') ELSE at' = Len(tail') + 1
         /\ sent' = sent /\ Busy
         /\ pc' = "idle" \/ tx' = tx
  <1>1. Busy
    BY DEF Busy, Handle, Launch, SaveLaunch, Update, SaveUpdate, SaveStage, Reserve,
                SaveSupply, InscribeAlone, InscribePremint, InscribeReserved, SavePremint,
                SaveMark, SaveReservation, SaveInscription, Check
  <1>2. \/ pc' # "idle" /\ UNCHANGED <<tail, at, sent>>
        \/ pc' = "idle" /\ at' = at + 1 /\ UNCHANGED <<tail, sent>>
    BY DEF Handle, Launch, SaveLaunch, Update, SaveUpdate, SaveStage, Reserve,
                SaveSupply, InscribeAlone, InscribePremint, InscribeReserved, SavePremint,
                SaveMark, SaveReservation, SaveInscription, Check, Goto, Finish, loop
  <1>3. at = Len(tail)
    BY <1>1 DEF AsRead
  <1> QED
    BY <1>1, <1>2, <1>3 DEF Busy, tx, me

LEMMA SoldByChecks ==
  ASSUME NEW most, Countable(most), RunInv, MintInv, SmallAmounts(most), SoldInv(most),
         Launch \/ Update \/ Reserve \/ InscribeAlone \/ InscribePremint \/ InscribeReserved
  PROVE  SoldInv(most)'
  <1>1. /\ pc = "run" /\ UNCHANGED tables /\ Handle
    BY Zenon DEF Launch, Update, Reserve, InscribeAlone, InscribePremint, InscribeReserved,
                 Check, Handle
  <1>2. /\ IF Busy' THEN at' = Len(tail') ELSE at' = Len(tail') + 1
        /\ sent' = sent /\ Busy
    BY <1>1, PlaceStays DEF SoldInv
  <1>3. /\ \A r \in DOMAIN reservation' : ~reservation'[r].expired
        /\ Taken' = Taken /\ Outstanding' = Outstanding /\ About = 0 /\ Uncounted = 0
    <2>1. \A r \in DOMAIN reservation' : ~reservation'[r].expired
      BY <1>1, Zenon DEF SoldInv, AsRead, tables
    <2>2. Taken' = Taken /\ Outstanding' = Outstanding /\ About = 0 /\ Uncounted = 0
      BY <1>1 DEF tables, Taken, Outstanding, Settled, About, Uncounted
    <2> QED
      BY <2>1, <2>2
  <1>4. ASSUME launchpad # NoRow
        PROVE  /\ launchpad.minted + most <= sent * most
               /\ launchpad.minted \in Nat /\ sent * most \in Nat /\ most \in Nat \ {0}
    <2>1. launchpad.minted \in Nat
      BY <1>4, TypeParts, LaunchpadAssumption DEF RunInv, RowTypes, LaunchpadRow
    <2>2. Pending(most) = most
      BY <1>1 DEF Pending
    <2>3. sent * most \in Nat
      BY Products, TypeParts DEF RunInv, LoopTypes
    <2> QED
      BY <1>4, <2>1, <2>2, <2>3 DEF SoldInv, Bounded, Countable
  \* All that a check can put in the way: what it read, and what is to come.
  <1>5. ASSUME pc' \in {"idle", "launch", "update", "reserve", "premint", "mark", "insert"},
               pc' = "launch" => launchpad = NoRow /\ Taken = {},
               pc' \in {"update", "reserve", "premint"} => mem'.lp = launchpad,
               pc' = "mark" => ~mem'.expired,
               pc' = "insert" => launchpad = NoRow,
               pc' = "reserve" =>
                   /\ mem'.left \in Nat /\ mem'.left <= most
                   /\ launchpad.supply > 0 => launchpad.minted + mem'.left <= launchpad.supply
        PROVE  SoldInv(most)'
    <2>1. AsRead'
      BY <1>1, <1>2, <1>3, <1>5 DEF AsRead, tables
    <2>2. launchpad # NoRow => About' = 0 /\ Uncounted' = 0
      BY <1>5 DEF About, Uncounted
    <2>3. Counted'
      BY <1>1, <1>3, <2>2 DEF SoldInv, Counted, tables
    <2>4. WithinSupply'
      BY <1>1, <1>5 DEF WithinSupply, tables
    <2>5. launchpad # NoRow => Pending(most)' \in Nat /\ Pending(most)' <= most
      BY <1>4, <1>5 DEF Pending
    <2>6. Bounded(most)'
      BY <1>1, <1>2, <1>4, <2>5 DEF Bounded, tables
    <2> QED
      BY <2>1, <2>3, <2>4, <2>6 DEF SoldInv
  <1>6. CASE pc' = "idle"
    BY <1>5, <1>6
  <1>7. CASE pc' # "idle"
    <2>1. CASE Launch
      <3>1. pc' = "launch" /\ launchpad = NoRow /\ Taken = {}
        BY <1>7, <2>1 DEF Launch, Check, Goto, Finish
      <3> QED
        BY <1>5, <3>1
    <2>2. CASE Update
      <3>1. pc' = "update" /\ mem' = [Blank EXCEPT !.lp = launchpad]
        BY <1>7, <2>2 DEF Update, Check, Goto, Finish
      <3>2. mem'.lp = launchpad
        BY <3>1 DEF Blank
      <3> QED
        BY <1>5, <3>1, <3>2
    <2>3. CASE Reserve
      <3>1. /\ pc' = "reserve" /\ ReserveOK
            /\ mem' = [Blank EXCEPT !.lp = launchpad, !.left = AmountToMint]
        BY <1>7, <2>3 DEF Reserve, Check, Goto, Finish
      <3>2. mem'.lp = launchpad /\ mem'.left = AmountToMint
        BY <3>1 DEF Blank
      <3>3. /\ AmountToMint \in Nat
            /\ launchpad.supply > 0 => launchpad.minted + AmountToMint <= launchpad.supply
            /\ AmountToMint <= (IF tx.amount = 0 THEN 1 ELSE tx.amount)
        BY <1>2, <3>1, LeftToMint
      <3>4. tx.amount <= most /\ tx.amount \in Nat /\ most \in Nat \ {0}
        BY <1>2, AtWork DEF SmallAmounts, tx, me, Countable
      <3>5. AmountToMint <= most
        BY <3>3, <3>4
      <3> QED
        BY <1>5, <3>1, <3>2, <3>3, <3>5
    <2>4. CASE InscribeAlone
      <3>1. pc' = "insert" /\ launchpad = NoRow
        BY <1>7, <2>4 DEF InscribeAlone, Check, Goto, Finish
      <3> QED
        BY <1>5, <3>1
    <2>5. CASE InscribePremint
      <3>1. pc' = "premint" /\ mem' = [Blank EXCEPT !.lp = launchpad]
        BY <1>7, <2>5 DEF InscribePremint, Check, Goto, Finish
      <3>2. mem'.lp = launchpad
        BY <3>1 DEF Blank
      <3> QED
        BY <1>5, <3>1, <3>2
    <2>6. CASE InscribeReserved
      <3> DEFINE r == Min(Unminted)
      <3>1. /\ pc' = "mark" /\ Unminted # {}
            /\ mem' = [Blank EXCEPT !.r = r, !.expired = reservation[r].expired]
        BY <1>7, <2>6 DEF InscribeReserved, Check, Goto, Finish
      <3>2. DOMAIN reservation \subseteq Nat
        <4>1. DOMAIN reservation = 1 .. Len(reservation) /\ Len(reservation) \in Nat
          BY TypeParts, LenProperties DEF RunInv, RowTypes
        <4> QED
          BY <4>1
      <3>3. r \in DOMAIN reservation
        <4>1. Unminted \in SUBSET Nat /\ Unminted \subseteq DOMAIN reservation
          BY <3>2 DEF Unminted, Mine
        <4> QED
          BY <3>1, <4>1, SmallestIsIn
      <3>4. ~mem'.expired
        <4>1. mem'.expired = reservation[r].expired
          BY <3>1 DEF Blank
        <4> QED
          BY <3>3, <4>1, Zenon DEF SoldInv, AsRead
      <3> QED
        BY <1>5, <3>1, <3>4
    <2> QED
      BY <2>1, <2>2, <2>3, <2>4, <2>5, <2>6
  <1> QED
    BY <1>6, <1>7

LEMMA SoldByLaunch ==
  ASSUME NEW most, Countable(most), RunInv, MintInv, SoldInv(most),
         SaveLaunch \/ SaveUpdate \/ SaveStage
  PROVE  SoldInv(most)'
  <1>1. Handle /\ UNCHANGED <<reservation, nft>>
    BY DEF Handle, SaveLaunch, SaveUpdate, SaveStage
  <1>2. pc \in {"launch", "update", "stage"} /\ pc' \in {"stage", "idle"}
    BY DEF SaveLaunch, SaveUpdate, SaveStage, Goto, Finish
  <1>3. /\ IF Busy' THEN at' = Len(tail') ELSE at' = Len(tail') + 1
        /\ sent' = sent
    BY <1>1, PlaceStays DEF SoldInv
  <1>4. \A r \in DOMAIN reservation' : ~reservation'[r].expired
    BY <1>1, Zenon DEF SoldInv, AsRead
  <1>5. AsRead' /\ WithinSupply'
    BY <1>2, <1>3, <1>4 DEF AsRead, WithinSupply
  <1>6. /\ Taken' = Taken /\ Outstanding' = Outstanding
        /\ About = 0 /\ About' = 0 /\ Uncounted = 0 /\ Uncounted' = 0
        /\ Pending(most) = 0 /\ Pending(most)' = 0
    BY <1>1, <1>2 DEF Taken, Outstanding, Settled, About, Uncounted, Pending
  <1>7. CASE launchpad' = launchpad
    <2>1. Counted'
      BY <1>6, <1>7 DEF SoldInv, Counted
    <2>2. Bounded(most)'
      BY <1>3, <1>6, <1>7 DEF SoldInv, Bounded
    <2> QED
      BY <1>5, <2>1, <2>2 DEF SoldInv
  <1>8. CASE SaveUpdate
    <2>1. pc = "update" /\ launchpad' = LaunchRow(mem.lp.minted, mem.lp.date)
      BY <1>8 DEF SaveUpdate
    <2>2. mem.lp = launchpad /\ launchpad # NoRow
      BY <2>1 DEF SoldInv, AsRead, RunInv, Running, HasRead
    <2>3. launchpad'.minted = launchpad.minted
      BY <2>1, <2>2 DEF LaunchRow
    <2>4. Counted'
      BY <1>6, <2>2, <2>3 DEF SoldInv, Counted
    <2>5. Bounded(most)'
      BY <1>3, <1>6, <2>2, <2>3 DEF SoldInv, Bounded
    <2> QED
      BY <1>5, <2>4, <2>5 DEF SoldInv
  <1>9. CASE SaveLaunch /\ launchpad' # launchpad
    <2>1. pc = "launch" /\ launchpad' = LaunchRow(0, FALSE)
      BY <1>9 DEF SaveLaunch
    <2>2. launchpad = NoRow /\ Taken = {}
      BY <2>1 DEF SoldInv, AsRead
    <2>3. reservation = <<>>
      BY <2>2 DEF RunInv, Running
    <2>4. Outstanding = {}
      BY <2>3 DEF Outstanding
    <2>5. launchpad'.minted = 0
      BY <2>1 DEF LaunchRow
    <2>6. Cardinality({}) = 0
      BY FS_EmptySet
    <2>7. Counted'
      BY <1>6, <2>2, <2>4, <2>5, <2>6 DEF Counted
    <2>8. sent * most \in Nat
      BY Products, TypeParts DEF RunInv, LoopTypes
    <2>9. Bounded(most)'
      BY <1>3, <1>6, <2>5, <2>8 DEF Bounded
    <2> QED
      BY <1>5, <2>7, <2>9 DEF SoldInv
  <1>10. SaveStage => launchpad' = launchpad
    BY DEF SaveStage
  <1> QED
    BY <1>7, <1>8, <1>9, <1>10

\* The launchpad's row is saved with one more, which does not wrap around.
LEMMA OneMore ==
  ASSUME NEW most, Countable(most), RunInv, SoldInv(most),
         pc \in {"supply", "premint"}, launchpad' = [mem.lp EXCEPT !.minted = (@ + 1) % Wide]
  PROVE  /\ launchpad # NoRow /\ launchpad \in LaunchpadRow /\ mem.lp = launchpad
         /\ launchpad'.minted = launchpad.minted + 1 /\ launchpad'.supply = launchpad.supply
         /\ launchpad.minted \in Nat /\ launchpad.supply \in Nat
  <1>1. launchpad # NoRow /\ launchpad \in LaunchpadRow /\ mem.lp = launchpad
    BY TypeParts DEF RunInv, Running, HasRead, RowTypes, SoldInv, AsRead
  <1>2. launchpad.minted \in Nat /\ launchpad.supply \in Nat /\ Wide \in Nat \ {0}
    BY <1>1, LaunchpadAssumption DEF LaunchpadRow
  <1>3. Pending(most) \in Nat /\ Pending(most) >= 1
    <2>1. mem \in Mem(Len(reservation)) /\ (pc = "supply" => mem.left >= 1)
      BY TypeParts DEF RunInv, Running, HasRead
    <2> QED
      BY <2>1 DEF Pending, Mem
  <1>4. sent * most \in Nat /\ sent * most < Wide
    BY Products, TypeParts DEF RunInv, LoopTypes
  <1>5. launchpad.minted + Pending(most) <= sent * most
    BY <1>1 DEF SoldInv, Bounded
  <1>6. launchpad.minted + 1 < Wide
    BY <1>2, <1>3, <1>4, <1>5
  <1>7. (launchpad.minted + 1) % Wide = launchpad.minted + 1
    BY <1>2, <1>6
  <1>8. /\ launchpad'.minted = (launchpad.minted + 1) % Wide
        /\ launchpad'.supply = launchpad.supply
    BY <1>1 DEF LaunchpadRow
  <1> QED
    BY <1>1, <1>2, <1>7, <1>8

LEMMA SoldBySupply ==
  ASSUME NEW most, Countable(most), RunInv, MintInv, SoldInv(most), SaveSupply \/ SavePremint
  PROVE  SoldInv(most)'
  <1>1. /\ Handle /\ UNCHANGED <<reservation, nft>> /\ pc \in {"supply", "premint"}
        /\ launchpad' = [mem.lp EXCEPT !.minted = (@ + 1) % Wide]
    BY DEF Handle, SaveSupply, SavePremint
  <1>2. /\ IF Busy' THEN at' = Len(tail') ELSE at' = Len(tail') + 1
        /\ sent' = sent
    BY <1>1, PlaceStays DEF SoldInv
  <1>3. /\ launchpad # NoRow /\ launchpad \in LaunchpadRow /\ mem.lp = launchpad
        /\ launchpad'.minted = launchpad.minted + 1 /\ launchpad'.supply = launchpad.supply
        /\ launchpad.minted \in Nat /\ launchpad.supply \in Nat
    BY <1>1, OneMore
  <1>4. \A r \in DOMAIN reservation' : ~reservation'[r].expired
    BY <1>1, Zenon DEF SoldInv, AsRead
  <1>5. /\ Taken' = Taken /\ Outstanding' = Outstanding
        /\ Cardinality(Taken) \in Nat /\ Cardinality(Outstanding) \in Nat
    BY <1>1, Totals DEF Taken, Outstanding, Settled, MintInv
  <1>6. /\ Cardinality(Outstanding) + Cardinality(Taken) + About <= launchpad.minted + Uncounted
        /\ launchpad.minted + Pending(most) <= sent * most
        /\ sent * most \in Nat
    BY <1>3, Products, TypeParts DEF SoldInv, Counted, Bounded, RunInv, LoopTypes
  <1>7. mem \in Mem(Len(reservation)) /\ mem.left \in Nat
    BY TypeParts DEF RunInv, Mem
  <1>8. CASE SavePremint
    <2>1. pc = "premint" /\ pc' = "insert"
      BY <1>8 DEF SavePremint, Goto
    <2>2. AsRead' /\ WithinSupply'
      BY <1>2, <1>4, <2>1 DEF AsRead, WithinSupply
    <2>3. /\ About = 0 /\ About' = 1 /\ Uncounted = 0 /\ Uncounted' = 0
          /\ Pending(most) = 1 /\ Pending(most)' = 0
      BY <2>1 DEF About, Uncounted, Pending
    <2>4. Counted' /\ Bounded(most)'
      BY <1>2, <1>3, <1>5, <1>6, <2>3 DEF Counted, Bounded
    <2> QED
      BY <2>2, <2>4 DEF SoldInv
  <1>9. CASE SaveSupply
    <2>1. pc = "supply" /\ About = 0 /\ Uncounted = 1 /\ Pending(most) = mem.left /\ mem.left >= 1
      BY <1>9 DEF SaveSupply, About, Uncounted, Pending, RunInv, Running, HasRead
    <2>2. CASE mem.left > 1
      <3>1. /\ pc' = "reserve"
            /\ mem' = [mem EXCEPT !.lp.minted = (@ + 1) % Wide, !.left = @ - 1]
        BY <1>9, <2>2 DEF SaveSupply, Goto
      <3>2. mem'.left = mem.left - 1 /\ mem'.lp = launchpad'
        BY <1>1, <1>7, <3>1 DEF Mem
      <3>3. AsRead'
        BY <1>2, <1>4, <3>1, <3>2 DEF AsRead
      <3>4. WithinSupply'
        <4>1. launchpad.supply > 0 => launchpad.minted + mem.left <= launchpad.supply
          BY <2>1 DEF SoldInv, WithinSupply
        <4> QED
          BY <1>3, <1>7, <3>2, <4>1 DEF WithinSupply
      <3>5. About' = 0 /\ Uncounted' = 0 /\ Pending(most)' = mem.left - 1
        BY <3>1, <3>2 DEF About, Uncounted, Pending
      <3>6. Counted' /\ Bounded(most)'
        BY <1>2, <1>3, <1>5, <1>6, <1>7, <2>1, <3>5 DEF Counted, Bounded
      <3> QED
        BY <3>3, <3>4, <3>6 DEF SoldInv
    <2>3. CASE ~(mem.left > 1)
      <3>1. pc' = "idle"
        BY <1>9, <2>3 DEF SaveSupply, Finish
      <3>2. AsRead' /\ WithinSupply'
        BY <1>2, <1>4, <3>1 DEF AsRead, WithinSupply
      <3>3. About' = 0 /\ Uncounted' = 0 /\ Pending(most)' = 0
        BY <3>1 DEF About, Uncounted, Pending
      <3>4. Counted' /\ Bounded(most)'
        BY <1>2, <1>3, <1>5, <1>6, <1>7, <2>1, <3>3 DEF Counted, Bounded
      <3> QED
        BY <3>2, <3>4 DEF SoldInv
    <2> QED
      BY <2>2, <2>3
  <1> QED
    BY <1>8, <1>9

LEMMA SoldByReservation ==
  ASSUME NEW most, Countable(most), RunInv, MintInv, SoldInv(most), Alone,
         SaveReservation \/ SaveMark \/ SaveInscription
  PROVE  /\ SoldInv(most)'
         /\ SaveReservation =>
               /\ Cardinality(Outstanding') = Cardinality(Outstanding) + 1
               /\ launchpad # NoRow
               /\ Cardinality(Outstanding) + Cardinality(Taken) <= launchpad.minted
  <1>1. Handle /\ UNCHANGED launchpad /\ RowTypes
    BY TypeParts DEF Handle, SaveReservation, SaveMark, SaveInscription, RunInv
  <1>2. /\ IF Busy' THEN at' = Len(tail') ELSE at' = Len(tail') + 1
        /\ sent' = sent /\ Busy
    BY <1>1, PlaceStays DEF SoldInv
  <1>3. /\ IsFiniteSet(Outstanding)
        /\ Cardinality(Taken) \in Nat /\ Cardinality(Outstanding) \in Nat
    BY Totals DEF MintInv
  <1>4. launchpad # NoRow =>
            /\ Cardinality(Outstanding) + Cardinality(Taken) + About
                 <= launchpad.minted + Uncounted
            /\ launchpad.minted \in Nat
    BY <1>1, LaunchpadAssumption DEF SoldInv, Counted, RowTypes, LaunchpadRow
  <1>5. CASE SaveReservation
    <2> DEFINE n == Len(reservation')
               row == [who |-> tx.sender, minted |-> FALSE, expired |-> FALSE]
    <2>1. pc = "reserve" /\ pc' = "supply" /\ UNCHANGED <<nft, mem>>
      BY <1>5 DEF SaveReservation, Goto
    <2>2. launchpad # NoRow /\ mem.lp = launchpad
      BY <2>1 DEF RunInv, Running, HasRead, SoldInv, AsRead
    <2>3. /\ n \notin DOMAIN reservation
          /\ DOMAIN reservation' = DOMAIN reservation \cup {n}
          /\ \A q \in DOMAIN reservation : reservation'[q] = reservation[q]
          /\ reservation'[n] = row
      BY <1>5, MineGrows
    <2>4. ~reservation'[n].minted /\ ~reservation'[n].expired
      <3>1. row.minted = FALSE /\ row.expired = FALSE
        OBVIOUS
      <3> HIDE DEF row
      <3> QED
        BY <2>3, <3>1, Zenon
    <2> HIDE DEF n, row
    <2>5. Outstanding' = Outstanding \cup {n} /\ n \notin Outstanding
      BY <2>3, <2>4 DEF Outstanding, Settled
    <2>6. Cardinality(Outstanding') = Cardinality(Outstanding) + 1
      BY <1>3, <2>5, FS_AddElement
    <2>7. \A r \in DOMAIN reservation' : ~reservation'[r].expired
      <3>1. \A r \in DOMAIN reservation : ~reservation[r].expired
        BY Zenon DEF SoldInv, AsRead
      <3> QED
        BY <2>3, <2>4, <3>1, Zenon
    <2>8. AsRead'
      BY <1>1, <1>2, <2>1, <2>2, <2>7 DEF AsRead
    <2>9. About = 0 /\ About' = 0 /\ Uncounted = 0 /\ Uncounted' = 1 /\ Taken' = Taken
      BY <2>1 DEF About, Uncounted, Taken
    <2>10. Counted'
      BY <1>1, <1>3, <1>4, <2>2, <2>6, <2>9 DEF Counted
    <2>11. WithinSupply'
      BY <1>1, <2>1 DEF SoldInv, WithinSupply
    <2>12. Bounded(most)'
      BY <1>1, <1>2, <2>1 DEF SoldInv, Bounded, Pending
    <2>13. Cardinality(Outstanding) + Cardinality(Taken) <= launchpad.minted
      BY <1>3, <1>4, <2>2, <2>9
    <2>14. SoldInv(most)'
      BY <2>8, <2>10, <2>11, <2>12 DEF SoldInv
    <2> QED
      BY <2>2, <2>6, <2>13, <2>14
  <1>6. CASE SaveMark /\ ~SaveReservation
    <2>1. pc = "mark" /\ pc' = "insert" /\ nft' = nft /\ mem' = mem
      BY <1>6 DEF SaveMark, Goto
    <2>2. mem.r \in DOMAIN reservation
      BY <2>1 DEF RunInv, Running, HasRead
    <2>3. ~reservation[mem.r].minted
      BY <2>1, Zenon DEF MintInv, MarkedFirst, Alone
    <2>4. /\ \A r \in DOMAIN reservation : ~reservation[r].expired
          /\ ~mem.expired
      BY <2>1, Zenon DEF SoldInv, AsRead
    <2>5. mem.r \in Outstanding
      BY <2>2, <2>3, <2>4, Zenon DEF Outstanding, Settled
    <2>6. mem.expired \in BOOLEAN /\ reservation' = [reservation EXCEPT ![mem.r].minted = TRUE,
                                                        ![mem.r].expired = mem.expired]
      BY <1>6, TypeParts DEF SaveMark, RunInv, Mem
    <2>7. /\ DOMAIN reservation' = DOMAIN reservation
          /\ \A k \in DOMAIN reservation : k # mem.r => reservation'[k] = reservation[k]
          /\ reservation'[mem.r].minted = TRUE /\ reservation'[mem.r].expired = mem.expired
      BY <1>1, <2>2, <2>6, Overwritten, Zenon
    <2>8. reservation'[mem.r].minted /\ ~reservation'[mem.r].expired
      BY <2>4, <2>7, Zenon
    <2>9. Outstanding' = Outstanding \ {mem.r}
      BY <2>7, <2>8 DEF Outstanding, Settled
    <2>10. Cardinality(Outstanding') = Cardinality(Outstanding) - 1
      BY <1>3, <2>5, <2>9, FS_RemoveElement
    <2>11. \A r \in DOMAIN reservation' : ~reservation'[r].expired
      BY <2>4, <2>7, <2>8, Zenon
    <2>12. AsRead' /\ WithinSupply'
      BY <1>1, <1>2, <2>1, <2>11 DEF AsRead, WithinSupply
    <2>13. /\ About = 0 /\ About' = 1 /\ Uncounted = 0 /\ Uncounted' = 0 /\ Taken' = Taken
           /\ Pending(most) = 0 /\ Pending(most)' = 0
      BY <2>1 DEF About, Uncounted, Taken, Pending
    <2>14. Counted'
      BY <1>1, <1>3, <1>4, <2>10, <2>13 DEF Counted
    <2>15. Bounded(most)'
      BY <1>1, <1>2, <2>13 DEF SoldInv, Bounded
    <2> QED
      BY <1>6, <2>12, <2>14, <2>15 DEF SoldInv
  <1>7. CASE SaveInscription /\ ~SaveReservation
    <2>1. pc = "insert" /\ pc' = "idle" /\ reservation' = reservation
      BY <1>7 DEF SaveInscription, Finish
    <2>2. \A r \in DOMAIN reservation' : ~reservation'[r].expired
      BY <2>1, Zenon DEF SoldInv, AsRead
    <2>3. AsRead' /\ WithinSupply'
      BY <1>2, <2>1, <2>2 DEF AsRead, WithinSupply
    <2>4. /\ Cardinality(Taken') <= Cardinality(Taken) + 1 /\ Cardinality(Taken') \in Nat
      BY <1>7, InscriptionCounts DEF MintInv
    <2>5. /\ About = 1 /\ About' = 0 /\ Uncounted = 0 /\ Uncounted' = 0
          /\ Outstanding' = Outstanding /\ Pending(most) = 0 /\ Pending(most)' = 0
      BY <2>1 DEF About, Uncounted, Outstanding, Settled, Pending
    <2>6. Counted'
      BY <1>1, <1>3, <1>4, <2>4, <2>5 DEF Counted
    <2>7. Bounded(most)'
      BY <1>1, <1>2, <2>5 DEF SoldInv, Bounded
    <2> QED
      BY <1>7, <2>3, <2>6, <2>7 DEF SoldInv
  <1> QED
    BY <1>5, <1>6, <1>7

LEMMA AloneStep ==
  ASSUME NEW most, Countable(most)
  PROVE  RunInv /\ MintInv /\ AloneInv(most) /\ [Next]_vars => AloneInv(most)'
  <1> SUFFICES ASSUME RunInv, MintInv, AloneInv(most), [Next]_vars PROVE AloneInv(most)'
    OBVIOUS
  <1>1. SmallAmounts(most)'
    BY AmountStep DEF AloneInv
  <1>2. ASSUME Alone' PROVE SoldInv(most)'
    <2>1. Alone /\ (Handle \/ Receive \/ Again \/ NextBlock \/ Quiet)
      BY <1>2, AloneSteps
    <2>2. SoldInv(most) /\ SmallAmounts(most)
      BY <2>1 DEF AloneInv
    <2>3. CASE Receive \/ Again \/ NextBlock \/ Quiet
      BY <2>2, <2>3, SoldByLoop
    <2>4. CASE Launch \/ Update \/ Reserve \/ InscribeAlone \/ InscribePremint \/ InscribeReserved
      BY <2>2, <2>4, SoldByChecks
    <2>5. CASE SaveLaunch \/ SaveUpdate \/ SaveStage
      BY <2>2, <2>5, SoldByLaunch
    <2>6. CASE SaveSupply \/ SavePremint
      BY <2>2, <2>6, SoldBySupply
    <2>7. CASE SaveReservation \/ SaveMark \/ SaveInscription
      BY <2>1, <2>2, <2>7, SoldByReservation
    <2> QED
      BY <2>1, <2>3, <2>4, <2>5, <2>6, <2>7 DEF Handle
  <1> QED
    BY <1>1, <1>2 DEF AloneInv

LEMMA InitAlone ==
  ASSUME NEW most, Countable(most)
  PROVE  Init => AloneInv(most)
  <1> SUFFICES ASSUME Init PROVE AloneInv(most)
    OBVIOUS
  <1>1. /\ tail = <<>> /\ queue = <<>> /\ reservation = <<>> /\ Len(tail) = 0 /\ Len(queue) = 0
        /\ DOMAIN reservation = {} /\ pc = "idle" /\ at = 1 /\ launchpad = NoRow
    BY DEF Init
  <1>2. SmallAmounts(most)
    BY <1>1 DEF SmallAmounts
  <1>3. AsRead
    BY <1>1 DEF AsRead, Busy
  <1>4. Counted /\ WithinSupply /\ Bounded(most)
    BY <1>1 DEF Counted, WithinSupply, Bounded
  <1> QED
    BY <1>2, <1>3, <1>4 DEF AloneInv, SoldInv

LEMMA SoldAction ==
  ASSUME NEW most, Countable(most)
  PROVE  RunInv /\ MintInv /\ AloneInv(most) /\ [Next]_vars =>
           (reservation' # reservation /\ Len(reservation') > Len(reservation)
              /\ stops = 0 /\ ~lapsed /\ launchpad.supply > 0
            => Cardinality(Outstanding') + Cardinality(Taken) <= launchpad.supply)
  <1> SUFFICES ASSUME RunInv, MintInv, AloneInv(most), [Next]_vars,
                      Len(reservation') > Len(reservation),
                      stops = 0, ~lapsed, launchpad.supply > 0
               PROVE  Cardinality(Outstanding') + Cardinality(Taken) <= launchpad.supply
    OBVIOUS
  <1>1. Alone /\ SoldInv(most)
    BY DEF Alone, AloneInv
  <1>2. RowTypes /\ Len(reservation) \in Nat
    BY TypeParts, LenProperties DEF RunInv, RowTypes
  <1>3. SaveReservation
    <2>1. ASSUME SaveMark \/ JobSaveRow PROVE FALSE
      <3>1. PICK q \in DOMAIN reservation, b \in BOOLEAN, e \in BOOLEAN :
               reservation' = [reservation EXCEPT ![q].minted = b, ![q].expired = e]
        BY <2>1, MarkOrLapse, Zenon
      <3>2. Len(reservation') = Len(reservation)
        BY <1>2, <3>1, Overwritten, Zenon
      <3> QED
        BY <1>2, <3>2
    <2> QED
      BY <1>2, <2>1, RowWriters
  <1>4. /\ Cardinality(Outstanding') = Cardinality(Outstanding) + 1
        /\ launchpad # NoRow
        /\ Cardinality(Outstanding) + Cardinality(Taken) <= launchpad.minted
    BY <1>1, <1>3, SoldByReservation
  <1>5. Cardinality(Outstanding) \in Nat /\ Cardinality(Taken) \in Nat
    BY Totals DEF MintInv
  <1>6. pc = "reserve" /\ mem.left \in Nat /\ mem.left >= 1
    BY <1>3, TypeParts DEF SaveReservation, RunInv, Running, HasRead, Mem
  <1>7. launchpad.minted + mem.left <= launchpad.supply
    BY <1>1, <1>6 DEF SoldInv, WithinSupply
  <1>8. launchpad.minted \in Nat /\ launchpad.supply \in Nat
    BY <1>2, <1>4, LaunchpadAssumption DEF RowTypes, LaunchpadRow
  <1> QED
    BY <1>4, <1>5, <1>6, <1>7, <1>8

\* While only the indexer writes, and does not stop, a reservation is given out
\* only if there is a token left for it, through updates of the supply, mints of
\* the creator and of the bot: provided the counts do not reach 2^64.
THEOREM SupplyHolds ==
  ASSUME NEW CONSTANT most, Countable(most)
  PROVE  Spec => NotOversold
  <1>1. RunInv /\ MintInv /\ AloneInv(most) /\ [Next]_vars
          => [reservation' # reservation /\ Len(reservation') > Len(reservation)
                /\ stops = 0 /\ ~lapsed /\ launchpad.supply > 0
              => Cardinality(Outstanding') + Cardinality(Taken) <= launchpad.supply]_vars
    BY SoldAction
  <1>2. Init => AloneInv(most)
    BY InitAlone
  <1>3. RunInv /\ MintInv /\ AloneInv(most) /\ [Next]_vars => AloneInv(most)'
    BY AloneStep
  <1> QED
    BY InitRun, NextRun, InitMint, MintStep, <1>1, <1>2, <1>3, PTL DEF Spec, NotOversold
=============================================================================
