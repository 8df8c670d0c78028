------------------------- MODULE Inscriptions_proofs -------------------------
(***************************************************************************)
(* Theorems about module Inscriptions, for any transactions and any number *)
(* of restarts: its state has its types, the creator of an inscription of  *)
(* a collection is the collection's, and what is in a collection stays.    *)
(*                                                                         *)
(* CreatorsAgree is not inductive: a collection whose row was overwritten  *)
(* by another creator's would break it.  A row is written at the position  *)
(* of a fresh transaction, and no row is past what the indexer has seen.   *)
(*                                                                         *)
(* And about module Statistics, which computes the statistics of a         *)
(* collection: for any changes, periods, losses and retries, no row is     *)
(* behind the changes unless a job that will read them is to come.         *)
(***************************************************************************)
EXTENDS Inscriptions, Statistics, SequenceTheorems, TLAPS

RowsAreSeen ==
    /\ \A i \in Inscribed : i <= seen
    /\ \A c \in Collections : c <= seen

Inv == TypeOK /\ RowsAreSeen /\ CreatorsAgree

\* What TypeOK says of the chain and the indexer's place in it.
ChainOK ==
    /\ chain \in Seq(Tx) /\ Len(chain) <= MaxTx
    /\ pos \in 1 .. Len(chain) + 1 /\ seen \in 0 .. Len(chain) /\ pos <= seen + 1
    /\ stops \in 0 .. MaxStops

\* What TypeOK and the other conjuncts say of the rows.
RowsOK ==
    /\ inscription \in [Id -> Inscription \cup {NoRow}]
    /\ collection \in [Id -> Collection \cup {NoRow}]
    /\ grant \subseteq Grant
    /\ \A g \in grant : g.of \in Inscribed
    /\ \A i \in Inscribed : inscription[i].coll \in Collections \cup {0}
    /\ RowsAreSeen /\ CreatorsAgree

LEMMA Parts == ChainOK' /\ RowsOK' => Inv'
  BY DEF Inv, TypeOK, ChainOK, RowsOK

LEMMA InitInv == Init => Inv
  <1> SUFFICES ASSUME Init PROVE Inv
    OBVIOUS
  <1>1. Inscribed = {} /\ Collections = {}
    BY DEF Init, Inscribed, Collections
  <1>2. chain \in Seq(Tx) /\ Len(chain) = 0
    BY DEF Init
  <1> QED
    BY <1>1, <1>2, InscriptionsAssumption
    DEF Init, Inv, TypeOK, RowsAreSeen, CreatorsAgree

\* A transaction that is handled is one that was submitted, its position one a
\* row can have, and a fresh one is past every row.
LEMMA HandledOK ==
  ASSUME Inv, NEW o, Handled(o)
  PROVE  /\ ChainOK' /\ tx \in Tx /\ pos \in Id
         /\ seen' \in Nat /\ seen <= seen' /\ pos <= seen'
         /\ Fresh => pos \notin Inscribed /\ pos \notin Collections
  <1>1. Len(chain) \in Nat /\ pos \in 1 .. Len(chain) /\ seen \in Nat
    BY InscriptionsAssumption DEF Inv, TypeOK, Handled
  <1>2. tx \in Tx
    BY <1>1 DEF Inv, TypeOK, tx
  <1>3. pos \in Id
    BY <1>1, InscriptionsAssumption DEF Inv, TypeOK, Id
  <1>4. ChainOK' /\ seen' \in Nat /\ seen <= seen' /\ pos <= seen'
    BY <1>1, InscriptionsAssumption DEF Inv, TypeOK, ChainOK, Handled, Fresh
  <1>5. Fresh => pos \notin Inscribed /\ pos \notin Collections
    BY <1>1 DEF Inv, RowsAreSeen, Fresh
  <1> QED
    BY <1>2, <1>3, <1>4, <1>5

\* A step that keeps the rows keeps what they satisfy.
LEMMA SameRows ==
  ASSUME Inv, UNCHANGED <<inscription, collection, grant>>, seen' \in Nat, seen <= seen'
  PROVE  RowsOK'
  <1>1. Inscribed' = Inscribed /\ Collections' = Collections
    BY DEF Inscribed, Collections
  <1>2. RowsAreSeen'
    <2>1. seen \in Nat
      BY DEF Inv, TypeOK
    <2>2. Inscribed \subseteq Nat /\ Collections \subseteq Nat
      BY DEF Inscribed, Collections, Id
    <2> QED
      BY <1>1, <2>1, <2>2 DEF Inv, RowsAreSeen
  <1> QED
    BY <1>1, <1>2 DEF Inv, TypeOK, RowsOK, CreatorsAgree

\* What was seen stays seen.
LEMMA SeenLater ==
  ASSUME Inv, seen' \in Nat, seen <= seen'
  PROVE  (\A i \in Inscribed : i <= seen') /\ (\A c \in Collections : c <= seen')
  <1>1. seen \in Nat /\ Inscribed \subseteq Nat /\ Collections \subseteq Nat
    BY DEF Inscribed, Collections, Id, Inv, TypeOK
  <1> QED
    BY <1>1 DEF Inv, RowsAreSeen
-----------------------------------------------------------------------------
\* An inscription may change its owner, its content and its version; it keeps
\* its place in a collection, or has none, or enters one with its creator.
Keeps(i) ==
    \/ inscription'[i].coll = inscription[i].coll /\ inscription'[i].creator = inscription[i].creator
    \/ inscription'[i].coll = 0
    \/ /\ inscription'[i].coll \in Collections
       /\ inscription'[i].creator = collection[inscription'[i].coll].creator

\* What a step that writes inscriptions only must do.
LEMMA InscriptionsWritten ==
  ASSUME Inv, UNCHANGED <<collection, grant>>, seen' \in Nat, seen <= seen',
         inscription' \in [Id -> Inscription \cup {NoRow}],
         Inscribed \subseteq Inscribed',
         \A i \in Inscribed' : i <= seen',
         \A i \in Inscribed' :
            \/ i \in Inscribed /\ Keeps(i)
            \/ inscription'[i].coll = 0
            \/ /\ inscription'[i].coll \in Collections
               /\ inscription'[i].creator = collection[inscription'[i].coll].creator
  PROVE  RowsOK'
  <1>1. Collections' = Collections
    BY DEF Collections
  <1>2. Collections \subseteq Nat /\ seen \in Nat
    BY DEF Collections, Id, Inv, TypeOK
  <1>3. RowsAreSeen'
    BY <1>1, <1>2 DEF Inv, RowsAreSeen
  <1>4. \A i \in Inscribed' : inscription'[i].coll \in Collections' \cup {0}
    BY <1>1 DEF Inv, TypeOK, Keeps
  <1>5. CreatorsAgree'
    BY <1>1 DEF Inv, CreatorsAgree, Keeps
  <1> QED
    BY <1>3, <1>4, <1>5 DEF Inv, TypeOK, RowsOK

LEMMA InscribeInv == Inv /\ Inscribe => Inv'
  <1> SUFFICES ASSUME Inv, Inscribe PROVE ChainOK' /\ RowsOK'
    BY Parts
  <1>1. Handled("inscribe") /\ UNCHANGED <<collection, grant>>
    BY DEF Inscribe
  <1>2. /\ ChainOK' /\ tx \in Tx /\ pos \in Id
        /\ seen' \in Nat /\ seen <= seen' /\ pos <= seen'
    BY <1>1, HandledOK
  <1>3. CASE ~InscribeOK
    <2>1. UNCHANGED <<inscription, collection, grant>>
      BY <1>3 DEF Inscribe
    <2> QED
      BY <1>2, <2>1, SameRows
  <1>4. CASE InscribeOK
    <2> DEFINE row == [creator |-> IF tx.coll = 0 THEN tx.sender
                                                  ELSE collection[tx.coll].creator,
                       owner |-> tx.sender, coll |-> tx.coll, v2 |-> tx.v2,
                       content |-> tx.content, traits |-> tx.traits]
    <2>1. inscription' = [inscription EXCEPT ![pos] = row]
      BY <1>4 DEF Inscribe
    <2>2. tx.coll \in Collections \cup {0}
      BY DEF Inscribe
    <2>3. tx.coll # 0 => collection[tx.coll] \in Collection
      BY <2>2 DEF Inv, TypeOK, Collections
    <2>4. row \in Inscription
      BY <1>2, <2>3 DEF Tx, Inscription, Collection
    <2>5. row.coll = tx.coll /\ (tx.coll # 0 => row.creator = collection[tx.coll].creator)
      OBVIOUS
    <2> HIDE DEF row
    <2>6. inscription' \in [Id -> Inscription \cup {NoRow}]
      BY <2>1, <2>4 DEF Inv, TypeOK
    <2>7. \A i \in Id : inscription'[i] = IF i = pos THEN row ELSE inscription[i]
      BY <2>1 DEF Inv, TypeOK
    <2>8. Inscribed' = Inscribed \cup {pos}
      BY <1>2, <2>4, <2>7, NoRowAssumption DEF Inscribed
    <2>9. Inscribed \subseteq Id /\ Inscribed \subseteq Nat /\ seen \in Nat /\ pos \in Nat
      BY <1>2 DEF Inscribed, Id, Inv, TypeOK
    <2>10. \A i \in Inscribed' : i <= seen'
      BY <1>2, <2>8, <2>9 DEF Inv, RowsAreSeen
    <2>11. \A i \in Inscribed' :
              \/ i \in Inscribed /\ Keeps(i)
              \/ inscription'[i].coll = 0
              \/ /\ inscription'[i].coll \in Collections
                 /\ inscription'[i].creator = collection[inscription'[i].coll].creator
      BY <1>2, <2>2, <2>5, <2>7, <2>8, <2>9 DEF Keeps
    <2> QED
      BY <1>1, <1>2, <2>6, <2>8, <2>10, <2>11, InscriptionsWritten
  <1> QED
    BY <1>3, <1>4

\* A new collection is one of which there are no inscriptions yet.
LEMMA InscribeCollectionInv == Inv /\ InscribeCollection => Inv'
  <1> SUFFICES ASSUME Inv, InscribeCollection PROVE ChainOK' /\ RowsOK'
    BY Parts
  <1>1. Handled("inscribe") /\ UNCHANGED <<inscription, grant>> /\ tx.symbol # NoSymbol
    BY DEF InscribeCollection
  <1>2. /\ ChainOK' /\ tx \in Tx /\ pos \in Id
        /\ seen' \in Nat /\ seen <= seen' /\ pos <= seen'
        /\ Fresh => pos \notin Collections
    BY <1>1, HandledOK
  <1>3. CASE ~InscribeCollectionOK
    <2>1. UNCHANGED <<inscription, collection, grant>>
      BY <1>3 DEF InscribeCollection
    <2> QED
      BY <1>2, <2>1, SameRows
  <1>4. CASE InscribeCollectionOK
    <2> DEFINE row == [creator |-> tx.sender, symbol |-> tx.symbol,
                       content |-> tx.content, royalty |-> tx.royalty]
    <2>1. collection' = [collection EXCEPT ![pos] = row]
      BY <1>4 DEF InscribeCollection
    <2>2. row \in Collection
      BY <1>1, <1>2 DEF Tx, Collection
    <2> HIDE DEF row
    <2>3. pos \notin Collections
      BY <1>2, <1>4 DEF InscribeCollectionOK
    <2>4. collection' \in [Id -> Collection \cup {NoRow}]
      BY <2>1, <2>2 DEF Inv, TypeOK
    <2>5. \A c \in Id : collection'[c] = IF c = pos THEN row ELSE collection[c]
      BY <2>1 DEF Inv, TypeOK
    <2>6. Collections' = Collections \cup {pos} /\ Inscribed' = Inscribed
      BY <1>1, <1>2, <2>2, <2>5, NoRowAssumption DEF Collections, Inscribed
    <2>7. /\ Collections \subseteq Nat /\ Inscribed \subseteq Nat /\ Collections \subseteq Id
          /\ seen \in Nat /\ pos \in Nat /\ 0 \notin Id
      BY <1>2 DEF Collections, Inscribed, Id, Inv, TypeOK
    <2>8. RowsAreSeen'
      BY <1>2, <2>6, <2>7 DEF Inv, RowsAreSeen
    <2>9. \A i \in Inscribed' : inscription'[i].coll \in Collections' \cup {0}
      BY <1>1, <2>6 DEF Inv, TypeOK
    <2>10. CreatorsAgree'
      <3> SUFFICES ASSUME NEW i \in Inscribed, inscription[i].coll # 0
                   PROVE  inscription[i].creator = collection'[inscription[i].coll].creator
        BY <1>1, <2>6 DEF CreatorsAgree
      <3>1. inscription[i].coll \in Collections
        BY DEF Inv, TypeOK
      <3>2. collection'[inscription[i].coll] = collection[inscription[i].coll]
        BY <2>3, <2>5, <2>7, <3>1
      <3> QED
        BY <3>2 DEF Inv, CreatorsAgree
    <2> QED
      BY <1>1, <1>2, <2>4, <2>6, <2>8, <2>9, <2>10 DEF Inv, TypeOK, RowsOK
  <1> QED
    BY <1>3, <1>4

LEMMA TransferInv == Inv /\ Transfer => Inv'
  <1> SUFFICES ASSUME Inv, Transfer PROVE ChainOK' /\ RowsOK'
    BY Parts
  <1>1. Handled("transfer") /\ UNCHANGED <<collection, grant>>
    BY DEF Transfer
  <1>2. /\ ChainOK' /\ tx \in Tx
        /\ seen' \in Nat /\ seen <= seen'
    BY <1>1, HandledOK
  <1> DEFINE ok == tx.hash \in Inscribed /\ inscription[tx.hash].owner = tx.sender
  <1>3. CASE ~ok
    <2>1. UNCHANGED <<inscription, collection, grant>>
      BY <1>3 DEF Transfer
    <2> QED
      BY <1>2, <2>1, SameRows
  <1>4. CASE ok
    <2>1. inscription' = [inscription EXCEPT ![tx.hash] = [@ EXCEPT !.owner = tx.to]]
      BY <1>4 DEF Transfer
    <2>2. inscription[tx.hash] \in Inscription
      BY <1>4 DEF Inscribed, Inv, TypeOK
    <2>3. [inscription[tx.hash] EXCEPT !.owner = tx.to] \in Inscription
      BY <1>2, <2>2 DEF Tx, Inscription
    <2> DEFINE new == [inscription[tx.hash] EXCEPT !.owner = tx.to]
    <2>4. new.coll = inscription[tx.hash].coll /\ new.creator = inscription[tx.hash].creator
      BY <2>2 DEF Inscription
    <2> HIDE DEF new
    <2>5. \A i \in Id : inscription'[i] = IF i = tx.hash THEN new ELSE inscription[i]
      BY <2>1 DEF Inv, TypeOK, new
    <2>6. inscription' \in [Id -> Inscription \cup {NoRow}]
      BY <2>1, <2>3 DEF Inv, TypeOK
    <2>7. Inscribed' = Inscribed
      BY <1>4, <2>3, <2>5, NoRowAssumption DEF Inscribed, new
    <2>8. \A i \in Inscribed' : i \in Inscribed /\ Keeps(i)
      BY <2>4, <2>5, <2>7 DEF Keeps, Inscribed
    <2>9. \A i \in Inscribed' : i <= seen'
      BY <1>2, <2>7, SeenLater DEF Inv, RowsAreSeen
    <2> QED
      BY <1>1, <1>2, <2>6, <2>7, <2>8, <2>9, InscriptionsWritten
  <1> QED
    BY <1>3, <1>4

LEMMA UpdateCollectionInv == Inv /\ UpdateCollection => Inv'
  <1> SUFFICES ASSUME Inv, UpdateCollection PROVE ChainOK' /\ RowsOK'
    BY Parts
  <1>1. Handled("update") /\ UNCHANGED <<inscription, grant>>
    BY DEF UpdateCollection
  <1>2. /\ ChainOK' /\ tx \in Tx
        /\ seen' \in Nat /\ seen <= seen'
    BY <1>1, HandledOK
  <1> DEFINE ok == tx.v2 /\ Owned(tx.hash) /\ tx.royalty # 0
  <1>3. CASE ~ok
    <2>1. UNCHANGED <<inscription, collection, grant>>
      BY <1>3 DEF UpdateCollection
    <2> QED
      BY <1>2, <2>1, SameRows
  <1>4. CASE ok
    <2> DEFINE new == [collection[tx.hash] EXCEPT !.royalty = tx.royalty]
    <2>1. collection' = [collection EXCEPT ![tx.hash] = new]
      BY <1>4 DEF UpdateCollection
    <2>2. tx.hash \in Collections /\ collection[tx.hash] \in Collection
      BY <1>4 DEF Owned, Collections, Inv, TypeOK
    <2>3. new \in Collection /\ new.creator = collection[tx.hash].creator
      BY <1>2, <2>2 DEF Tx, Collection
    <2> HIDE DEF new
    <2>4. \A c \in Id : collection'[c] = IF c = tx.hash THEN new ELSE collection[c]
      BY <2>1 DEF Inv, TypeOK
    <2>5. collection' \in [Id -> Collection \cup {NoRow}]
      BY <2>1, <2>3 DEF Inv, TypeOK
    <2>6. Collections' = Collections /\ Inscribed' = Inscribed
      BY <1>1, <2>2, <2>3, <2>4, NoRowAssumption DEF Collections, Inscribed
    <2>7. \A c \in Collections : collection'[c].creator = collection[c].creator
      BY <2>3, <2>4 DEF Collections
    <2>8. RowsAreSeen'
      BY <1>2, <2>6, SeenLater DEF Inv, RowsAreSeen
    <2>9. \A i \in Inscribed' : inscription'[i].coll \in Collections' \cup {0}
      BY <1>1, <2>6 DEF Inv, TypeOK
    <2>10. CreatorsAgree'
      BY <1>1, <2>6, <2>7 DEF Inv, TypeOK, CreatorsAgree
    <2> QED
      BY <1>1, <1>2, <2>5, <2>6, <2>8, <2>9, <2>10 DEF Inv, TypeOK, RowsOK
  <1> QED
    BY <1>3, <1>4

LEMMA GrantInv == Inv /\ GrantMigrationPermission => Inv'
  <1> SUFFICES ASSUME Inv, GrantMigrationPermission PROVE ChainOK' /\ RowsOK'
    BY Parts
  <1>1. Handled("grant") /\ UNCHANGED <<inscription, collection>>
    BY DEF GrantMigrationPermission
  <1>2. /\ ChainOK' /\ tx \in Tx
        /\ seen' \in Nat /\ seen <= seen'
    BY <1>1, HandledOK
  <1>3. Inscribed' = Inscribed /\ Collections' = Collections
    BY <1>1 DEF Inscribed, Collections
  <1>4. grant' \subseteq Grant /\ \A g \in grant' : g.of \in Inscribed
    BY <1>2 DEF GrantMigrationPermission, GrantOK, Grant, Tx, Inv, TypeOK
  <1>5. RowsAreSeen'
    BY <1>2, <1>3, SeenLater DEF Inv, RowsAreSeen
  <1> QED
    BY <1>1, <1>2, <1>3, <1>4, <1>5 DEF Inv, TypeOK, RowsOK, CreatorsAgree

\* A row that is migrated was in no collection, and its creator is then the
\* sender, whose collection it is.
LEMMA MigrateInv == Inv /\ Migrate => Inv'
  <1> SUFFICES ASSUME Inv, Migrate PROVE ChainOK' /\ RowsOK'
    BY Parts
  <1>1. Handled("migrate") /\ UNCHANGED <<collection, grant>>
    BY DEF Migrate
  <1>2. /\ ChainOK' /\ tx \in Tx
        /\ seen' \in Nat /\ seen <= seen'
    BY <1>1, HandledOK
  <1>3. CASE ~MigrateOK
    <2>1. UNCHANGED <<inscription, collection, grant>>
      BY <1>3 DEF Migrate
    <2> QED
      BY <1>2, <2>1, SameRows
  <1>4. CASE MigrateOK
    <2>1. \A i \in Id : inscription'[i] = IF i \in tx.rows THEN Migrated(inscription[i])
                                                          ELSE inscription[i]
      BY <1>4 DEF Migrate
    <2>2. tx.coll # 0 => tx.coll \in Collections /\ collection[tx.coll].creator = tx.sender
      BY <1>4 DEF MigrateOK, Owned
    <2>3. ASSUME NEW i \in tx.rows
          PROVE  /\ i \in Inscribed /\ inscription[i] \in Inscription
                 /\ inscription[i].coll = 0
      BY <1>4, <2>3 DEF MigrateOK, NotMigrated, Inscribed, Inv, TypeOK
    <2>4. ASSUME NEW i \in tx.rows
          PROVE  /\ Migrated(inscription[i]) \in Inscription
                 /\ Migrated(inscription[i]).coll = tx.coll
                 /\ Migrated(inscription[i]).creator = tx.sender
      BY <1>2, <2>3, <2>4 DEF Migrated, Inscription, Tx
    <2>5. inscription' \in [Id -> Inscription \cup {NoRow}]
      <3>1. inscription' = [i \in Id |-> IF i \in tx.rows THEN Migrated(inscription[i])
                                                          ELSE inscription[i]]
        BY <1>4 DEF Migrate
      <3> QED
        BY <2>4, <3>1 DEF Inv, TypeOK
    <2>6. Inscribed' = Inscribed
      BY <2>1, <2>3, <2>4, NoRowAssumption DEF Inscribed
    <2>7. \A i \in Inscribed' :
             \/ i \in Inscribed /\ Keeps(i)
             \/ inscription'[i].coll = 0
             \/ /\ inscription'[i].coll \in Collections
                /\ inscription'[i].creator = collection[inscription'[i].coll].creator
      <3> SUFFICES ASSUME NEW i \in Inscribed
                   PROVE  \/ Keeps(i)
                          \/ inscription'[i].coll = 0
                          \/ /\ inscription'[i].coll \in Collections
                             /\ inscription'[i].creator
                                  = collection[inscription'[i].coll].creator
        BY <2>6
      <3>1. CASE i \in tx.rows
        BY <2>1, <2>2, <2>4, <3>1 DEF Inscribed
      <3>2. CASE i \notin tx.rows
        BY <2>1, <3>2 DEF Inscribed, Keeps
      <3> QED
        BY <3>1, <3>2
    <2>8. \A i \in Inscribed' : i <= seen'
      BY <1>2, <2>6, SeenLater DEF Inv, RowsAreSeen
    <2> QED
      BY <1>1, <1>2, <2>5, <2>6, <2>7, <2>8, InscriptionsWritten
  <1> QED
    BY <1>3, <1>4
-----------------------------------------------------------------------------
LEMMA SubmitInv == Inv /\ (\E t \in Submissions : Submit(t)) => Inv'
  <1> SUFFICES ASSUME Inv, NEW t \in Submissions, Submit(t) PROVE ChainOK' /\ RowsOK'
    BY Parts
  <1>1. t \in Tx /\ Len(chain) \in Nat /\ MaxTx \in Nat
    BY InscriptionsAssumption DEF Inv, TypeOK
  <1>2. chain' \in Seq(Tx) /\ Len(chain') = Len(chain) + 1
    BY <1>1 DEF Submit, Inv, TypeOK
  <1>3. UNCHANGED <<inscription, collection, grant>> /\ seen' \in Nat /\ seen <= seen'
    BY DEF Submit, Inv, TypeOK
  <1>4. ChainOK'
    BY <1>1, <1>2 DEF Submit, ChainOK, Inv, TypeOK
  <1> QED
    BY <1>3, <1>4, SameRows

LEMMA StopInv == Inv /\ Stop => Inv'
  <1> SUFFICES ASSUME Inv, Stop PROVE ChainOK' /\ RowsOK'
    BY Parts
  <1>1. UNCHANGED <<inscription, collection, grant>> /\ seen' \in Nat /\ seen <= seen'
    BY DEF Stop, Inv, TypeOK
  <1>2. ChainOK'
    BY InscriptionsAssumption DEF Stop, ChainOK, Inv, TypeOK
  <1> QED
    BY <1>1, <1>2, SameRows

LEMMA NextInv == Inv /\ [Next]_vars => Inv'
  <1> SUFFICES ASSUME Inv, [Next]_vars PROVE Inv'
    OBVIOUS
  <1>1. CASE \E t \in Submissions : Submit(t)
    BY <1>1, SubmitInv
  <1>2. CASE Stop
    BY <1>2, StopInv
  <1>3. CASE Process
    BY <1>3, InscribeInv, InscribeCollectionInv, TransferInv, UpdateCollectionInv,
       GrantInv, MigrateInv DEF Process
  <1>4. CASE UNCHANGED vars
    <2>1. UNCHANGED <<chain, pos, seen, inscription, collection, grant, stops>>
      BY <1>4 DEF vars
    <2>2. Inscribed' = Inscribed /\ Collections' = Collections
      BY <2>1 DEF Inscribed, Collections
    <2> QED
      BY <2>1, <2>2 DEF Inv, TypeOK, RowsAreSeen, CreatorsAgree
  <1> QED
    BY <1>1, <1>2, <1>3, <1>4 DEF Next

LEMMA Invariant == Spec => []Inv
  BY InitInv, NextInv, PTL DEF Spec

\* The variables have their types, whatever is submitted and however often the
\* indexer restarts: no grant and no inscription refers to a row that is not there.
THEOREM TypeCorrect == Spec => []TypeOK
  <1>1. Inv => TypeOK
    BY DEF Inv
  <1> QED
    BY Invariant, <1>1, PTL

\* The creator that an inscription of a collection shows is the collection's.
THEOREM CreatorsAlwaysAgree == Spec => []CreatorsAgree
  <1>1. Inv => CreatorsAgree
    BY DEF Inv
  <1> QED
    BY Invariant, <1>1, PTL

\* A step does to what is in a collection what CollectionIsFinal allows: a row
\* that is migrated was in none, and a row that is written is a new one.
LEMMA StepIsFinal ==
  ASSUME Inv, [Next]_vars, NEW i \in Inscribed, inscription[i].coll # 0
  PROVE  /\ i \in Inscribed' /\ inscription'[i].coll = inscription[i].coll
         /\ inscription'[i].creator = inscription[i].creator
  <1>1. i \in Id /\ inscription[i] \in Inscription
    BY DEF Inscribed, Inv, TypeOK
  <1>2. CASE inscription' = inscription
    BY <1>2 DEF Inscribed
  <1>3. CASE Inscribe /\ InscribeOK
    <2>1. Handled("inscribe") /\ Fresh
      BY <1>3 DEF Inscribe, InscribeOK
    <2>2. i # pos
      BY <2>1, HandledOK
    <2>3. inscription'[i] = inscription[i]
      BY <1>1, <1>3, <2>2 DEF Inscribe, Inv, TypeOK
    <2> QED
      BY <2>3 DEF Inscribed
  <1>4. CASE Transfer /\ tx.hash \in Inscribed /\ inscription[tx.hash].owner = tx.sender
    <2>1. inscription' = [inscription EXCEPT ![tx.hash] = [@ EXCEPT !.owner = tx.to]]
      BY <1>4 DEF Transfer
    <2>2. CASE i # tx.hash
      BY <1>1, <2>1, <2>2 DEF Inscribed, Inv, TypeOK
    <2>3. CASE i = tx.hash
      <3>1. inscription'[i] = [inscription[i] EXCEPT !.owner = tx.to]
        BY <1>1, <2>1, <2>3 DEF Inv, TypeOK
      <3>2. Handled("transfer") /\ tx \in Tx
        BY <1>4, HandledOK DEF Transfer
      <3>3. inscription'[i] \in Inscription
        BY <1>1, <3>1, <3>2 DEF Tx, Inscription
      <3> QED
        BY <1>1, <3>1, <3>3, NoRowAssumption DEF Inscribed, Inscription
    <2> QED
      BY <2>2, <2>3
  <1>5. CASE Migrate /\ MigrateOK
    <2>1. i \notin tx.rows
      BY <1>5 DEF MigrateOK, NotMigrated
    <2>2. inscription'[i] = inscription[i]
      BY <1>1, <1>5, <2>1 DEF Migrate
    <2> QED
      BY <2>2 DEF Inscribed
  <1>6. \/ inscription' = inscription
        \/ Inscribe /\ InscribeOK
        \/ Transfer /\ tx.hash \in Inscribed /\ inscription[tx.hash].owner = tx.sender
        \/ Migrate /\ MigrateOK
    BY DEF Next, Submit, Process, Stop, Inscribe, InscribeCollection, Transfer,
       UpdateCollection, GrantMigrationPermission, Migrate, vars
  <1> QED
    BY <1>2, <1>3, <1>4, <1>5, <1>6

\* What is in a collection stays in it, with the creator it has.
THEOREM CollectionsAreFinal == Spec => CollectionIsFinal
  <1>1. Inv /\ [Next]_vars =>
          [\A i \in Inscribed :
             inscription[i].coll # 0 =>
                 /\ i \in Inscribed' /\ inscription'[i].coll = inscription[i].coll
                 /\ inscription'[i].creator = inscription[i].creator]_vars
    BY StepIsFinal
  <1> QED
    BY Invariant, <1>1, PTL DEF Spec, CollectionIsFinal
-----------------------------------------------------------------------------
(* The statistics of a collection *)

\* The rows that a kind of job computes, and what may be left of its statements.
RowsOf(k) == IF k = "stats" THEN {"stats"} ELSE {"traits", "rarity"}
KindOf(r) == IF r = "stats" THEN "stats" ELSE "traits"
Lefts(k) ==
    IF k = "stats" THEN {<<"stats">>, <<>>} ELSE {<<"traits", "rarity">>, <<"rarity">>, <<>>}
RowsIn(l) == {l[i] : i \in 1 .. Len(l)}

\* A job is begun when it is due, which is never in its own period, and reads
\* for the first of the statements it has left.
JobOK(k, p, j) ==
    /\ j \in Job
    /\ j.at # 0 => j.at >= (p + 1) * DebouncePeriod
    /\ j.at = 0 => j.left = <<>>
    /\ j.left \in Lefts(k)
    /\ j.running => j.left # <<>>
    /\ j.read => j.running /\ j.snap <= data[Head(j.left)]
    /\ j.at # 0 /\ (j.running \/ j.left # Statements(k)) => j.at <= now

DataInv ==
    /\ data \in [Row -> 0 .. MaxChanges]
    /\ shown \in [Row -> 0 .. MaxChanges]
    /\ \A r \in Row : shown[r] <= data[r] /\ data[r] <= data["stats"]

WholeInv ==
    /\ whole \in Job
    /\ whole.read => whole.running
    /\ whole.snap <= data["stats"]

CountsInv ==
    /\ now \in 0 .. MaxTime + DebouncePeriod
    /\ asked \subseteq Kind /\ excused \in BOOLEAN
    /\ lost \in 0 .. MaxLost /\ retries \in 0 .. MaxRetries

JobsInv ==
    /\ job \in [Kind \X Period -> Job]
    /\ \A k \in Kind, p \in Period : JobOK(k, p, job[<<k, p>>])

\* No two are at work on a row, unless this has been noted.
Apart ==
    ~excused =>
        /\ \A k \in Kind : \A p, q \in Period :
              job[<<k, p>>].running /\ job[<<k, q>>].running => p = q
        /\ \A p \in Period : job[<<"stats", p>>].running => ~whole.running

\* Somebody will read for a row, and what has been read and not yet written.
Reads(j, r) == j.read /\ Head(j.left) = r
ToRead(r) ==
    \/ \E p \in Period :
          LET j == job[<<KindOf(r), p>>] IN r \in RowsIn(j.left) /\ ~Reads(j, r)
    \/ r = "stats" /\ whole.running /\ ~whole.read
Held(r, n) ==
    \/ \E p \in Period : LET j == job[<<KindOf(r), p>>] IN Reads(j, r) /\ j.snap = n
    \/ r = "stats" /\ whole.read /\ whole.snap = n

\* The changes of a row are asked about, will be read, or have been by all who
\* are about to write, and otherwise are in the row.
Covered(r) ==
    \/ KindOf(r) \in asked
    \/ ToRead(r)
    \/ /\ \A n \in 0 .. MaxChanges : Held(r, n) => n = data[r]
       /\ Held(r, data[r]) \/ shown[r] = data[r]

Caught == ~excused => \A r \in Row : Covered(r)

RowInv == DataInv /\ WholeInv /\ CountsInv /\ JobsInv
StatsIInv == RowInv /\ Apart /\ Caught
-----------------------------------------------------------------------------
(* Statements and periods *)

LEMMA LeftFacts ==
  ASSUME NEW k \in Kind, NEW l \in Lefts(k)
  PROVE  /\ l \in Seq(Row) /\ RowsIn(l) \subseteq RowsOf(k)
         /\ l # <<>> =>
               /\ Head(l) \in RowsOf(k) /\ Tail(l) \in Lefts(k)
               /\ RowsIn(l) = {Head(l)} \cup RowsIn(Tail(l))
               /\ Head(l) \notin RowsIn(Tail(l))
               /\ Len(l) > 1 <=> Tail(l) # <<>>
  <1>1. RowsIn(<<>>) = {}
    BY DEF RowsIn
  <1>2. RowsIn(<<"stats">>) = {"stats"} /\ RowsIn(<<"rarity">>) = {"rarity"}
    BY DEF RowsIn
  <1>3. RowsIn(<<"traits", "rarity">>) = {"traits", "rarity"}
    <2>1. Len(<<"traits", "rarity">>) = 2
      OBVIOUS
    <2>2. 1 .. 2 = {1, 2}
      OBVIOUS
    <2> QED
      BY <2>1, <2>2 DEF RowsIn
  <1>4. CASE l = <<>>
    BY <1>1, <1>4, EmptySeq DEF Row
  <1>5. CASE l = <<"stats">> /\ k = "stats"
    <2>1. Head(l) = "stats" /\ Tail(l) = <<>> /\ Len(l) = 1 /\ l \in Seq(Row)
      BY <1>5 DEF Row
    <2> QED
      BY <1>1, <1>2, <1>5, <2>1 DEF RowsOf, Lefts
  <1>6. CASE l = <<"rarity">> /\ k = "traits"
    <2>1. Head(l) = "rarity" /\ Tail(l) = <<>> /\ Len(l) = 1 /\ l \in Seq(Row)
      BY <1>6 DEF Row
    <2> QED
      BY <1>1, <1>2, <1>6, <2>1 DEF RowsOf, Lefts
  <1>7. CASE l = <<"traits", "rarity">> /\ k = "traits"
    <2>1. Head(l) = "traits" /\ Tail(l) = <<"rarity">> /\ Len(l) = 2 /\ l \in Seq(Row)
      BY <1>7 DEF Row
    <2> QED
      BY <1>2, <1>3, <1>7, <2>1 DEF RowsOf, Lefts
  <1> QED
    BY <1>4, <1>5, <1>6, <1>7 DEF Lefts, Kind

LEMMA StatementsFacts ==
  ASSUME NEW k \in Kind
  PROVE  /\ Statements(k) \in Lefts(k) /\ Statements(k) # <<>>
         /\ RowsIn(Statements(k)) = RowsOf(k)
  <1>1. 1 .. 2 = {1, 2} /\ Len(<<"traits", "rarity">>) = 2 /\ Len(<<"stats">>) = 1
    OBVIOUS
  <1> QED
    BY <1>1 DEF Statements, Lefts, RowsOf, RowsIn, Kind

\* A job asked for now is of a period there is, and due after it.
LEMMA PeriodFacts ==
  ASSUME now \in Nat, now <= MaxTime
  PROVE  /\ PeriodOf(now) \in Period /\ PeriodOf(now) \in Nat
         /\ (PeriodOf(now) + 1) * DebouncePeriod > now
         /\ Due \in Nat /\ Due >= (PeriodOf(now) + 1) * DebouncePeriod
  <1> DEFINE d == DebouncePeriod
             q == now \div d
             m == MaxTime \div d
  <1>1. d \in Nat /\ d > 0 /\ MaxTime \in Nat
    BY StatisticsAssumption
  <1> HIDE DEF d
  <1>2. \A a \in Nat : /\ a \div d \in Nat
                       /\ d * (a \div d) <= a /\ a < d * (a \div d) + d
    <2> SUFFICES ASSUME NEW a \in Nat
                 PROVE  /\ a \div d \in Nat
                        /\ d * (a \div d) <= a /\ a < d * (a \div d) + d
      OBVIOUS
    <2>1. a \div d \in Int /\ a = d * (a \div d) + (a % d) /\ a % d \in 0 .. d - 1
      BY <1>1
    <2>2. a \div d >= 0
      BY <1>1
    <2> QED
      BY <1>1, <2>1, <2>2
  <1>3. q \in Nat /\ d * q <= now /\ now < d * q + d
    BY <1>2
  <1>4. m \in Nat /\ d * m <= MaxTime /\ MaxTime < d * m + d
    BY <1>1, <1>2
  <1> HIDE DEF q, m
  <1>5. (q + 1) * d = d * q + d /\ d * q \in Nat
    BY <1>1, <1>3
  <1>6. q <= m
    <2> SUFFICES ASSUME q > m PROVE FALSE
      BY <1>3, <1>4
    <2>1. PICK x \in Nat : q = m + 1 + x
      <3>1. q - m - 1 \in Nat /\ q = m + 1 + (q - m - 1)
        BY <1>3, <1>4
      <3> QED
        BY <3>1
    <2>2. d * q = d * m + d + d * x /\ d * x \in Nat /\ d * m \in Nat
      BY <1>1, <1>4, <2>1
    <2> QED
      BY <1>1, <1>3, <1>4, <2>2
  <1>7. PeriodOf(now) = q /\ Period = 0 .. m
    BY DEF PeriodOf, Period, q, m, d
  <1>8. Due = now + d
    BY DEF Due, d
  <1>9. (q + 1) * d > now /\ now + d >= (q + 1) * d /\ now + d \in Nat
    BY <1>1, <1>3, <1>5
  <1> QED
    BY <1>3, <1>4, <1>6, <1>7, <1>8, <1>9 DEF d
-----------------------------------------------------------------------------
(* The rows and the queue *)

LEMMA InitStats == StatsInit => StatsIInv
  <1> SUFFICES ASSUME StatsInit PROVE StatsIInv
    OBVIOUS
  <1>1. /\ 0 \in 0 .. MaxChanges /\ 0 \in 0 .. MaxTime + DebouncePeriod
        /\ 0 \in 0 .. MaxLost /\ 0 \in 0 .. MaxRetries
    BY StatisticsAssumption
  <1>2. NoJob \in Job /\ NoJob.left = <<>> /\ NoJob.at = 0 /\ ~NoJob.running /\ ~NoJob.read
        /\ NoJob.snap = 0
    BY <1>1 DEF NoJob, Job
  <1>3. DataInv /\ WholeInv /\ CountsInv
    <2>1. data["stats"] = 0 /\ \A r \in Row : data[r] = 0 /\ shown[r] = 0
      BY DEF StatsInit, Row
    <2>2. DataInv
      BY <1>1, <2>1 DEF StatsInit, DataInv
    <2>3. WholeInv
      BY <1>2, <2>1 DEF StatsInit, WholeInv
    <2>4. CountsInv
      BY <1>1 DEF StatsInit, CountsInv
    <2> QED
      BY <2>2, <2>3, <2>4
  <1>4. \A k \in Kind : <<>> \in Lefts(k)
    BY DEF Kind, Lefts
  <1>5. JobsInv
    BY <1>2, <1>4 DEF StatsInit, JobsInv, JobOK
  <1>6. Apart
    BY <1>2 DEF StatsInit, Apart
  <1>7. Caught
    BY <1>2 DEF StatsInit, Caught, Covered, Held, Reads, KindOf, Kind
  <1> QED
    BY <1>3, <1>5, <1>6, <1>7 DEF StatsIInv, RowInv

LEMMA JobAt ==
  ASSUME RowInv, NEW k \in Kind, NEW p \in Period
  PROVE  /\ job[<<k, p>>] \in Job /\ JobOK(k, p, job[<<k, p>>])
         /\ job[<<k, p>>].left \in Lefts(k)
  BY DEF RowInv, JobsInv, JobOK

\* Jobs that stay as they are, as time passes and rows change.
LEMMA SameJobs ==
  ASSUME JobsInv, UNCHANGED job, DataInv, DataInv', now \in Nat, now' \in Nat, now <= now',
         \A r \in Row : data[r] <= data'[r]
  PROVE  JobsInv'
  <1> SUFFICES ASSUME NEW k \in Kind, NEW p \in Period
               PROVE  JobOK(k, p, job[<<k, p>>])'
    BY DEF JobsInv
  <1> DEFINE j == job[<<k, p>>]
  <1>1. JobOK(k, p, j) /\ j' = j
    BY DEF JobsInv
  <1>2. j \in Job /\ j.at \in Nat /\ j.snap \in Nat /\ j.left \in Lefts(k)
    BY <1>1, StatisticsAssumption DEF JobOK, Job
  <1>3. j.left # <<>> => Head(j.left) \in Row
    BY <1>2, LeftFacts DEF RowsOf, Row
  <1>4. j.read => j.snap <= data'[Head(j.left)]
    <2> SUFFICES ASSUME j.read PROVE j.snap <= data'[Head(j.left)]
      OBVIOUS
    <2>1. j.snap <= data[Head(j.left)] /\ Head(j.left) \in Row
      BY <1>1, <1>3 DEF JobOK
    <2>2. data[Head(j.left)] \in Nat /\ data'[Head(j.left)] \in Nat
      BY <2>1, StatisticsAssumption DEF DataInv
    <2> QED
      BY <1>2, <2>1, <2>2
  <1> HIDE DEF j
  <1>5. JobOK(k, p, j)'
    BY <1>1, <1>2, <1>4 DEF JobOK
  <1> QED
    BY <1>5 DEF j

\* One that changes, to what a job can be.
LEMMA OneJob ==
  ASSUME JobsInv, NEW k \in Kind, NEW p \in Period, NEW j,
         job' = [job EXCEPT ![<<k, p>>] = j], JobOK(k, p, j), UNCHANGED <<now, data>>
  PROVE  JobsInv'
  <1>1. <<k, p>> \in Kind \X Period /\ j \in Job
    BY DEF JobOK
  <1>2. job' \in [Kind \X Period -> Job]
    BY <1>1 DEF JobsInv
  <1>3. ASSUME NEW l \in Kind, NEW q \in Period
        PROVE  JobOK(l, q, job[<<l, q>>])'
    <2>1. CASE <<l, q>> = <<k, p>>
      <3>1. l = k /\ q = p /\ job'[<<l, q>>] = j
        BY <1>1, <2>1 DEF JobsInv
      <3> QED
        BY <3>1 DEF JobOK
    <2>2. CASE <<l, q>> # <<k, p>>
      <3>1. job'[<<l, q>>] = job[<<l, q>>]
        BY <1>1, <2>2 DEF JobsInv
      <3> QED
        BY <3>1 DEF JobsInv, JobOK
    <2> QED
      BY <2>1, <2>2
  <1> QED
    BY <1>2, <1>3 DEF JobsInv
-----------------------------------------------------------------------------
(* Every step keeps the rows and the queue in order *)

\* What the invariant says of numbers, for arithmetic.
LEMMA Numbers ==
  ASSUME RowInv
  PROVE  /\ now \in Nat /\ \A r \in Row : data[r] \in Nat /\ shown[r] \in Nat
         /\ \A j \in Job : j.at \in Nat /\ j.snap \in Nat /\ j.running \in BOOLEAN
                           /\ j.read \in BOOLEAN
         /\ MaxChanges \in Nat /\ MaxTime \in Nat /\ DebouncePeriod \in Nat \ {0}
         /\ "stats" \in Row /\ 0 \in 0 .. MaxChanges
  <1>1. MaxChanges \in Nat /\ MaxTime \in Nat /\ DebouncePeriod \in Nat \ {0}
    BY StatisticsAssumption
  <1>2. now \in Nat
    BY <1>1 DEF RowInv, CountsInv
  <1>3. \A r \in Row : data[r] \in Nat /\ shown[r] \in Nat
    BY <1>1 DEF RowInv, DataInv
  <1>4. \A j \in Job : j.at \in Nat /\ j.snap \in Nat /\ j.running \in BOOLEAN
                       /\ j.read \in BOOLEAN
    BY <1>1 DEF Job
  <1>5. 0 \in 0 .. MaxChanges
    BY <1>1
  <1> QED
    BY <1>1, <1>2, <1>3, <1>4, <1>5 DEF Row

LEMMA PassRows == ASSUME RowInv, Pass PROVE RowInv'
  <1>1. now \in Nat /\ now' = now + 1 /\ now' \in 0 .. MaxTime + DebouncePeriod
    BY Numbers DEF Pass
  <1>2. DataInv' /\ WholeInv' /\ CountsInv'
    BY <1>1 DEF Pass, RowInv, DataInv, WholeInv, CountsInv
  <1>3. JobsInv'
    BY <1>1, <1>2, SameJobs, Numbers DEF Pass, RowInv, DataInv
  <1> QED
    BY <1>2, <1>3 DEF RowInv

LEMMA ChangeRows == ASSUME RowInv, NEW c \in Changes, Change(c) PROVE RowInv'
  <1>1. c \in {"inscribe", "market", "transfer"}
    BY StatisticsAssumption
  <1>2. "stats" \in Changed(c) /\ Asks(c) \subseteq Kind
    BY <1>1 DEF Changed, Asks, Kind, Row
  <1>3. \A r \in Row : /\ data'[r] = IF r \in Changed(c) THEN data[r] + 1 ELSE data[r]
                       /\ data[r] <= data["stats"] /\ data["stats"] < MaxChanges
                       /\ data[r] \in Nat /\ shown[r] \in Nat /\ shown[r] <= data[r]
    BY Numbers DEF Change, RowInv, DataInv
  <1>4. \A r \in Row : /\ data'[r] \in 0 .. MaxChanges /\ data[r] <= data'[r]
                       /\ data'[r] <= data["stats"] + 1 /\ shown[r] <= data'[r]
    BY <1>3, Numbers
  <1>5. data'["stats"] = data["stats"] + 1
    BY <1>2, <1>3, Numbers
  <1>6. data' \in [Row -> 0 .. MaxChanges]
    BY <1>4 DEF Change
  <1>7. DataInv'
    BY <1>4, <1>5, <1>6 DEF Change, RowInv, DataInv
  <1>8. WholeInv'
    <2>1. whole.snap \in Nat /\ whole.snap <= data["stats"]
      BY Numbers DEF RowInv, WholeInv
    <2>2. whole.snap <= data'["stats"]
      BY <1>5, <2>1, Numbers
    <2> QED
      BY <2>2 DEF Change, RowInv, WholeInv
  <1>9. CountsInv'
    BY <1>2 DEF Change, RowInv, CountsInv
  <1>10. JobsInv'
    BY <1>4, <1>7, SameJobs, Numbers DEF Change, RowInv
  <1> QED
    BY <1>7, <1>8, <1>9, <1>10 DEF RowInv

\* What a job becomes when it is inserted, begun, reads, writes or fails.
LEMMA InsertRows == ASSUME RowInv, NEW k \in Kind, Insert(k) PROVE RowInv'
  <1>1. DataInv' /\ WholeInv' /\ CountsInv'
    BY DEF Insert, RowInv, DataInv, WholeInv, CountsInv
  <1>2. CASE job[<<k, PeriodOf(now)>>].at # 0
    <2>1. UNCHANGED job /\ UNCHANGED <<now, data>>
      BY <1>2 DEF Insert
    <2>2. JobsInv'
      BY <1>1, <2>1, SameJobs, Numbers DEF RowInv
    <2> QED
      BY <1>1, <2>2 DEF RowInv
  <1>3. CASE job[<<k, PeriodOf(now)>>].at = 0
    <2> DEFINE p == PeriodOf(now)
               j == [NoJob EXCEPT !.at = Due, !.left = Statements(k)]
    <2>1. p \in Period /\ p \in Nat /\ (p + 1) * DebouncePeriod > now /\ Due \in Nat
          /\ Due >= (p + 1) * DebouncePeriod /\ now <= MaxTime /\ now \in Nat
      BY PeriodFacts, Numbers DEF Insert
    <2>2. Statements(k) \in Lefts(k) /\ Statements(k) \in Seq(Row) /\ Statements(k) # <<>>
      BY StatementsFacts, LeftFacts
    <2>3. j \in Job /\ j.at = Due /\ j.left = Statements(k) /\ ~j.running /\ ~j.read
      BY <2>1, <2>2, Numbers DEF NoJob, Job
    <2>4. j.at # 0
      <3>1. (p + 1) * DebouncePeriod \in Nat
        BY <2>1, Numbers
      <3> QED
        BY <2>1, <3>1
    <2>5. JobOK(k, p, j)
      BY <2>1, <2>2, <2>3, <2>4 DEF JobOK
    <2>6. job' = [job EXCEPT ![<<k, p>>] = j] /\ UNCHANGED <<now, data>>
      BY <1>3 DEF Insert
    <2> HIDE DEF j, p
    <2>7. JobsInv'
      BY <2>1, <2>5, <2>6, OneJob DEF RowInv
    <2> QED
      BY <1>1, <2>7 DEF RowInv
  <1> QED
    BY <1>2, <1>3

LEMMA LoseRows == ASSUME RowInv, Lose PROVE RowInv'
  <1>1. lost' \in 0 .. MaxLost
    BY StatisticsAssumption DEF Lose, RowInv, CountsInv
  <1>2. DataInv' /\ WholeInv' /\ CountsInv'
    BY <1>1 DEF Lose, RowInv, DataInv, WholeInv, CountsInv
  <1>3. JobsInv'
    <2>1. UNCHANGED job /\ UNCHANGED <<now, data>>
      BY DEF Lose
    <2> QED
      BY <1>2, <2>1, SameJobs, Numbers DEF RowInv
  <1> QED
    BY <1>2, <1>3 DEF RowInv

LEMMA BeginRows == ASSUME RowInv, NEW k \in Kind, NEW p \in Period, Begin(k, p) PROVE RowInv'
  <1> DEFINE j == [job[<<k, p>>] EXCEPT !.running = TRUE]
  <1>1. <<k, p>> \in Kind \X Period /\ job[<<k, p>>] \in Job /\ JobOK(k, p, job[<<k, p>>])
    BY JobAt
  <1>2. JobOK(k, p, j)
    BY <1>1 DEF Begin, JobOK, Job
  <1>3. job' = [job EXCEPT ![<<k, p>>] = j]
    BY DEF Begin
  <1> HIDE DEF j
  <1>4. JobsInv'
    BY <1>2, <1>3, OneJob DEF RowInv, Begin
  <1>5. excused' \in BOOLEAN
    BY DEF Begin, RowInv, CountsInv
  <1> QED
    BY <1>4, <1>5 DEF Begin, RowInv, DataInv, WholeInv, CountsInv

LEMMA ReadRows == ASSUME RowInv, NEW k \in Kind, NEW p \in Period, Read(k, p) PROVE RowInv'
  <1> DEFINE o == job[<<k, p>>]
             j == [o EXCEPT !.read = TRUE, !.snap = data[Head(o.left)]]
  <1>1. <<k, p>> \in Kind \X Period /\ o \in Job /\ JobOK(k, p, o) /\ o.left # <<>>
    BY JobAt DEF Read, JobOK
  <1>2. Head(o.left) \in Row
    BY <1>1, LeftFacts DEF JobOK, RowsOf, Row
  <1>3. data[Head(o.left)] \in 0 .. MaxChanges /\ data[Head(o.left)] <= data[Head(o.left)]
    BY <1>2, Numbers DEF RowInv, DataInv
  <1>4. job' = [job EXCEPT ![<<k, p>>] = j] /\ o.running
    BY <1>1 DEF Read, RowInv, JobsInv
  <1> HIDE DEF o
  <1>5. j \in Job /\ j.at = o.at /\ j.left = o.left /\ j.running = o.running /\ j.read
        /\ j.snap = data[Head(o.left)]
    BY <1>1, <1>3 DEF Job
  <1> HIDE DEF j
  <1>6. JobOK(k, p, j)
    BY <1>1, <1>3, <1>4, <1>5 DEF JobOK
  <1>7. JobsInv'
    BY <1>4, <1>6, OneJob DEF RowInv, Read
  <1> QED
    BY <1>7 DEF Read, RowInv, DataInv, WholeInv, CountsInv

\* A row that is written is one that is there.
LEMMA WrittenRow ==
  ASSUME RowInv, NEW r \in Row, NEW n \in Nat, n <= data[r],
         shown' = [shown EXCEPT ![r] = n], UNCHANGED data
  PROVE  DataInv'
  <1>1. n \in 0 .. MaxChanges
    <2>1. data[r] \in 0 .. MaxChanges
      BY DEF RowInv, DataInv
    <2> QED
      BY <2>1, Numbers
  <1>2. shown' \in [Row -> 0 .. MaxChanges]
    BY <1>1 DEF RowInv, DataInv
  <1>3. \A s \in Row : shown'[s] <= data[s]
    BY DEF RowInv, DataInv
  <1> QED
    BY <1>2, <1>3 DEF RowInv, DataInv

LEMMA WriteRows == ASSUME RowInv, NEW k \in Kind, NEW p \in Period, Write(k, p) PROVE RowInv'
  <1> DEFINE o == job[<<k, p>>]
             j == [o EXCEPT !.left = Tail(o.left), !.read = FALSE, !.snap = 0,
                            !.running = Len(o.left) > 1]
  <1>1. <<k, p>> \in Kind \X Period /\ o \in Job /\ JobOK(k, p, o) /\ o.left # <<>>
    BY JobAt DEF Write, JobOK
  <1>2. /\ Head(o.left) \in Row /\ Tail(o.left) \in Lefts(k) /\ Tail(o.left) \in Seq(Row)
        /\ Len(o.left) > 1 <=> Tail(o.left) # <<>>
    <2>1. o.left \in Lefts(k)
      BY <1>1 DEF JobOK
    <2>2. Head(o.left) \in RowsOf(k) /\ Tail(o.left) \in Lefts(k)
      BY <1>1, <2>1, LeftFacts
    <2> QED
      BY <1>1, <2>1, <2>2, LeftFacts DEF RowsOf, Row
  <1>3. job' = [job EXCEPT ![<<k, p>>] = j] /\ o.running /\ o.read
        /\ shown' = [shown EXCEPT ![Head(o.left)] = o.snap] /\ UNCHANGED <<now, data>>
    BY <1>1 DEF Write, RowInv, JobsInv
  <1> HIDE DEF o
  <1>4. j \in Job /\ j.at = o.at /\ j.left = Tail(o.left) /\ ~j.read
        /\ (j.running <=> Tail(o.left) # <<>>)
    <2> DEFINE more == Len(o.left) > 1
    <2>1. more \in BOOLEAN /\ (more <=> Tail(o.left) # <<>>)
      BY <1>2
    <2>2. j = [o EXCEPT !.left = Tail(o.left), !.read = FALSE, !.snap = 0, !.running = more]
      OBVIOUS
    <2> HIDE DEF more, j
    <2>3. j \in Job /\ j.at = o.at /\ j.left = Tail(o.left) /\ ~j.read /\ j.running = more
      BY <1>1, <1>2, <2>1, <2>2, Numbers DEF Job
    <2> QED
      BY <2>1, <2>3
  <1> HIDE DEF j
  <1>5. o.at # 0 /\ o.at <= now /\ o.snap <= data[Head(o.left)] /\ o.snap \in Nat
    BY <1>1, <1>3, Numbers DEF JobOK
  <1>6. JobOK(k, p, j)
    BY <1>1, <1>2, <1>4, <1>5 DEF JobOK
  <1>7. JobsInv'
    BY <1>3, <1>6, OneJob DEF RowInv
  <1>8. DataInv'
    BY <1>2, <1>3, <1>5, WrittenRow
  <1> QED
    BY <1>7, <1>8 DEF Write, RowInv, WholeInv, CountsInv

LEMMA FailRows == ASSUME RowInv, NEW k \in Kind, NEW p \in Period, Fail(k, p) PROVE RowInv'
  <1> DEFINE o == job[<<k, p>>]
             j == [o EXCEPT !.left = Statements(k), !.read = FALSE, !.snap = 0,
                            !.running = FALSE]
  <1>1. <<k, p>> \in Kind \X Period /\ o \in Job /\ JobOK(k, p, o) /\ o.left # <<>>
    BY JobAt DEF Fail, JobOK
  <1>2. Statements(k) \in Lefts(k) /\ Statements(k) \in Seq(Row) /\ Statements(k) # <<>>
    BY StatementsFacts, LeftFacts
  <1>3. job' = [job EXCEPT ![<<k, p>>] = j]
    BY <1>1 DEF Fail, RowInv, JobsInv
  <1> HIDE DEF o
  <1>4. j \in Job /\ j.at = o.at /\ j.left = Statements(k) /\ ~j.read /\ ~j.running
    BY <1>1, <1>2, Numbers DEF Job
  <1> HIDE DEF j
  <1>5. JobOK(k, p, j)
    BY <1>1, <1>2, <1>4 DEF JobOK
  <1>6. JobsInv'
    BY <1>3, <1>5, OneJob DEF RowInv, Fail
  <1>7. retries' \in 0 .. MaxRetries
    BY StatisticsAssumption DEF Fail, RowInv, CountsInv
  <1> QED
    BY <1>6, <1>7 DEF Fail, RowInv, DataInv, WholeInv, CountsInv

LEMMA WholeRows == ASSUME RowInv, Whole PROVE RowInv'
  <1>1. JobsInv' \/ DataInv' => JobsInv'
    <2>1. UNCHANGED <<now, data, job>>
      BY DEF Whole, WholeStarts, WholeReads, WholeWrites
    <2> QED
      BY <2>1 DEF RowInv, JobsInv, JobOK
  <1>2. whole \in Job /\ whole.snap \in Nat /\ whole.snap <= data["stats"]
    BY Numbers DEF RowInv, WholeInv
  <1>3. CASE WholeStarts
    <2>1. whole' \in Job /\ whole'.running /\ ~whole'.read /\ whole'.snap = whole.snap
      BY <1>2, <1>3 DEF WholeStarts, Job
    <2>2. DataInv' /\ CountsInv'
      BY <1>3 DEF WholeStarts, RowInv, DataInv, CountsInv
    <2> QED
      BY <1>1, <1>2, <1>3, <2>1, <2>2 DEF RowInv, WholeInv, WholeStarts
  <1>4. CASE WholeReads
    <2>1. data["stats"] \in 0 .. MaxChanges /\ data["stats"] <= data["stats"]
      BY Numbers DEF RowInv, DataInv
    <2>2. whole' \in Job /\ whole'.running /\ whole'.snap = data["stats"]
      BY <1>2, <1>4, <2>1 DEF WholeReads, Job
    <2>3. DataInv' /\ CountsInv'
      BY <1>4 DEF WholeReads, RowInv, DataInv, CountsInv
    <2> QED
      BY <1>1, <1>2, <1>4, <2>1, <2>2, <2>3 DEF RowInv, WholeInv, WholeReads
  <1>5. CASE WholeWrites
    <2>1. whole' \in Job /\ ~whole'.read /\ whole'.snap = 0
      BY <1>5, Numbers DEF WholeWrites, NoJob, Job
    <2>2. DataInv'
      BY <1>2, <1>5, Numbers, WrittenRow DEF WholeWrites
    <2>3. CountsInv' /\ UNCHANGED data
      BY <1>5 DEF WholeWrites, RowInv, CountsInv
    <2>4. 0 <= data["stats"]
      BY Numbers
    <2> QED
      BY <1>1, <2>1, <2>2, <2>3, <2>4 DEF RowInv, WholeInv
  <1> QED
    BY <1>3, <1>4, <1>5 DEF Whole
-----------------------------------------------------------------------------
(* Two at work on a row *)

LEMMA KindRows ==
  /\ \A r \in Row : KindOf(r) \in Kind /\ r \in RowsOf(KindOf(r))
  /\ \A k \in Kind : \A r \in RowsOf(k) : r \in Row /\ KindOf(r) = k
  BY DEF KindOf, RowsOf, Row, Kind

\* While nobody starts, those at work stay apart.
LEMMA NobodyStarts ==
  ASSUME Apart, excused => excused',
         \A k \in Kind : \A p \in Period : job'[<<k, p>>].running => job[<<k, p>>].running,
         whole'.running => whole.running
  PROVE  Apart'
  <1>1. "stats" \in Kind
    BY DEF Kind
  <1> QED
    BY <1>1 DEF Apart

\* The fields of one job that changes, and of those that do not.
LEMMA OtherJobs ==
  ASSUME JobsInv, NEW k \in Kind, NEW p \in Period, NEW j,
         job' = [job EXCEPT ![<<k, p>>] = j]
  PROVE  /\ job'[<<k, p>>] = j
         /\ \A l \in Kind : \A q \in Period : l # k \/ q # p => job'[<<l, q>>] = job[<<l, q>>]
  <1>1. <<k, p>> \in Kind \X Period
    OBVIOUS
  <1>2. ASSUME NEW l \in Kind, NEW q \in Period, l # k \/ q # p
        PROVE  job'[<<l, q>>] = job[<<l, q>>]
    <2>1. <<l, q>> # <<k, p>> /\ <<l, q>> \in Kind \X Period
      BY <1>2
    <2> QED
      BY <2>1 DEF JobsInv
  <1> QED
    BY <1>1, <1>2 DEF JobsInv

LEMMA InsertJobs ==
  ASSUME RowInv, NEW k \in Kind, Insert(k)
  PROVE  LET p == PeriodOf(now) IN
         /\ p \in Period
         /\ job'[<<k, p>>].left = Statements(k)
         /\ ~job'[<<k, p>>].read /\ ~job'[<<k, p>>].running
         /\ \A l \in Kind : \A q \in Period : l # k \/ q # p => job'[<<l, q>>] = job[<<l, q>>]
  <1> DEFINE p == PeriodOf(now)
             o == job[<<k, p>>]
  <1>1. p \in Period /\ (p + 1) * DebouncePeriod > now /\ p \in Nat /\ now \in Nat
    BY PeriodFacts, Numbers DEF Insert
  <1>2. o \in Job /\ JobOK(k, p, o)
    BY <1>1, JobAt
  <1>3. CASE o.at # 0
    <2>1. job' = job
      BY <1>3 DEF Insert
    <2>2. o.at \in Nat /\ o.at >= (p + 1) * DebouncePeriod /\ (p + 1) * DebouncePeriod \in Nat
      BY <1>1, <1>2, <1>3, Numbers DEF JobOK
    <2>3. ~(o.at <= now)
      BY <1>1, <2>2
    <2>4. o.left = Statements(k) /\ ~o.running /\ ~o.read
      BY <1>2, <1>3, <2>3 DEF JobOK
    <2> QED
      BY <1>1, <2>1, <2>4
  <1>4. CASE o.at = 0
    <2> DEFINE j == [NoJob EXCEPT !.at = Due, !.left = Statements(k)]
    <2>1. j.left = Statements(k) /\ ~j.read /\ ~j.running
      BY DEF NoJob
    <2>2. job' = [job EXCEPT ![<<k, p>>] = j]
      BY <1>4 DEF Insert
    <2> HIDE DEF j, p
    <2>3. /\ job'[<<k, p>>] = j
          /\ \A l \in Kind : \A q \in Period : l # k \/ q # p => job'[<<l, q>>] = job[<<l, q>>]
      BY <1>1, <2>2, OtherJobs DEF RowInv
    <2> QED
      BY <1>1, <2>1, <2>3 DEF p
  <1> QED
    BY <1>3, <1>4

LEMMA JobSteps ==
  ASSUME RowInv, NEW k \in Kind, NEW p \in Period, Works(k, p) \/ Fail(k, p)
  PROVE  \A l \in Kind : \A q \in Period : l # k \/ q # p => job'[<<l, q>>] = job[<<l, q>>]
  <1>1. PICK j : job' = [job EXCEPT ![<<k, p>>] = j]
    BY DEF Works, Begin, Read, Write, Fail
  <1>2. JobsInv
    BY DEF RowInv
  <1> QED
    BY <1>1, <1>2, OtherJobs

\* What the job at work becomes.
LEMMA JobAfter ==
  ASSUME RowInv, NEW k \in Kind, NEW p \in Period
  PROVE  LET o == job[<<k, p>>] j == job'[<<k, p>>] IN
         /\ Begin(k, p) => j.left = o.left /\ j.read = o.read /\ j.snap = o.snap
         /\ Read(k, p) => /\ o.running /\ ~o.read /\ o.left # <<>>
                          /\ j.left = o.left /\ j.read /\ j.snap = data[Head(o.left)]
                          /\ j.running
         /\ Write(k, p) => /\ o.running /\ o.read /\ o.left # <<>>
                           /\ j.left = Tail(o.left) /\ ~j.read
         /\ Fail(k, p) => j.left = Statements(k) /\ ~j.read /\ ~j.running
  <1> DEFINE o == job[<<k, p>>]
  <1>1. o \in Job /\ (o.running => o.left # <<>>) /\ job \in [Kind \X Period -> Job]
    BY JobAt DEF JobOK, RowInv, JobsInv
  <1>2. <<k, p>> \in Kind \X Period
    OBVIOUS
  <1>3. ASSUME Begin(k, p)
        PROVE  LET j == job'[<<k, p>>] IN j.left = o.left /\ j.read = o.read /\ j.snap = o.snap
    <2>1. job'[<<k, p>>] = [o EXCEPT !.running = TRUE]
      BY <1>1, <1>2, <1>3 DEF Begin
    <2> QED
      BY <1>1, <2>1 DEF Job
  <1>4. ASSUME Read(k, p)
        PROVE  LET j == job'[<<k, p>>] IN
               /\ o.running /\ ~o.read /\ o.left # <<>>
               /\ j.left = o.left /\ j.read /\ j.snap = data[Head(o.left)] /\ j.running
    <2>1. job'[<<k, p>>] = [o EXCEPT !.read = TRUE, !.snap = data[Head(o.left)]]
          /\ o.running /\ ~o.read
      BY <1>1, <1>2, <1>4 DEF Read
    <2> QED
      BY <1>1, <2>1 DEF Job
  <1>5. ASSUME Write(k, p)
        PROVE  LET j == job'[<<k, p>>] IN
               o.running /\ o.read /\ o.left # <<>> /\ j.left = Tail(o.left) /\ ~j.read
    <2>1. job'[<<k, p>>] = [o EXCEPT !.left = Tail(o.left), !.read = FALSE, !.snap = 0,
                                     !.running = Len(o.left) > 1]
          /\ o.running /\ o.read
      BY <1>1, <1>2, <1>5 DEF Write
    <2> QED
      BY <1>1, <2>1 DEF Job
  <1>6. ASSUME Fail(k, p)
        PROVE  LET j == job'[<<k, p>>] IN j.left = Statements(k) /\ ~j.read /\ ~j.running
    <2>1. job'[<<k, p>>] = [o EXCEPT !.left = Statements(k), !.read = FALSE, !.snap = 0,
                                     !.running = FALSE]
      BY <1>1, <1>2, <1>6 DEF Fail
    <2> QED
      BY <1>1, <2>1 DEF Job
  <1> QED
    BY <1>3, <1>4, <1>5, <1>6

LEMMA ApartStep == ASSUME RowInv, Apart, [StatsNext]_statsVars PROVE Apart'
  <1>1. CASE UNCHANGED <<job, whole>> /\ (excused => excused')
    BY <1>1, NobodyStarts
  <1>2. ASSUME NEW k \in Kind, Insert(k) PROVE Apart'
    <2>1. \A l \in Kind : \A q \in Period : job'[<<l, q>>].running => job[<<l, q>>].running
      BY <1>2, InsertJobs
    <2> QED
      BY <1>2, <2>1, NobodyStarts DEF Insert
  <1>3. ASSUME NEW k \in Kind, NEW p \in Period, Begin(k, p) PROVE Apart'
    <2> SUFFICES ASSUME ~excused' PROVE Apart'
      BY DEF Apart
    <2>1. Alone(k) /\ ~excused /\ UNCHANGED whole
      BY <1>3 DEF Begin
    <2>2. \A l \in Kind : \A q \in Period : l # k \/ q # p => job'[<<l, q>>] = job[<<l, q>>]
      BY <1>3, JobSteps DEF Works
    <2> QED
      BY <2>1, <2>2 DEF Apart, Alone, Kind
  <1>4. ASSUME NEW k \in Kind, NEW p \in Period, Read(k, p) \/ Write(k, p) \/ Fail(k, p)
        PROVE  Apart'
    <2>1. \A l \in Kind : \A q \in Period : l # k \/ q # p => job'[<<l, q>>] = job[<<l, q>>]
      BY <1>4, JobSteps DEF Works
    <2>2. UNCHANGED <<whole, excused>> /\ job[<<k, p>>].running
      BY <1>4 DEF Read, Write, Fail
    <2> QED
      BY <2>1, <2>2, NobodyStarts
  <1>5. CASE WholeStarts
    <2> SUFFICES ASSUME ~excused' PROVE Apart'
      BY DEF Apart
    <2>1. Alone("stats") /\ ~excused /\ UNCHANGED job
      BY <1>5 DEF WholeStarts
    <2> QED
      BY <2>1 DEF Apart, Alone
  <1>6. CASE WholeReads \/ WholeWrites
    <2>1. whole.running /\ UNCHANGED <<job, excused>>
      BY <1>6 DEF WholeReads, WholeWrites
    <2> QED
      BY <2>1, NobodyStarts
  <1>7. CASE Pass \/ (\E c \in Changes : Change(c)) \/ Lose \/ UNCHANGED statsVars
    <2>1. UNCHANGED <<job, whole>>
      BY <1>7 DEF Pass, Change, Lose, statsVars
    <2>2. excused => excused'
      BY <1>7, Zenon DEF Pass, Change, Lose, statsVars
    <2> QED
      BY <1>1, <2>1, <2>2
  <1> QED
    BY <1>2, <1>3, <1>4, <1>5, <1>6, <1>7 DEF StatsNext, Indexing, Works, Whole
-----------------------------------------------------------------------------
(* No change is missed *)

\* A row of which nothing changes.
LEMMA SameCovered ==
  ASSUME NEW r \in Row, Covered(r), UNCHANGED data, shown'[r] = shown[r],
         KindOf(r) \in asked => KindOf(r) \in asked',
         \A p \in Period : LET o == job[<<KindOf(r), p>>] j == job'[<<KindOf(r), p>>] IN
                           j.left = o.left /\ j.read = o.read /\ j.snap = o.snap,
         r = "stats" => UNCHANGED whole
  PROVE  Covered(r)'
  <1>1. ToRead(r) => ToRead(r)'
    BY DEF ToRead, Reads
  <1>2. \A n \in 0 .. MaxChanges : Held(r, n)' <=> Held(r, n)
    BY DEF Held, Reads
  <1>3. Held(r, data[r]) => Held(r, data[r])'
    BY DEF Held, Reads
  <1> QED
    BY <1>1, <1>2, <1>3 DEF Covered

\* Another reader of a row that a job is at work on would be noted.
LEMMA OnlyReader ==
  ASSUME RowInv, Apart, ~excused, NEW k \in Kind, NEW p \in Period, job[<<k, p>>].running
  PROVE  /\ \A q \in Period : q # p => ~job[<<k, q>>].read
         /\ k = "stats" => ~whole.running /\ ~whole.read
  <1>1. \A q \in Period : q # p => ~job[<<k, q>>].read
    <2> SUFFICES ASSUME NEW q \in Period, q # p PROVE ~job[<<k, q>>].read
      OBVIOUS
    <2>1. JobOK(k, q, job[<<k, q>>])
      BY JobAt
    <2> QED
      BY <2>1 DEF Apart, JobOK
  <1>2. k = "stats" => ~whole.running /\ ~whole.read
    BY DEF Apart, RowInv, WholeInv
  <1> QED
    BY <1>1, <1>2

LEMMA InsertCovers ==
  ASSUME RowInv, NEW k \in Kind, Insert(k), NEW r \in Row, Covered(r)
  PROVE  Covered(r)'
  <1>1. CASE KindOf(r) = k
    <2> DEFINE p == PeriodOf(now)
    <2>1. p \in Period /\ job'[<<k, p>>].left = Statements(k) /\ ~job'[<<k, p>>].read
      BY InsertJobs
    <2>2. r \in RowsIn(Statements(k))
      BY <1>1, KindRows, StatementsFacts
    <2> HIDE DEF p
    <2>3. ToRead(r)'
      BY <1>1, <2>1, <2>2 DEF ToRead, Reads
    <2> QED
      BY <2>3 DEF Covered
  <1>2. CASE KindOf(r) # k
    <2>1. KindOf(r) \in Kind
      BY KindRows
    <2>2. \A p \in Period : job'[<<KindOf(r), p>>] = job[<<KindOf(r), p>>]
      BY <1>2, <2>1, InsertJobs
    <2>3. UNCHANGED <<data, shown, whole>> /\ (KindOf(r) \in asked => KindOf(r) \in asked')
      BY <1>2 DEF Insert
    <2> QED
      BY <2>2, <2>3, SameCovered
  <1> QED
    BY <1>1, <1>2

LEMMA ChangeCovers ==
  ASSUME RowInv, NEW c \in Changes, Change(c), ~excused', NEW r \in Row, Covered(r)
  PROVE  Covered(r)'
  <1>1. c \in {"inscribe", "market"} /\ asked' = Asks(c) /\ asked = {}
    BY StatisticsAssumption DEF Change, Asks
  <1>2. CASE KindOf(r) \in Asks(c)
    BY <1>1, <1>2 DEF Covered
  <1>3. CASE KindOf(r) \notin Asks(c)
    <2>1. c = "market" /\ r # "stats"
      BY <1>1, <1>3, KindRows DEF Asks, KindOf
    <2>2. data'[r] = data[r]
      BY <2>1 DEF Change, Changed
    <2>3. UNCHANGED <<shown, job, whole>>
      BY DEF Change
    <2>4. KindOf(r) \notin asked
      BY <1>1
    <2>5. CASE ToRead(r)
      BY <2>3, <2>5 DEF Covered, ToRead, Reads
    <2>6. CASE ~ToRead(r)
      BY <2>2, <2>3, <2>4, <2>6 DEF Covered, Held, Reads
    <2> QED
      BY <2>5, <2>6
  <1> QED
    BY <1>2, <1>3

LEMMA JobCovers ==
  ASSUME RowInv, Apart, ~excused, NEW k \in Kind, NEW p \in Period,
         Works(k, p) \/ Fail(k, p), NEW r \in Row, Covered(r)
  PROVE  Covered(r)'
  <1> DEFINE o == job[<<k, p>>]
             j == job'[<<k, p>>]
             h == Head(o.left)
  <1>1. UNCHANGED <<data, asked, whole>>
    BY DEF Works, Begin, Read, Write, Fail
  <1>2. \A l \in Kind : \A q \in Period : l # k \/ q # p => job'[<<l, q>>] = job[<<l, q>>]
    BY JobSteps
  <1>3. KindOf(r) \in Kind /\ r \in RowsOf(KindOf(r))
    BY KindRows
  <1>4. o \in Job /\ JobOK(k, p, o) /\ o.left \in Lefts(k)
    BY JobAt
  <1>5. o.left # <<>> => h \in RowsOf(k) /\ h \in Row /\ KindOf(h) = k
    BY <1>4, LeftFacts, KindRows
  <1>6. CASE Fail(k, p)
    <2>1. UNCHANGED shown
      BY <1>6 DEF Fail
    <2>2. CASE KindOf(r) = k
      <3>1. r \in RowsIn(j.left) /\ ~j.read
        BY <1>3, <1>6, <2>2, JobAfter, StatementsFacts
      <3> HIDE DEF j
      <3>2. ToRead(r)'
        BY <2>2, <3>1 DEF ToRead, Reads, j
      <3> QED
        BY <3>2 DEF Covered
    <2>3. CASE KindOf(r) # k
      BY <1>1, <1>2, <1>3, <2>1, <2>3, SameCovered
    <2> QED
      BY <2>2, <2>3
  <1>7. CASE Begin(k, p)
    <2>1. UNCHANGED shown
      BY <1>7 DEF Begin
    <2>2. j.left = o.left /\ j.read = o.read /\ j.snap = o.snap
      BY <1>7, JobAfter
    <2>3. \A q \in Period : LET a == job[<<KindOf(r), q>>] b == job'[<<KindOf(r), q>>] IN
                            b.left = a.left /\ b.read = a.read /\ b.snap = a.snap
      BY <1>2, <1>3, <2>2
    <2> QED
      BY <1>1, <2>1, <2>3, SameCovered
  <1>8. CASE Read(k, p)
    <2>1. /\ o.running /\ ~o.read /\ o.left # <<>>
          /\ j.left = o.left /\ j.read /\ j.snap = data[h]
      BY <1>8, JobAfter
    <2>2. UNCHANGED shown
      BY <1>8 DEF Read
    <2>3. /\ \A q \in Period : q # p => ~job[<<k, q>>].read
          /\ k = "stats" => ~whole.running /\ ~whole.read
      BY <2>1, OnlyReader
    <2> HIDE DEF o, j, h
    <2>4. CASE KindOf(r) # k
      BY <1>1, <1>2, <1>3, <2>2, <2>4, SameCovered
    <2>5. CASE r = h
      <3>1. KindOf(r) = k /\ (r = "stats" => k = "stats")
        BY <1>5, <2>1, <2>5 DEF KindOf
      <3>2. Held(r, data[r])'
        BY <1>1, <2>1, <2>5, <3>1 DEF Held, Reads, j, h
      <3>3. \A n \in 0 .. MaxChanges : Held(r, n)' => n = data[r]
        BY <1>1, <1>2, <1>3, <2>1, <2>3, <2>5, <3>1 DEF Held, Reads, j
      <3> QED
        BY <1>1, <3>2, <3>3 DEF Covered
    <2>6. CASE KindOf(r) = k /\ r # h
      <3>1. \A q \in Period : /\ job'[<<k, q>>].left = job[<<k, q>>].left
                              /\ Reads(job'[<<k, q>>], r) <=> Reads(job[<<k, q>>], r)
                              /\ Reads(job[<<k, q>>], r) => job'[<<k, q>>] = job[<<k, q>>]
        BY <1>2, <2>1, <2>6 DEF Reads, o, j, h
      <3>2. ToRead(r) => ToRead(r)'
        BY <1>1, <2>6, <3>1 DEF ToRead
      <3>3. \A n \in 0 .. MaxChanges : Held(r, n)' <=> Held(r, n)
        BY <1>1, <2>6, <3>1 DEF Held
      <3>4. Held(r, data[r]) => Held(r, data[r])'
        BY <1>1, <2>6, <3>1 DEF Held
      <3> QED
        BY <1>1, <2>2, <3>2, <3>3, <3>4 DEF Covered
    <2> QED
      BY <2>4, <2>5, <2>6
  <1>9. CASE Write(k, p)
    <2>1. o.running /\ o.read /\ o.left # <<>> /\ j.left = Tail(o.left) /\ ~j.read
      BY <1>9, JobAfter
    <2>2. shown' = [shown EXCEPT ![h] = o.snap] /\ shown \in [Row -> 0 .. MaxChanges]
      BY <1>9 DEF Write, RowInv, DataInv
    <2>3. /\ \A q \in Period : q # p => ~job[<<k, q>>].read
          /\ k = "stats" => ~whole.running /\ ~whole.read
      BY <2>1, OnlyReader
    <2>4. RowsIn(o.left) = {h} \cup RowsIn(Tail(o.left)) /\ h \notin RowsIn(Tail(o.left))
      BY <1>4, <2>1, LeftFacts
    <2>5. o.snap \in 0 .. MaxChanges
      BY <1>4 DEF Job
    <2> HIDE DEF o, j, h
    <2>6. CASE KindOf(r) # k
      <3>1. shown'[r] = shown[r]
        BY <1>5, <2>1, <2>2, <2>6
      <3> QED
        BY <1>1, <1>2, <1>3, <2>6, <3>1, SameCovered
    <2>7. CASE r = h
      <3>1. KindOf(r) = k /\ (r = "stats" => k = "stats")
        BY <1>5, <2>1, <2>7 DEF KindOf
      <3>2. ToRead(r) => ToRead(r)'
        <4> SUFFICES ASSUME ToRead(r) PROVE ToRead(r)'
          OBVIOUS
        <4>1. PICK q \in Period : r \in RowsIn(job[<<k, q>>].left) /\ ~Reads(job[<<k, q>>], r)
          BY <2>3, <3>1 DEF ToRead
        <4>2. q # p
          BY <2>1, <2>7, <4>1 DEF Reads, o, h
        <4>3. job'[<<k, q>>] = job[<<k, q>>]
          BY <1>2, <4>2
        <4> QED
          BY <3>1, <4>1, <4>3 DEF ToRead
      <3>3. Held(r, o.snap)
        BY <2>1, <2>7, <3>1 DEF Held, Reads, o, h
      <3>4. shown'[r] = o.snap
        BY <2>2, <2>7
      <3>5. \A n \in 0 .. MaxChanges : ~Held(r, n)'
        BY <1>1, <1>2, <2>1, <2>3, <3>1 DEF Held, Reads, j
      <3>6. CASE ToRead(r) \/ KindOf(r) \in asked
        BY <1>1, <3>2, <3>6 DEF Covered
      <3>7. CASE ~ToRead(r) /\ KindOf(r) \notin asked
        <4>1. o.snap = data[r]
          BY <2>5, <3>3, <3>7 DEF Covered
        <4> QED
          BY <1>1, <3>4, <3>5, <4>1 DEF Covered
      <3> QED
        BY <3>6, <3>7
    <2>8. CASE KindOf(r) = k /\ r # h
      <3>1. shown'[r] = shown[r]
        BY <1>5, <2>1, <2>2, <2>8
      <3>2. \A q \in Period :
              /\ r \in RowsIn(job[<<k, q>>].left) => r \in RowsIn(job'[<<k, q>>].left)
              /\ Reads(job'[<<k, q>>], r) <=> Reads(job[<<k, q>>], r)
              /\ Reads(job[<<k, q>>], r) => job'[<<k, q>>] = job[<<k, q>>]
        BY <1>2, <2>1, <2>4, <2>8 DEF Reads, o, j, h
      <3>3. ToRead(r) => ToRead(r)'
        BY <1>1, <2>8, <3>2 DEF ToRead
      <3>4. \A n \in 0 .. MaxChanges : Held(r, n)' <=> Held(r, n)
        BY <1>1, <2>8, <3>2 DEF Held
      <3>5. Held(r, data[r]) => Held(r, data[r])'
        BY <1>1, <2>8, <3>2 DEF Held
      <3> QED
        BY <1>1, <3>1, <3>3, <3>4, <3>5 DEF Covered
    <2> QED
      BY <2>6, <2>7, <2>8
  <1> QED
    BY <1>6, <1>7, <1>8, <1>9 DEF Works

LEMMA WholeCovers ==
  ASSUME RowInv, Apart, ~excused, Whole, NEW r \in Row, Covered(r)
  PROVE  Covered(r)'
  <1>1. UNCHANGED <<data, asked, job>> /\ whole \in Job
    BY DEF Whole, WholeStarts, WholeReads, WholeWrites, RowInv, WholeInv
  <1>2. CASE r # "stats"
    <2>1. shown'[r] = shown[r]
      BY <1>2 DEF Whole, WholeStarts, WholeReads, WholeWrites, RowInv, DataInv
    <2> QED
      BY <1>1, <1>2, <2>1, SameCovered
  <1>3. CASE r = "stats" /\ WholeStarts
    <2>1. whole'.running /\ ~whole'.read
      BY <1>1, <1>3 DEF WholeStarts, Job
    <2> QED
      BY <1>3, <2>1 DEF Covered, ToRead
  <1>4. ASSUME whole.running PROVE \A q \in Period : ~job[<<"stats", q>>].read
    <2> SUFFICES ASSUME NEW q \in Period PROVE ~job[<<"stats", q>>].read
      OBVIOUS
    <2>1. JobOK("stats", q, job[<<"stats", q>>])
      BY JobAt DEF Kind
    <2> QED
      BY <1>4, <2>1 DEF Apart, JobOK
  <1>5. CASE r = "stats" /\ WholeReads
    <2>1. whole.running /\ whole'.read /\ whole'.snap = data["stats"]
      BY <1>1, <1>5 DEF WholeReads, Job
    <2> QED
      BY <1>1, <1>4, <1>5, <2>1 DEF Covered, Held, Reads, KindOf
  <1>6. CASE r = "stats" /\ WholeWrites
    <2>1. whole.running /\ whole.read /\ ~whole'.read /\ ~whole'.running
          /\ shown'[r] = whole.snap
      BY <1>6 DEF WholeWrites, NoJob, RowInv, DataInv
    <2>2. ToRead(r) => ToRead(r)'
      BY <1>1, <2>1 DEF ToRead, Reads
    <2>3. CASE ToRead(r) \/ KindOf(r) \in asked
      BY <1>1, <2>2, <2>3 DEF Covered
    <2>4. CASE ~ToRead(r) /\ KindOf(r) \notin asked
      <3>1. whole.snap \in 0 .. MaxChanges
        BY <1>1 DEF Job
      <3>2. whole.snap = data[r]
        BY <1>6, <2>1, <2>4, <3>1 DEF Covered, Held
      <3>3. \A n \in 0 .. MaxChanges : ~Held(r, n)'
        BY <1>1, <1>4, <1>6, <2>1 DEF Held, Reads, KindOf
      <3> QED
        BY <1>1, <2>1, <3>2, <3>3 DEF Covered
    <2> QED
      BY <2>3, <2>4
  <1> QED
    BY <1>2, <1>3, <1>5, <1>6 DEF Whole

LEMMA CaughtStep == ASSUME RowInv, Apart, Caught, [StatsNext]_statsVars PROVE Caught'
  <1> SUFFICES ASSUME ~excused', NEW r \in Row PROVE Covered(r)'
    BY DEF Caught
  <1>1. ~excused
    BY DEF StatsNext, Indexing, Works, Whole, Pass, Change, Insert, Lose, Begin, Read, Write,
           Fail, WholeStarts, WholeReads, WholeWrites, statsVars
  <1>2. Covered(r)
    BY <1>1 DEF Caught
  <1>3. CASE Pass \/ UNCHANGED statsVars
    <2>1. UNCHANGED <<data, shown, asked, job, whole>>
      BY <1>3 DEF Pass, statsVars
    <2> QED
      BY <1>2, <2>1, SameCovered
  <1>4. ~Lose
    BY DEF Lose
  <1>5. ASSUME NEW c \in Changes, Change(c) PROVE Covered(r)'
    BY <1>2, <1>5, ChangeCovers
  <1>6. ASSUME NEW k \in Kind, Insert(k) PROVE Covered(r)'
    BY <1>2, <1>6, InsertCovers
  <1>7. ASSUME NEW k \in Kind, NEW p \in Period, Works(k, p) \/ Fail(k, p) PROVE Covered(r)'
    BY <1>1, <1>2, <1>7, JobCovers
  <1>8. CASE Whole
    BY <1>1, <1>2, <1>8, WholeCovers
  <1>9. \/ Pass \/ UNCHANGED statsVars \/ Lose \/ Whole
        \/ \E c \in Changes : Change(c)
        \/ \E k \in Kind : Insert(k)
        \/ \E k \in Kind, p \in Period : Works(k, p) \/ Fail(k, p)
    BY DEF StatsNext, Indexing
  <1> QED
    BY <1>3, <1>4, <1>5, <1>6, <1>7, <1>8, <1>9
-----------------------------------------------------------------------------
LEMMA StatsStep == StatsIInv /\ [StatsNext]_statsVars => StatsIInv'
  <1> SUFFICES ASSUME StatsIInv, [StatsNext]_statsVars PROVE StatsIInv'
    OBVIOUS
  <1>1. RowInv /\ Apart /\ Caught
    BY DEF StatsIInv
  <1>2. CASE UNCHANGED statsVars
    <2>1. JobsInv'
      BY <1>1, <1>2 DEF statsVars, RowInv, JobsInv, JobOK
    <2>2. DataInv' /\ WholeInv' /\ CountsInv'
      BY <1>1, <1>2 DEF statsVars, RowInv, DataInv, WholeInv, CountsInv
    <2>3. RowInv'
      BY <2>1, <2>2 DEF RowInv
    <2> QED
      BY <1>1, <2>3, ApartStep, CaughtStep DEF StatsIInv
  <1>3. RowInv'
    BY <1>1, <1>2, PassRows, ChangeRows, InsertRows, LoseRows, BeginRows, ReadRows, WriteRows,
       FailRows, WholeRows
    DEF StatsNext, Indexing, Works, StatsIInv
  <1> QED
    BY <1>1, <1>3, ApartStep, CaughtStep DEF StatsIInv

\* worker/client.go: no job is due within its own period, no row is computed from
\* changes that have not happened, and none is missed by dropping jobs.
THEOREM StatisticsInvariant == StatsSpec => []StatisticsInv
  <1>1. StatsIInv => StatisticsInv
    <2> SUFFICES ASSUME StatsIInv PROVE StatisticsInv
      OBVIOUS
    <2>1. RowInv
      BY DEF StatsIInv
    <2>2. StatsTypeOK
      <3>1. job \in [Kind \X Period -> Job \cup {NoJob}]
        BY <2>1 DEF RowInv, JobsInv
      <3> QED
        BY <2>1, <3>1 DEF StatsTypeOK, RowInv, DataInv, WholeInv, CountsInv, JobsInv, JobOK
    <2>3. ASSUME asked = {}, ~excused, NEW r \in Row
          PROVE  Pending(KindOf(r)) \/ (r = "stats" /\ whole.running) \/ shown[r] = data[r]
      <3>1. Covered(r) /\ KindOf(r) \in Kind
        BY <2>3, KindRows DEF StatsIInv, Caught
      <3>2. RowsIn(<<>>) = {}
        BY DEF RowsIn
      <3>3. ToRead(r) => Pending(KindOf(r)) \/ (r = "stats" /\ whole.running)
        BY <3>2 DEF ToRead, Pending
      <3>4. \A p \in Period : job[<<KindOf(r), p>>].read => job[<<KindOf(r), p>>].left # <<>>
        BY <2>1, <3>1 DEF RowInv, JobsInv, JobOK
      <3>5. Held(r, data[r]) => Pending(KindOf(r)) \/ (r = "stats" /\ whole.running)
        BY <2>1, <3>4 DEF Held, Reads, Pending, RowInv, WholeInv
      <3> QED
        BY <2>3, <3>1, <3>3, <3>5 DEF Covered
    <2>4. NothingMissed
      BY <2>3 DEF NothingMissed, Row, KindOf
    <2> QED
      BY <2>2, <2>4 DEF StatisticsInv
  <1> QED
    BY <1>1, InitStats, StatsStep, PTL DEF StatsSpec
=============================================================================
