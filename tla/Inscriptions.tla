---------------------------- MODULE Inscriptions ----------------------------
(***************************************************************************)
(* The operations of the inscription processor (metaprotocol/              *)
(* inscription.go) on inscriptions and collections without a launchpad;    *)
(* those with one are in module Launchpad.  An operation has one save that *)
(* counts: the rest is history, whose errors are ignored, and jobs, which  *)
(* module Statistics has.  Rows are named by the transaction that made     *)
(* them.  A transaction whose row was there already, after a restart of    *)
(* the indexer, is processed again without an ID.                          *)
(***************************************************************************)
EXTENDS Naturals, Sequences, FiniteSets

CONSTANTS
    Addr, NoAddr, NoRow,
    Symbol, NoSymbol,
    Content,
    Reserved,      \* who a symbol is reserved for, or NoAddr
    Submissions,   \* transactions users submit
    MaxTx,         \* bound: transactions
    MaxStops       \* bound: stops of the indexer

Id == 1 .. MaxTx

\* symbol: of a collection, NoSymbol for an inscription.  coll: parent of an
\* inscription, target of a migration; hash: what is transferred, granted or
\* updated; to: dst or grantee; royalty: 0 when it is not given.
Tx == [op: {"inscribe", "transfer", "grant", "migrate", "update"}, sender: Addr,
       v2: BOOLEAN, symbol: Symbol \cup {NoSymbol}, content: Content, traits: BOOLEAN,
       coll: Id \cup {0}, hash: Id, to: Addr, rows: SUBSET Id, royalty: 0 .. 9]

ASSUME InscriptionsAssumption ==
    /\ NoAddr \notin Addr /\ NoSymbol \notin Symbol
    /\ Reserved \in [Symbol -> Addr \cup {NoAddr}]
    /\ Submissions \subseteq Tx /\ MaxTx \in Nat /\ MaxStops \in Nat

VARIABLES
    chain,          \* the transactions, one in each block
    pos, seen,      \* currentHeight; transactions that have a row
    inscription, collection,
    grant,          \* migration_permission_grant
    stops

vars == <<chain, pos, seen, inscription, collection, grant, stops>>

Inscription == [creator: Addr, owner: Addr, coll: Id \cup {0}, v2: BOOLEAN,
                content: Content, traits: BOOLEAN]
Collection == [creator: Addr, symbol: Symbol, content: Content, royalty: 0 .. 9]
Grant == [of: Id, granter: Addr, grantee: Addr]

Inscribed == {i \in Id : inscription[i] # NoRow}
Collections == {c \in Id : collection[c] # NoRow}

ASSUME NoRowAssumption == NoRow \notin Inscription \cup Collection

TypeOK ==
    /\ chain \in Seq(Tx) /\ Len(chain) <= MaxTx
    /\ pos \in 1 .. Len(chain) + 1 /\ seen \in 0 .. Len(chain) /\ pos <= seen + 1
    /\ inscription \in [Id -> Inscription \cup {NoRow}]
    /\ collection \in [Id -> Collection \cup {NoRow}]
    /\ grant \subseteq Grant /\ stops \in 0 .. MaxStops
    /\ \A g \in grant : g.of \in Inscribed
    /\ \A i \in Inscribed : inscription[i].coll \in Collections \cup {0}

Init ==
    /\ chain = <<>> /\ pos = 1 /\ seen = 0
    /\ inscription = [i \in Id |-> NoRow] /\ collection = [i \in Id |-> NoRow]
    /\ grant = {} /\ stops = 0
-----------------------------------------------------------------------------
Submit(t) ==
    /\ Len(chain) < MaxTx
    /\ chain' = Append(chain, t)
    /\ UNCHANGED <<pos, seen, inscription, collection, grant, stops>>

tx == chain[pos]
Fresh == pos > seen

\* The transaction at hand, of operation o, is done with.
Handled(o) ==
    /\ pos <= Len(chain) /\ tx.op = o
    /\ pos' = pos + 1 /\ seen' = IF Fresh THEN pos ELSE seen
    /\ UNCHANGED <<chain, stops>>

\* GetCollection with checkSenderIsOwner
Owned(c) == c \in Collections /\ collection[c].creator = tx.sender
-----------------------------------------------------------------------------
(* inscribe *)

InscribeOK ==
    /\ tx.traits => tx.v2
    /\ tx.coll # 0 => tx.v2 /\ Owned(tx.coll)
    /\ Fresh                                           \* foreign key
    /\ \A i \in Inscribed : inscription[i].content # tx.content

Inscribe ==
    /\ Handled("inscribe") /\ tx.symbol = NoSymbol
    /\ tx.coll \in Collections \cup {0}                \* a panic otherwise
    /\ inscription' =
         IF InscribeOK
         THEN [inscription EXCEPT ![pos] =
                 [creator |-> IF tx.coll = 0 THEN tx.sender ELSE collection[tx.coll].creator,
                  owner |-> tx.sender, coll |-> tx.coll, v2 |-> tx.v2,
                  content |-> tx.content, traits |-> tx.traits]]
         ELSE inscription
    /\ UNCHANGED <<collection, grant>>

\* A symbol, and a name likewise, is reserved or unique.
InscribeCollectionOK ==
    /\ tx.v2
    /\ Reserved[tx.symbol] \in {NoAddr, tx.sender}
    /\ Fresh
    /\ \A c \in Collections :
          collection[c].symbol # tx.symbol /\ collection[c].content # tx.content

InscribeCollection ==
    /\ Handled("inscribe") /\ tx.symbol # NoSymbol
    /\ collection' =
         IF InscribeCollectionOK
         THEN [collection EXCEPT ![pos] =
                 [creator |-> tx.sender, symbol |-> tx.symbol, content |-> tx.content,
                  royalty |-> tx.royalty]]
         ELSE collection
    /\ UNCHANGED <<inscription, grant>>
-----------------------------------------------------------------------------
(* transfer, update-collection, grant-migration-permission *)

Transfer ==
    /\ Handled("transfer")
    /\ inscription' =
         IF tx.hash \in Inscribed /\ inscription[tx.hash].owner = tx.sender
         THEN [inscription EXCEPT ![tx.hash].owner = tx.to]
         ELSE inscription
    /\ UNCHANGED <<collection, grant>>

\* A royalty can be changed and cannot be taken away.
UpdateCollection ==
    /\ Handled("update")
    /\ collection' =
         IF tx.v2 /\ Owned(tx.hash) /\ tx.royalty # 0
         THEN [collection EXCEPT ![tx.hash].royalty = tx.royalty]
         ELSE collection
    /\ UNCHANGED <<inscription, grant>>

GrantOK ==
    /\ tx.v2 /\ tx.hash \in Inscribed /\ inscription[tx.hash].creator = tx.sender
    /\ ~ \E g \in grant : g.of = tx.hash /\ g.grantee = tx.to

GrantMigrationPermission ==
    /\ Handled("grant")
    /\ grant' = IF GrantOK
                THEN grant \cup {[of |-> tx.hash, granter |-> tx.sender, grantee |-> tx.to]}
                ELSE grant
    /\ UNCHANGED <<inscription, collection>>
-----------------------------------------------------------------------------
(* migrate *)

\* The sender is the creator or has been granted to migrate it.
MayMigrate(i) ==
    \/ inscription[i].creator = tx.sender
    \/ \E g \in grant : g.of = i /\ g.grantee = tx.sender

\* Mutant: only the version is looked at.
NotMigratedByVersion(i) == inscription[i].v2 => tx.coll # 0

NotMigrated(i) == inscription[i].coll = 0 /\ (inscription[i].v2 => tx.coll # 0)

MigrateOK ==
    /\ tx.v2 /\ (tx.coll # 0 => Owned(tx.coll))
    /\ \A i \in tx.rows : i \in Inscribed /\ MayMigrate(i) /\ NotMigrated(i)

\* Mutant: the creator stays.
MigratedCreator(row) ==
    [row EXCEPT !.coll = IF tx.coll = 0 THEN @ ELSE tx.coll, !.v2 = TRUE, !.traits = TRUE]

Migrated(row) ==
    [row EXCEPT !.creator = tx.sender, !.coll = IF tx.coll = 0 THEN @ ELSE tx.coll,
                !.v2 = TRUE, !.traits = TRUE]

\* All rows or none, in a transaction of the database.  Rows are read outside
\* of it, so that one that is there twice is migrated twice, to the same.
Migrate ==
    /\ Handled("migrate")
    /\ inscription' =
         IF MigrateOK
         THEN [i \in Id |-> IF i \in tx.rows THEN Migrated(inscription[i])
                                             ELSE inscription[i]]
         ELSE inscription
    /\ UNCHANGED <<collection, grant>>
-----------------------------------------------------------------------------
\* The last transaction is processed again, and what was done of the next.
Stop ==
    /\ stops < MaxStops /\ stops' = stops + 1
    /\ pos > 1 /\ pos' = pos - 1
    /\ UNCHANGED <<chain, seen, inscription, collection, grant>>

Process ==
    \/ Inscribe \/ InscribeCollection \/ Transfer \/ UpdateCollection
    \/ GrantMigrationPermission \/ Migrate

Next == (\E t \in Submissions : Submit(t)) \/ Process \/ Stop

Spec == Init /\ [][Next]_vars
-----------------------------------------------------------------------------
(* Properties *)

\* models/inscription.go, models/collection.go: the creator that an inscription
\* of a collection shows is the creator of the collection, whoever made it and
\* whoever migrated it.
CreatorsAgree ==
    \A i \in Inscribed :
        inscription[i].coll # 0 =>
            inscription[i].creator = collection[inscription[i].coll].creator

\* "inscription already migrated": what is in a collection stays there, and its
\* creator with it.
CollectionIsFinal ==
    [][\A i \in Inscribed :
         inscription[i].coll # 0 =>
             /\ i \in Inscribed' /\ inscription'[i].coll = inscription[i].coll
             /\ inscription'[i].creator = inscription[i].creator]_vars
=============================================================================
