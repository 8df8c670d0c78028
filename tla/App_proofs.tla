------------------------------ MODULE App_proofs ------------------------------
(***************************************************************************)
(* Theorems about the app.  About module Uploads, for any tabs, users,     *)
(* pictures, batches and numbers, and any refused requests: the tables and *)
(* the store only grow, so what a page has found there or put there still  *)
(* is when it goes on: the launch's row and with it the folder, the        *)
(* pictures and the descriptions of the items behind it.                   *)
(*                                                                         *)
(* About modules BuyDialog and SubmitTx, for any listings, prompts, polls, *)
(* estimates and failures: the dialog is on the page's listing; a          *)
(* transaction is broadcast with the sequence that the last block left, so *)
(* one at a time waits for a block; and a purchase has the royalty, since  *)
(* nothing but a deposit is prepared before the royalty is there.  For a   *)
(* user who presses no button that is loading, and polls that do not       *)
(* overlap, the two steps are two: the hook follows the one transaction    *)
(* that is on its way, a reservation that runs is that of its deposit, and *)
(* what is signed after it is the purchase, once.                          *)
(***************************************************************************)
EXTENDS Uploads, BuyDialog, FiniteSetTheorems, SequenceTheorems, WellFoundedInduction, TLAPS

\* A page is well-formed.
PageType(t) ==
    /\ page[t] \in Page
    /\ page[t].items # <<>> => page[t].at \in 1 .. Len(page[t].items)

Uploading == {"start", "folder", "number", "rows", "picture", "description", "confirm"}
Editing == {"form", "edit"}
Numbered(t) == page[t].kind # "one" \/ page[t].step \in {"rows", "picture", "description", "confirm"}
Items(t) == 1 .. Len(page[t].items)

\* A page at work has a user and items, which are files with a number, unless it
\* is at work on one that has yet to get it.
Busy(t) ==
    /\ page[t].step \in {"select", "insert", "sign", "edit"} \cup Uploading => page[t].user \in User
    /\ page[t].step \in Uploading \cup Editing =>
          /\ page[t].kind # "session" /\ page[t].items # <<>>
          /\ page[t].kind # "bulk" => Len(page[t].items) = 1
          /\ \A k \in Items(t) : page[t].items[k].pic \in Picture
          /\ Numbered(t) => \A k \in Items(t) : page[t].items[k].id \in Id
    /\ page[t].step = "number" => page[t].kind = "one"
    /\ page[t].step \in Editing => page[t].kind = "edit"
    /\ page[t].step \in Uploading \ {"description"} => page[t].kind # "edit"

\* It has found the launch's row, or made it, and puts objects where this says.
Placed(t) ==
    page[t].step \in {"number", "rows", "picture", "description", "confirm"} \cup Editing =>
        /\ pad # NoPad
        /\ page[t].step \notin Editing => page[t].folder = pad.folder

\* With no request refused, the items behind it are in the store.
Put(t) ==
    refused = 0 /\ page[t].step \in {"picture", "description", "confirm"} \cup Editing =>
        /\ page[t].kind # "edit" =>
              \A k \in Items(t) : page[t].step = "confirm" \/ k < page[t].at =>
                 doc[<<pad.folder, page[t].items[k].id>>] # NoDoc
        /\ page[t].step # "picture" /\ page[t].step # "confirm" =>
              file[<<pad.folder, item(t).name>>] # NoPicture

PageInv(t) == PageType(t) /\ Busy(t) /\ Placed(t) /\ Put(t)

\* The numbers that are taken, and the pages that will take one more each.
Top == IF Highest < MaxSupply THEN MaxSupply ELSE Highest
Asking == {t \in Tab : page[t].kind = "one" /\ page[t].step \in {"start", "folder", "number", "rows"}}

Space ==
    /\ Top + Cardinality(Asking) <= MaxId
    /\ \A t \in Tab : page[t].step = "rows" =>
          \A k \in Items(t) :
             page[t].items[k].id <= IF page[t].kind = "one" THEN Top + 1 ELSE MaxSupply
    /\ \A t \in Tab : page[t].kind = "bulk" => \A k \in Items(t) : page[t].items[k].id <= MaxSupply

IInv ==
    /\ TypeOK /\ \A t \in Tab : PageInv(t)
    /\ Space
    /\ StoredSessionIsVerified /\ ObjectsAreFound
    /\ DescribedPictureExists /\ CountedIsStored
-----------------------------------------------------------------------------
(* Numbers *)

LEMMA Greatest ==
  ASSUME NEW S \in SUBSET Id, S # {}
  PROVE  \E i \in S : \A j \in S : j <= i
  <1> DEFINE less == {MaxId - i : i \in S}
             R == {p \in Nat \X Nat : p[1] < p[2]}
  <1>1. \A i \in S : i \in Nat /\ MaxId - i \in Nat /\ MaxId \in Nat
    BY UploadsAssumption DEF Id
  <1>2. less \subseteq Nat /\ less # {}
    BY <1>1
  <1>3. IsWellFoundedOn(R, Nat)
    BY NatLessThanWellFounded DEF OpToRel
  <1>4. PICK n \in less : \A m \in less : <<m, n>> \notin R
    <2> HIDE DEF less, R
    <2> QED
      BY <1>2, <1>3, WFMin
  <1>5. PICK i \in S : n = MaxId - i
    BY <1>4
  <1>6. \A j \in S : ~(MaxId - j < MaxId - i)
    BY <1>1, <1>4, <1>5
  <1> QED
    BY <1>1, <1>5, <1>6

LEMMA HighestIs ==
  ASSUME NEW S \in SUBSET Id, NEW h, h = IF S = {} THEN 0 ELSE CHOOSE i \in S : \A j \in S : j <= i
  PROVE  h \in 0 .. MaxId /\ (\A i \in S : i <= h) /\ (h = 0 \/ h \in S)
  <1>1. MaxId \in Nat
    BY UploadsAssumption
  <1>2. CASE S = {}
    BY <1>1, <1>2
  <1>3. CASE S # {}
    <2>1. \E i \in S : \A j \in S : j <= i
      BY <1>3, Greatest
    <2>2. h = CHOOSE i \in S : \A j \in S : j <= i
      BY <1>3
    <2>3. h \in S /\ \A j \in S : j <= h
      BY <2>1, <2>2, Zenon
    <2>4. \A i \in Id : i \in 0 .. MaxId
      BY <1>1 DEF Id
    <2> QED
      BY <2>3, <2>4, Zenon
  <1> QED
    BY <1>2, <1>3, Zenon

LEMMA TopIs ==
  /\ Top \in Nat /\ MaxSupply \in Nat /\ MaxSupply <= Top /\ Highest \in Nat /\ Highest <= Top
  /\ \A i \in Rows : i <= Top
  <1>1. Rows \subseteq Id
    BY DEF Rows
  <1>2. Highest \in 0 .. MaxId /\ \A i \in Rows : i <= Highest
    BY <1>1, HighestIs DEF Highest
  <1>3. MaxId \in Nat /\ MaxSupply \in Nat
    BY UploadsAssumption
  <1> QED
    BY <1>1, <1>2, <1>3 DEF Top, Id

\* Rows that stay keep the numbers taken, and a new one takes its own.
LEMMA TopGrows ==
  ASSUME NEW n \in Nat, Rows \subseteq Rows', \A i \in Rows' \ Rows : i <= n
  PROVE  /\ Top \in Nat /\ Top' \in Nat /\ MaxSupply <= Top /\ MaxSupply \in Nat
         /\ Top <= Top' /\ (Top' <= Top \/ Top' <= n)
  <1>1. /\ Highest \in 0 .. MaxId /\ Rows \subseteq Id /\ \A i \in Rows : i <= Highest
        /\ Highest = 0 \/ Highest \in Rows
    <2>1. Rows \subseteq Id
      BY DEF Rows
    <2> QED
      BY <2>1, HighestIs DEF Highest
  <1>2. /\ Highest' \in 0 .. MaxId /\ Rows' \subseteq Id /\ \A i \in Rows' : i <= Highest'
        /\ Highest' = 0 \/ Highest' \in Rows'
    <2>1. Rows' \subseteq Id
      BY DEF Rows
    <2> QED
      BY <2>1, HighestIs DEF Highest
  <1>3. MaxId \in Nat /\ MaxSupply \in Nat
    BY UploadsAssumption
  <1>4. Highest <= Highest' /\ (Highest' <= Highest \/ Highest' <= n)
    BY <1>1, <1>2, <1>3 DEF Id
  <1> QED
    BY <1>1, <1>2, <1>3, <1>4 DEF Top
-----------------------------------------------------------------------------
(* What the steps of a page leave to the others *)

\* Nothing is taken out of the tables or the store.
Grows ==
    /\ pad # NoPad => pad' = pad
    /\ \A x \in Tab \X Name : file[x] # NoPicture => file'[x] # NoPicture
    /\ \A x \in Tab \X Id : doc[x] # NoDoc => doc'[x] # NoDoc
    /\ Rows \subseteq Rows'
    /\ refused \in Nat /\ refused' \in {refused, refused + 1}

Others(t) == \A u \in Tab \ {t} : page'[u] = page[u]

LEMMA Kept ==
  ASSUME UNCHANGED <<tables, store>>, refused \in Nat, refused' \in {refused, refused + 1}
  PROVE  Grows
  BY DEF tables, store, Grows, Rows

LEMMA ItemsTyped ==
  ASSUME NEW t \in Tab, PageType(t), NEW k \in Items(t)
  PROVE  page[t].items[k] \in Item
  <1>1. page[t].items \in Seq(Item)
    BY DEF PageType, Page
  <1> QED
    BY <1>1, LenProperties DEF Items

\* The page of another tab is where it was.
LEMMA Stay ==
  ASSUME Grows, NEW u \in Tab, TypeOK, PageInv(u), page'[u] = page[u]
  PROVE  PageInv(u)'
  <1>1. PageType(u)' /\ Busy(u)' /\ Items(u)' = Items(u) /\ item(u)' = item(u)
    BY DEF PageInv, PageType, Busy, Numbered, Items, item
  <1>2. Placed(u)'
    BY DEF PageInv, Placed, Grows
  <1>3. Put(u)'
    <2> SUFFICES ASSUME refused' = 0,
                        page[u].step \in {"picture", "description", "confirm"} \cup Editing
                 PROVE  /\ page[u].kind # "edit" =>
                              \A k \in Items(u) : page[u].step = "confirm" \/ k < page[u].at =>
                                 doc'[<<pad'.folder, page[u].items[k].id>>] # NoDoc
                        /\ page[u].step # "picture" /\ page[u].step # "confirm" =>
                              file'[<<pad'.folder, item(u).name>>] # NoPicture
      BY <1>1 DEF Put
    <2>1. refused = 0 /\ pad # NoPad /\ pad' = pad /\ Put(u)
      BY DEF Grows, PageInv, Placed, Editing
    <2>2. pad.folder \in Tab
      BY <2>1 DEF TypeOK
    <2>3. ASSUME page[u].kind # "edit", NEW k \in Items(u), page[u].step = "confirm" \/ k < page[u].at
          PROVE  doc'[<<pad'.folder, page[u].items[k].id>>] # NoDoc
      <3>1. page[u].step \in Uploading /\ Numbered(u)
        BY <2>3 DEF PageInv, Busy, Uploading, Editing, Numbered
      <3>2. page[u].items[k].id \in Id
        BY <3>1 DEF PageInv, Busy
      <3>3. doc[<<pad.folder, page[u].items[k].id>>] # NoDoc
        BY <2>1, <2>3 DEF Put
      <3> QED
        BY <2>1, <2>2, <3>2, <3>3 DEF Grows
    <2>4. ASSUME page[u].step # "picture" /\ page[u].step # "confirm"
          PROVE  file'[<<pad'.folder, item(u).name>>] # NoPicture
      <3>1. page[u].items # <<>>
        BY DEF PageInv, Busy, Uploading, Editing
      <3>2. item(u) \in Item
        BY <3>1, ItemsTyped DEF PageInv, PageType, Items, item
      <3>3. item(u).name \in Name /\ file[<<pad.folder, item(u).name>>] # NoPicture
        BY <2>1, <2>4, <3>2 DEF Put, Item
      <3> QED
        BY <2>1, <2>2, <3>3 DEF Grows
    <2> QED
      BY <2>3, <2>4
  <1> QED
    BY <1>1, <1>2, <1>3 DEF PageInv

LEMMA IdleIs ==
  ASSUME NEW t \in Tab
  PROVE  /\ Idle(t) \in Page /\ Idle(t).kind = "one" /\ Idle(t).step = "idle"
         /\ Idle(t).items = <<>> /\ Idle(t).at = 1 /\ Idle(t).user = NoUser /\ Idle(t).folder = t
  BY DEF Idle, Page, Steps, ServiceSteps, StoreSteps

LEMMA IdlePage ==
  ASSUME NEW t \in Tab, page'[t] = Idle(t)
  PROVE  PageInv(t)'
  <1>1. Idle(t) \in Page
    BY DEF Idle, Page, Steps, ServiceSteps, StoreSteps
  <1> QED
    BY <1>1 DEF Idle, PageInv, PageType, Busy, Placed, Put, Uploading, Editing
-----------------------------------------------------------------------------
(* The steps of a page *)

TablesType ==
    /\ session \in [User -> {"none", "new", "verified"}]
    /\ stored \in User \cup {NoUser}
    /\ pad \in [creator: User, folder: Tab] \cup {NoPad}
    /\ row \in [Id -> [name: Name, uploaded: BOOLEAN] \cup {NoRow}]
    /\ file \in [Tab \X Name -> Picture \cup {NoPicture}]
    /\ doc \in [Tab \X Id -> [name: Name, of: Picture] \cup {NoDoc}]
    /\ refused \in 0 .. MaxRefused

LEMMA TypeIs == TypeOK <=> TablesType /\ page \in [Tab -> Page] /\ \A t \in Tab : PageType(t)
  BY DEF TypeOK, TablesType, PageType

\* What a step that only turns the page of t does.
LEMMA Turned ==
  ASSUME NEW t \in Tab, NEW q \in Page, TypeOK, TablesType',
         q.items # <<>> => q.at \in 1 .. Len(q.items), page' = [page EXCEPT ![t] = q]
  PROVE  TypeOK' /\ page'[t] = q /\ Others(t)
  <1>1. page \in [Tab -> Page] /\ \A u \in Tab : PageType(u)
    BY TypeIs
  <1>2. page' \in [Tab -> Page] /\ page'[t] = q /\ \A u \in Tab \ {t} : page'[u] = page[u]
    BY <1>1
  <1>3. \A u \in Tab : PageType(u)'
    BY <1>1, <1>2 DEF PageType
  <1>4. TypeOK'
    BY <1>2, <1>3 DEF TypeOK, TablesType, PageType
  <1> QED
    BY <1>2, <1>4 DEF Others

LEMMA SameTables ==
  ASSUME TypeOK, UNCHANGED <<tables, stored, store, refused>>
  PROVE  TablesType' /\ Grows
  <1>1. refused \in Nat
    BY UploadsAssumption DEF TypeOK
  <1> QED
    BY <1>1, Kept DEF TypeOK, TablesType, tables, store

LEMMA Stepped ==
  ASSUME NEW t \in Tab, NEW s \in Steps, TypeOK, TablesType', Goto(t, s)
  PROVE  /\ TypeOK' /\ Others(t) /\ PageType(t)'
         /\ page'[t].step = s /\ page'[t].kind = page[t].kind /\ page'[t].user = page[t].user
         /\ page'[t].folder = page[t].folder /\ page'[t].at = page[t].at
         /\ page'[t].items = page[t].items /\ Items(t)' = Items(t) /\ item(t)' = item(t)
  <1> DEFINE q == [page[t] EXCEPT !.step = s]
  <1>1. page[t] \in Page /\ PageType(t) /\ page' = [page EXCEPT ![t] = q]
    BY TypeIs DEF Goto
  <1>2. q \in Page /\ q.items = page[t].items /\ q.at = page[t].at
    BY <1>1 DEF Page
  <1>3. q.items # <<>> => q.at \in 1 .. Len(q.items)
    BY <1>1, <1>2 DEF PageType
  <1> HIDE DEF q
  <1>4. TypeOK' /\ Others(t) /\ page'[t] = q
    BY <1>1, <1>2, <1>3, Turned
  <1>5. PageType(t)'
    BY <1>4 DEF TypeOK, PageType
  <1> QED
    BY <1>1, <1>4, <1>5 DEF q, Page, Items, item

LEMMA Left ==
  ASSUME NEW t \in Tab, TypeOK, TablesType', Leave(t)
  PROVE  TypeOK' /\ Others(t) /\ PageInv(t)' /\ page'[t] = Idle(t)
  <1> DEFINE q == Idle(t)
  <1>1. q \in Page /\ q.items = <<>> /\ page' = [page EXCEPT ![t] = q]
    BY DEF Idle, Page, Steps, ServiceSteps, StoreSteps, Leave
  <1> HIDE DEF q
  <1>2. TypeOK' /\ Others(t) /\ page'[t] = q
    BY <1>1, Turned
  <1> QED
    BY <1>2, IdlePage DEF q

Good(t) == TypeOK' /\ Grows /\ Others(t) /\ PageInv(t)'

LEMMA LeaveGood ==
  ASSUME IInv, NEW t \in Tab, Leave(t), UNCHANGED <<tables, stored, store, refused>>
  PROVE  Good(t)
  BY SameTables, Left DEF IInv, Good

\* Sessions
LEMMA AskGood ==
  ASSUME IInv, NEW t \in Tab, NEW u \in User, Ask(t, u)
  PROVE  Good(t)
  <1> DEFINE q == [Idle(t) EXCEPT !.kind = "session", !.step = "select", !.user = u]
  <1>0. Idle(t) \in Page /\ Idle(t).items = <<>>
    BY IdleIs
  <1>1. /\ q \in Page /\ q.items = <<>> /\ q.step = "select" /\ q.kind = "session" /\ q.user = u
    BY <1>0 DEF Page, Steps
  <1>5. page' = [page EXCEPT ![t] = q]
    BY DEF Ask
  <1>2. TypeOK /\ TablesType' /\ Grows
    BY SameTables DEF Ask, IInv
  <1> HIDE DEF q
  <1>3. TypeOK' /\ Others(t) /\ page'[t] = q
    BY <1>1, <1>2, <1>5, Turned
  <1>4. PageInv(t)'
    BY <1>1, <1>3 DEF PageInv, PageType, Busy, Placed, Put, Uploading, Editing
  <1> QED
    BY <1>2, <1>3, <1>4 DEF Good

LEMMA SelectSessionGood ==
  ASSUME IInv, NEW t \in Tab, SelectSession(t)
  PROVE  Good(t)
  <1>1. PICK s \in {"insert", "sign"} : Goto(t, s)
    BY DEF SelectSession
  <1>2. TypeOK /\ TablesType' /\ Grows
    BY SameTables DEF SelectSession, IInv
  <1>3. s \in Steps
    BY DEF Steps
  <1>4. /\ TypeOK' /\ Others(t) /\ PageType(t)'
        /\ page'[t].step = s /\ page'[t].kind = page[t].kind /\ page'[t].user = page[t].user
    BY <1>1, <1>2, <1>3, Stepped
  <1>5. page[t].user \in User
    BY DEF IInv, PageInv, Busy, SelectSession, At
  <1>6. PageInv(t)'
    BY <1>1, <1>4, <1>5 DEF PageInv, Busy, Placed, Put, Uploading, Editing
  <1> QED
    BY <1>2, <1>4, <1>6 DEF Good

LEMMA InsertSessionGood ==
  ASSUME IInv, NEW t \in Tab, InsertSession(t)
  PROVE  Good(t)
  <1>1. page[t].user \in User
    BY DEF IInv, PageInv, Busy, InsertSession, At
  <1>2. TypeOK /\ TablesType' /\ refused \in Nat
    BY <1>1, UploadsAssumption DEF IInv, TypeOK, TablesType, InsertSession, store
  <1>3. Grows
    BY <1>2 DEF InsertSession, store, Grows, Rows
  <1>4. CASE Leave(t)
    BY <1>2, <1>3, <1>4, Left DEF Good
  <1>5. CASE Goto(t, "sign")
    <2>1. "sign" \in Steps
      BY DEF Steps
    <2>2. /\ TypeOK' /\ Others(t) /\ PageType(t)'
          /\ page'[t].step = "sign" /\ page'[t].kind = page[t].kind /\ page'[t].user = page[t].user
      BY <1>2, <1>5, <2>1, Stepped
    <2>3. PageInv(t)'
      BY <1>1, <2>2 DEF PageInv, Busy, Placed, Put, Uploading, Editing
    <2> QED
      BY <1>3, <2>2, <2>3 DEF Good
  <1> QED
    BY <1>4, <1>5 DEF InsertSession

LEMMA SignGood ==
  ASSUME IInv, NEW t \in Tab, Sign(t)
  PROVE  Good(t)
  <1>1. page[t].user \in User
    BY DEF IInv, PageInv, Busy, Sign, At
  <1>2. TypeOK /\ TablesType' /\ refused \in Nat
    BY <1>1, UploadsAssumption DEF IInv, TypeOK, TablesType, Sign, store
  <1>3. Grows
    BY <1>2 DEF Sign, store, Grows, Rows
  <1> QED
    BY <1>2, <1>3, Left DEF Sign, Good

\* Uploading
LEMMA SubmitOneGood ==
  ASSUME IInv, NEW t \in Tab, SubmitOne(t)
  PROVE  Good(t)
  <1>1. PICK p \in Picture \cup {NoPicture} :
          page' = [page EXCEPT ![t] =
                    [Idle(t) EXCEPT !.step = IF p = NoPicture THEN "hung" ELSE "start",
                                    !.user = stored,
                                    !.items = <<[id |-> 0, name |-> 0, pic |-> p]>>]]
    BY DEF SubmitOne
  <1> DEFINE s == IF p = NoPicture THEN "hung" ELSE "start"
             x == [id |-> 0, name |-> 0, pic |-> p]
             q == [Idle(t) EXCEPT !.step = s, !.user = stored, !.items = <<x>>]
  <1>2. TypeOK /\ TablesType' /\ Grows /\ stored \in User
    BY SameTables DEF SubmitOne, IInv, TypeOK
  <1>3. x \in Item /\ x.pic = p
    BY UploadsAssumption DEF Item, Name
  <1>4. s \in Steps /\ s \in {"hung", "start"} /\ (s = "start" => p \in Picture)
    BY DEF Steps, ServiceSteps
  <1>5. Idle(t) \in Page /\ Idle(t).kind = "one" /\ Idle(t).at = 1
    BY IdleIs
  <1> HIDE DEF s, x
  <1>6. <<x>> \in Seq(Item) /\ Len(<<x>>) = 1 /\ <<x>> # <<>> /\ <<x>>[1] = x
    BY <1>3
  <1>7. /\ q \in Page /\ q.items = <<x>> /\ q.step = s /\ q.kind = "one" /\ q.user = stored
        /\ q.at = 1
    BY <1>2, <1>4, <1>5, <1>6 DEF Page
  <1>8. page' = [page EXCEPT ![t] = q]
    BY <1>1 DEF s, x
  <1> HIDE DEF q
  <1>11. q.at \in 1 .. Len(q.items)
    BY <1>6, <1>7
  <1>9. TypeOK' /\ Others(t) /\ page'[t] = q
    BY <1>2, <1>7, <1>8, <1>11, Turned
  <1>10. PageInv(t)'
    <2>1. PageType(t)'
      BY <1>6, <1>7, <1>9 DEF PageType
    <2>2. Busy(t)'
      <3>1. page'[t].items = <<x>> /\ Len(page'[t].items) = 1 /\ page'[t].items # <<>>
        BY <1>6, <1>7, <1>9
      <3>2. \A k \in Items(t)' : page'[t].items[k] = x
        BY <1>6, <3>1 DEF Items
      <3> QED
        BY <1>2, <1>3, <1>4, <1>7, <1>9, <3>1, <3>2 DEF Busy, Uploading, Editing, Numbered
    <2>3. Placed(t)' /\ Put(t)'
      BY <1>4, <1>7, <1>9 DEF Placed, Put, Editing
    <2> QED
      BY <2>1, <2>2, <2>3 DEF PageInv
  <1> QED
    BY <1>2, <1>9, <1>10 DEF Good

LEMMA SubmitBulkGood ==
  ASSUME IInv, NEW t \in Tab, SubmitBulk(t)
  PROVE  Good(t) /\ \A k \in Items(t)' : page'[t].items[k].id <= MaxSupply
  <1>1. PICK b \in Batches :
          page' = [page EXCEPT ![t] =
                    [Idle(t) EXCEPT !.kind = "bulk", !.step = "start",
                                    !.user = stored, !.items = b]]
    BY DEF SubmitBulk
  <1> DEFINE q == [Idle(t) EXCEPT !.kind = "bulk", !.step = "start", !.user = stored, !.items = b]
             File == [id: 1 .. MaxSupply, name: 0 .. MaxName, pic: Picture]
  <1>2. TypeOK /\ TablesType' /\ Grows /\ stored \in User
    BY SameTables DEF SubmitBulk, IInv, TypeOK
  <1>3. b \in Seq(File) /\ b # <<>>
    BY UploadsAssumption
  <1>4. \A x \in File : x \in Item /\ x.id \in Id /\ x.id <= MaxSupply /\ x.pic \in Picture
    BY UploadsAssumption DEF Item, Id, Name
  <1> HIDE DEF File
  <1>5. Len(b) \in Nat /\ 1 \in 1 .. Len(b) /\ \A k \in 1 .. Len(b) : b[k] \in File
    <2>1. Len(b) \in Nat \ {0}
      BY <1>3, EmptySeq
    <2>2. \A k \in 1 .. Len(b) : b[k] \in File
      BY <1>3, LenProperties
    <2> QED
      BY <2>1, <2>2
  <1>6. b \in Seq(Item)
    BY <1>3, <1>4
  <1>7. "start" \in Steps
    BY DEF Steps, ServiceSteps
  <1>8. Idle(t) \in Page /\ Idle(t).at = 1
    BY IdleIs
  <1>9. /\ q \in Page /\ q.items = b /\ q.step = "start" /\ q.kind = "bulk" /\ q.user = stored
        /\ q.at = 1
    BY <1>2, <1>6, <1>7, <1>8 DEF Page
  <1>10. page' = [page EXCEPT ![t] = q]
    BY <1>1
  <1> HIDE DEF q
  <1>11. TypeOK' /\ Others(t) /\ page'[t] = q
    BY <1>2, <1>5, <1>9, <1>10, Turned
  <1>12. PageInv(t)'
    <2>1. PageType(t)'
      BY <1>5, <1>9, <1>11 DEF PageType
    <2>2. Busy(t)'
      BY <1>2, <1>3, <1>4, <1>5, <1>9, <1>11 DEF Busy, Uploading, Editing, Items
    <2>3. Placed(t)' /\ Put(t)'
      BY <1>9, <1>11 DEF Placed, Put, Editing
    <2> QED
      BY <2>1, <2>2, <2>3 DEF PageInv
  <1>13. \A k \in Items(t)' : page'[t].items[k].id <= MaxSupply
    BY <1>4, <1>5, <1>9, <1>11 DEF Items
  <1> QED
    BY <1>2, <1>11, <1>12, <1>13 DEF Good

\* A page that starts with its user and its files.
Ready(t) ==
    /\ page[t].user \in User /\ page[t].kind \in {"one", "bulk"} /\ page[t].items # <<>>
    /\ page[t].kind = "one" => Len(page[t].items) = 1
    /\ \A k \in Items(t) : page[t].items[k].pic \in Picture
    /\ page[t].kind = "bulk" => \A k \in Items(t) : page[t].items[k].id \in Id

LEMMA IsReady ==
  ASSUME IInv, NEW t \in Tab, page[t].step \in {"start", "folder", "number", "rows"}
  PROVE  Ready(t) /\ PageType(t) /\ page[t] \in Page
  <1>1. PageType(t) /\ Busy(t) /\ page[t] \in Page
    BY DEF IInv, PageInv, PageType
  <1>2. page[t].kind \in {"one", "bulk"}
    BY <1>1 DEF Busy, Page, Uploading
  <1> QED
    BY <1>1, <1>2 DEF Busy, Uploading, Ready, Numbered

LEMMA IntoFolder ==
  ASSUME IInv, NEW t \in Tab, NEW f \in Tab, TablesType', Grows,
         page[t].step \in {"start", "folder"}, pad' # NoPad, pad'.folder = f,
         page' = [page EXCEPT ![t].folder = f, ![t].step = AfterFolder(t)]
  PROVE  Good(t)
  <1> DEFINE s == AfterFolder(t)
             q == [page[t] EXCEPT !.folder = f, !.step = s]
  <1>1. Ready(t) /\ PageType(t) /\ page[t] \in Page /\ TypeOK
    BY IsReady DEF IInv
  <1>2. s \in Steps /\ s \in {"number", "rows"} /\ (s = "number" <=> page[t].kind = "one")
    BY DEF AfterFolder, Steps, ServiceSteps
  <1>3. page' = [page EXCEPT ![t] = q]
    BY <1>1 DEF TypeOK
  <1> HIDE DEF s
  <1>4. /\ q \in Page /\ q.items = page[t].items /\ q.at = page[t].at /\ q.kind = page[t].kind
        /\ q.step = s /\ q.user = page[t].user /\ q.folder = f
    BY <1>1, <1>2 DEF Page
  <1> HIDE DEF q
  <1>7. q.items # <<>> => q.at \in 1 .. Len(q.items)
    BY <1>1, <1>4 DEF PageType
  <1>5. TypeOK' /\ Others(t) /\ page'[t] = q
    BY <1>1, <1>3, <1>4, <1>7, Turned
  <1>6. PageInv(t)'
    <2>1. PageType(t)'
      BY <1>5 DEF TypeOK, PageType
    <2>2. Busy(t)'
      BY <1>1, <1>2, <1>4, <1>5 DEF Ready, Busy, Uploading, Editing, Items, Numbered
    <2>3. Placed(t)' /\ Put(t)'
      BY <1>2, <1>4, <1>5 DEF Placed, Put, Editing
    <2> QED
      BY <2>1, <2>2, <2>3 DEF PageInv
  <1> QED
    BY <1>5, <1>6 DEF Good

LEMMA StartGood ==
  ASSUME IInv, NEW t \in Tab, Start(t)
  PROVE  Good(t)
  <1>1. page[t].step = "start" /\ TypeOK /\ TablesType' /\ Grows
    BY SameTables DEF Start, At, IInv
  <1>2. CASE Leave(t)
    BY <1>2, LeaveGood DEF Start
  <1>3. CASE Goto(t, "folder")
    <2>1. "folder" \in Steps
      BY DEF Steps, ServiceSteps
    <2>2. /\ TypeOK' /\ Others(t) /\ PageType(t)'
          /\ page'[t].step = "folder" /\ page'[t].kind = page[t].kind /\ page'[t].user = page[t].user
          /\ page'[t].items = page[t].items /\ Items(t)' = Items(t)
      BY <1>1, <1>3, <2>1, Stepped
    <2>3. Ready(t)
      BY <1>1, IsReady
    <2>4. Busy(t)'
      BY <2>2, <2>3 DEF Ready, Busy, Uploading, Editing, Numbered
    <2>5. Placed(t)' /\ Put(t)'
      BY <2>2 DEF Placed, Put, Editing
    <2> QED
      BY <1>1, <2>2, <2>4, <2>5 DEF Good, PageInv
  <1>4. CASE Owned(t) /\ page' = [page EXCEPT ![t].folder = pad.folder, ![t].step = AfterFolder(t)]
    <2>1. pad' = pad /\ pad # NoPad
      BY <1>4 DEF Start, tables, Owned
    <2>2. pad.folder \in Tab
      BY <1>1, <2>1 DEF TypeOK
    <2> QED
      BY <1>1, <1>4, <2>1, <2>2, IntoFolder
  <1> QED
    BY <1>2, <1>3, <1>4 DEF Start

LEMMA FolderGood ==
  ASSUME IInv, NEW t \in Tab, Folder(t)
  PROVE  Good(t)
  <1>1. page[t].step = "folder" /\ TypeOK
    BY DEF Folder, At, IInv
  <1>2. page[t].user \in User /\ refused \in Nat
    BY <1>1, IsReady, UploadsAssumption DEF Ready, TypeOK
  <1>3. CASE pad = NoPad
    <2> DEFINE p == [creator |-> page[t].user, folder |-> t]
    <2>1. pad' = p /\ p \in [creator: User, folder: Tab] /\ p.folder = t
      BY <1>2, <1>3 DEF Folder
    <2>2. pad' # NoPad /\ pad'.folder = t
      BY <2>1, UploadsAssumption
    <2>3. TablesType'
      BY <1>1, <2>1 DEF Folder, TypeOK, TablesType, store
    <2>4. Grows
      BY <1>2, <1>3 DEF Folder, Grows, store, Rows
    <2>5. page' = [page EXCEPT ![t].folder = t, ![t].step = AfterFolder(t)]
      BY <1>3 DEF Folder
    <2> QED
      BY <1>1, <2>2, <2>3, <2>4, <2>5, IntoFolder
  <1>4. CASE pad # NoPad
    BY <1>4, LeaveGood DEF Folder, tables
  <1> QED
    BY <1>3, <1>4

\* There is a number for every page that asks for one.
LEMMA AskingFinite == IsFiniteSet(Asking) /\ Cardinality(Asking) \in Nat
  <1>1. IsFiniteSet(Asking)
    BY FS_Subset, UploadsAssumption DEF Asking
  <1> QED
    BY <1>1, FS_CardinalityType

LEMMA NumberFits ==
  ASSUME Space, NEW t \in Tab, t \in Asking
  PROVE  Top + 1 <= MaxId /\ Top \in Nat /\ MaxId \in Nat
  <1>1. Cardinality(Asking) # 0
    BY AskingFinite, FS_EmptySet
  <1>2. Top \in Nat /\ MaxId \in Nat
    BY TopIs, UploadsAssumption
  <1> QED
    BY <1>1, <1>2, AskingFinite DEF Space

LEMMA NumberGood ==
  ASSUME IInv, NEW t \in Tab, Number(t)
  PROVE  /\ Good(t) /\ \A k \in Items(t)' : page'[t].items[k].id <= Top + 1
         /\ page'[t].kind = "one" /\ page'[t].step = "rows"
  <1>1. page[t].step = "number" /\ TypeOK /\ TablesType' /\ Grows
    BY SameTables DEF Number, At, IInv
  <1>2. Ready(t) /\ PageType(t) /\ page[t] \in Page /\ page[t].kind = "one"
    BY <1>1, IsReady DEF IInv, PageInv, Busy
  <1>3. /\ page[t].items \in Seq(Item) /\ Len(page[t].items) = 1 /\ page[t].at = 1
        /\ page[t].items[1] \in Item /\ page[t].items[1].pic \in Picture
    <2>1. page[t].items \in Seq(Item) /\ Len(page[t].items) = 1 /\ page[t].at \in 1 .. Len(page[t].items)
      BY <1>2 DEF Ready, PageType, Page
    <2>2. 1 \in Items(t) /\ page[t].at = 1
      BY <2>1 DEF Items
    <2> QED
      BY <1>2, <2>1, <2>2, ItemsTyped DEF Ready
  <1>4. Highest + 1 \in Id /\ Highest + 1 \in Name /\ Highest + 1 <= Top + 1
    <2>1. t \in Asking
      BY <1>1, <1>2 DEF Asking
    <2>2. Top + 1 <= MaxId /\ Top \in Nat /\ Highest \in Nat /\ Highest <= Top
      BY <2>1, NumberFits, TopIs DEF IInv
    <2> QED
      BY <2>2, UploadsAssumption DEF Id, Name
  <1> DEFINE n == Highest + 1
             x == [page[t].items[1] EXCEPT !.id = n, !.name = n]
             is == [page[t].items EXCEPT ![1] = x]
             q == [page[t] EXCEPT !.items = is, !.step = "rows"]
  <1>5. page' = [page EXCEPT ![t] = q]
    BY <1>1, <1>2, <1>3 DEF Number, TypeOK
  <1> HIDE DEF n
  <1>6. x \in Item /\ x.id = n /\ x.pic = page[t].items[1].pic
    BY <1>3, <1>4 DEF Item, n
  <1> HIDE DEF x
  <1>7. is \in Seq(Item) /\ Len(is) = 1 /\ is[1] = x /\ is # <<>>
    BY <1>3, <1>6, ExceptSeq, EmptySeq
  <1> HIDE DEF is
  <1>8. "rows" \in Steps
    BY DEF Steps, ServiceSteps
  <1>9. /\ q \in Page /\ q.items = is /\ q.at = 1 /\ q.kind = "one" /\ q.step = "rows"
        /\ q.user = page[t].user /\ q.folder = page[t].folder
    BY <1>2, <1>3, <1>7, <1>8 DEF Page
  <1> HIDE DEF q
  <1>10. q.items # <<>> => q.at \in 1 .. Len(q.items)
    BY <1>7, <1>9
  <1>11. TypeOK' /\ Others(t) /\ page'[t] = q
    BY <1>1, <1>5, <1>9, <1>10, Turned
  <1>12. \A k \in Items(t)' : page'[t].items[k] = x
    BY <1>7, <1>9, <1>11 DEF Items
  <1>13. PageInv(t)'
    <2>1. PageType(t)'
      BY <1>11 DEF TypeOK, PageType
    <2>2. Busy(t)'
      <3>1. page[t].user \in User
        BY <1>2 DEF Ready
      <3> QED
        BY <3>1, <1>3, <1>4, <1>6, <1>7, <1>9, <1>11, <1>12 DEF n, Busy, Uploading, Editing
    <2>3. Placed(t)'
      <3>1. pad # NoPad /\ page[t].folder = pad.folder /\ pad' = pad
        BY <1>1 DEF IInv, PageInv, Placed, Editing, Grows
      <3> QED
        BY <1>9, <1>11, <3>1 DEF Placed, Editing
    <2>4. Put(t)'
      BY <1>9, <1>11 DEF Put, Editing
    <2> QED
      BY <2>1, <2>2, <2>3, <2>4 DEF PageInv
  <1>14. \A k \in Items(t)' : page'[t].items[k].id <= Top + 1
    BY <1>4, <1>6, <1>12 DEF n
  <1> QED
    BY <1>1, <1>9, <1>11, <1>13, <1>14 DEF Good

\* A page that puts its files, with the one it is at.
Holding(t) ==
    /\ page[t].user \in User /\ page[t].kind \in {"one", "bulk"} /\ page[t].items # <<>>
    /\ page[t].kind = "one" => Len(page[t].items) = 1
    /\ \A k \in Items(t) : page[t].items[k].pic \in Picture /\ page[t].items[k].id \in Id
    /\ pad # NoPad /\ pad.folder = page[t].folder

LEMMA IsHolding ==
  ASSUME IInv, NEW t \in Tab, page[t].step \in {"rows", "picture", "confirm"}
  PROVE  Holding(t)
  <1>1. Busy(t) /\ Placed(t) /\ page[t] \in Page
    BY DEF IInv, PageInv, PageType
  <1>2. page[t].kind \in {"one", "bulk"}
    BY <1>1 DEF Busy, Page, Uploading
  <1> QED
    BY <1>1, <1>2 DEF Busy, Uploading, Editing, Holding, Numbered, Placed

\* A page with files is at one of them.
LEMMA ItemHere ==
  ASSUME TypeOK, NEW t \in Tab, page[t].items # <<>>
  PROVE  /\ page[t].at \in Items(t) /\ item(t) \in Item /\ Len(page[t].items) \in Nat
         /\ page[t] \in Page
  <1>1. PageType(t) /\ page[t].at \in Items(t)
    BY TypeIs DEF PageType, Items
  <1>2. page[t].items \in Seq(Item)
    BY <1>1 DEF PageType, Page
  <1> QED
    BY <1>1, <1>2, ItemsTyped, LenProperties DEF item, PageType

LEMMA Looped ==
  ASSUME NEW t \in Tab, NEW again \in Steps, NEW next \in Steps, TypeOK, TablesType',
         page[t].items # <<>>, Loop(t, again, next)
  PROVE  /\ TypeOK' /\ Others(t) /\ PageType(t)'
         /\ page'[t].kind = page[t].kind /\ page'[t].user = page[t].user
         /\ page'[t].folder = page[t].folder
         /\ page'[t].items = page[t].items /\ Items(t)' = Items(t)
         /\ Last(t) => page'[t].at = 1 /\ page'[t].step = next
         /\ ~Last(t) => page'[t].at = page[t].at + 1 /\ page'[t].step = again
  <1> DEFINE n == IF Last(t) THEN 1 ELSE page[t].at + 1
             s == IF Last(t) THEN next ELSE again
             q == [page[t] EXCEPT !.at = n, !.step = s]
  <1>1. page[t] \in Page /\ page[t].at \in 1 .. Len(page[t].items) /\ Len(page[t].items) \in Nat
    BY ItemHere DEF Items
  <1>2. n \in Nat /\ n \in 1 .. Len(page[t].items) /\ s \in Steps
    BY <1>1 DEF Last
  <1>3. page' = [page EXCEPT ![t] = q]
    BY <1>1 DEF Loop, TypeOK
  <1> HIDE DEF n, s
  <1>4. /\ q \in Page /\ q.items = page[t].items /\ q.at = n /\ q.kind = page[t].kind
        /\ q.step = s /\ q.user = page[t].user /\ q.folder = page[t].folder
    BY <1>1, <1>2 DEF Page
  <1> HIDE DEF q
  <1>5. q.items # <<>> => q.at \in 1 .. Len(q.items)
    BY <1>2, <1>4
  <1>6. TypeOK' /\ Others(t) /\ page'[t] = q
    BY <1>3, <1>4, <1>5, Turned
  <1>7. PageType(t)'
    BY <1>6 DEF TypeOK, PageType
  <1> QED
    BY <1>4, <1>6, <1>7 DEF Items, n, s

LEMMA InsertRowGood ==
  ASSUME IInv, NEW t \in Tab, InsertRow(t)
  PROVE  Good(t)
  <1>1. page[t].step = "rows" /\ TypeOK
    BY DEF InsertRow, At, IInv
  <1>2. Holding(t) /\ item(t) \in Item /\ item(t).id \in Id /\ refused \in Nat
    BY <1>1, IsHolding, ItemHere, UploadsAssumption DEF Holding, item, TypeOK
  <1> DEFINE x == [name |-> item(t).name, uploaded |-> FALSE]
  <1>3. x \in [name: Name, uploaded: BOOLEAN]
    BY <1>2 DEF Item
  <1> HIDE DEF x
  <1>4. row' = row \/ (row[item(t).id] = NoRow /\ row' = [row EXCEPT ![item(t).id] = x])
    BY DEF InsertRow, x
  <1>5. row' \in [Id -> [name: Name, uploaded: BOOLEAN] \cup {NoRow}]
    BY <1>1, <1>2, <1>3, <1>4 DEF TypeOK
  <1>6. TablesType'
    BY <1>1, <1>5 DEF InsertRow, TypeOK, TablesType, store
  <1>7. Rows \subseteq Rows'
    BY <1>1, <1>2, <1>4 DEF Rows, TypeOK
  <1>8. Grows
    BY <1>2, <1>7 DEF InsertRow, Grows, store
  <1>9. "rows" \in Steps /\ "picture" \in Steps /\ page[t].items # <<>>
    BY <1>2 DEF Steps, ServiceSteps, StoreSteps, Holding
  <1>10. /\ TypeOK' /\ Others(t) /\ PageType(t)'
         /\ page'[t].kind = page[t].kind /\ page'[t].user = page[t].user
         /\ page'[t].folder = page[t].folder
         /\ page'[t].items = page[t].items /\ Items(t)' = Items(t)
         /\ Last(t) => page'[t].at = 1 /\ page'[t].step = "picture"
         /\ ~Last(t) => page'[t].at = page[t].at + 1 /\ page'[t].step = "rows"
    BY <1>1, <1>6, <1>9, Looped DEF InsertRow
  <1>11. Busy(t)' /\ Placed(t)'
    BY <1>2, <1>8, <1>10 DEF Busy, Placed, Holding, Uploading, Editing, Grows
  <1>12. Put(t)'
    <2>1. \A k \in Items(t) : ~(k < 1)
      BY DEF Items
    <2> QED
      BY <1>10, <2>1 DEF Put, Editing
  <1> QED
    BY <1>8, <1>10, <1>11, <1>12 DEF Good, PageInv

LEMMA PutPictureGood ==
  ASSUME IInv, NEW t \in Tab, PutPicture(t)
  PROVE  Good(t)
  <1>1. page[t].step = "picture" /\ TypeOK /\ refused \in Nat
    BY UploadsAssumption DEF PutPicture, At, IInv, TypeOK
  <1>2. /\ Holding(t) /\ item(t).name \in Name /\ item(t).pic \in Picture
        /\ page[t].folder \in Tab
    BY <1>1, IsHolding, ItemHere DEF Holding, item, Item, Page
  <1> DEFINE x == <<page[t].folder, item(t).name>>
  <1>3. x \in Tab \X Name /\ file' = [file EXCEPT ![x] = item(t).pic]
    BY <1>2 DEF PutPicture
  <1>4. file'[x] # NoPicture /\ file' \in [Tab \X Name -> Picture \cup {NoPicture}]
    BY <1>1, <1>2, <1>3, UploadsAssumption DEF TypeOK
  <1>5. TablesType'
    BY <1>1, <1>4 DEF PutPicture, TypeOK, TablesType, tables
  <1>6. Grows
    BY <1>1, <1>3, <1>4 DEF PutPicture, Grows, tables, Rows, TypeOK
  <1>7. "description" \in Steps
    BY DEF Steps, StoreSteps
  <1>8. /\ TypeOK' /\ Others(t) /\ PageType(t)'
        /\ page'[t].step = "description" /\ page'[t].kind = page[t].kind
        /\ page'[t].user = page[t].user /\ page'[t].folder = page[t].folder
        /\ page'[t].at = page[t].at
        /\ page'[t].items = page[t].items /\ Items(t)' = Items(t) /\ item(t)' = item(t)
    BY <1>1, <1>5, <1>7, Stepped DEF PutPicture
  <1>9. Busy(t)' /\ Placed(t)'
    BY <1>2, <1>6, <1>8 DEF Busy, Placed, Holding, Uploading, Editing, Grows
  <1>10. Put(t)'
    <2>1. pad' = pad /\ pad.folder = page[t].folder /\ doc' = doc /\ refused' = refused
      BY <1>2, <1>6 DEF Holding, Grows, PutPicture
    <2>2. Put(t) /\ page[t].kind # "edit"
      BY <1>2 DEF IInv, PageInv, Holding
    <2> QED
      BY <1>1, <1>4, <1>8, <2>1, <2>2 DEF Put
  <1> QED
    BY <1>6, <1>8, <1>9, <1>10 DEF Good, PageInv

Describing(t) ==
    /\ page[t].user \in User /\ page[t].kind \in {"one", "bulk", "edit"} /\ page[t].items # <<>>
    /\ page[t].kind # "bulk" => Len(page[t].items) = 1
    /\ \A k \in Items(t) : page[t].items[k].pic \in Picture /\ page[t].items[k].id \in Id
    /\ pad # NoPad /\ pad.folder = page[t].folder

LEMMA IsDescribing ==
  ASSUME IInv, NEW t \in Tab, page[t].step \in {"picture", "description"}
  PROVE  Describing(t)
  <1>1. Busy(t) /\ Placed(t) /\ page[t] \in Page
    BY DEF IInv, PageInv, PageType
  <1>2. page[t].kind \in {"one", "bulk", "edit"}
    BY <1>1 DEF Busy, Page, Uploading
  <1> QED
    BY <1>1, <1>2 DEF Busy, Uploading, Editing, Describing, Numbered, Placed

\* What a page is after its item, when it keeps to the launch's folder.
LEMMA NextItemGood ==
  ASSUME IInv, NEW t \in Tab, page[t].step \in {"picture", "description"}, TablesType', Grows,
         NextItem(t), refused' = 0 => /\ refused = 0
                                      /\ doc'[<<page[t].folder, item(t).id>>] # NoDoc
  PROVE  Good(t)
  <1>1. Describing(t) /\ TypeOK
    BY IsDescribing DEF IInv
  <1>2. page[t].step = "picture" => page[t].kind # "edit"
    BY DEF IInv, PageInv, Busy, Uploading
  <1> DEFINE next == AfterDoc(t)
  <1>3. /\ "picture" \in Steps /\ next \in Steps
        /\ next = IF page[t].kind = "edit" THEN "done" ELSE "confirm"
    BY DEF Steps, StoreSteps, AfterDoc
  <1>4. Loop(t, "picture", next) /\ page[t].items # <<>>
    BY <1>1 DEF NextItem, Describing
  <1> HIDE DEF next
  <1>5. /\ TypeOK' /\ Others(t) /\ PageType(t)'
        /\ page'[t].kind = page[t].kind /\ page'[t].user = page[t].user
        /\ page'[t].folder = page[t].folder
        /\ page'[t].items = page[t].items /\ Items(t)' = Items(t)
        /\ Last(t) => page'[t].at = 1 /\ page'[t].step = next
        /\ ~Last(t) => page'[t].at = page[t].at + 1 /\ page'[t].step = "picture"
    BY <1>1, <1>3, <1>4, Looped
  <1>6. page[t].at \in Items(t) /\ Len(page[t].items) \in Nat
    BY <1>1, ItemHere DEF Describing
  <1>7. page[t].kind = "edit" => Last(t)
    BY <1>1, <1>6 DEF Describing, Last, Items
  <1>8. Busy(t)' /\ Placed(t)'
    BY <1>1, <1>3, <1>5, <1>7 DEF Busy, Placed, Describing, Uploading, Editing, Grows
  <1>9. Put(t)'
    <2> SUFFICES ASSUME refused' = 0, page[t].kind # "edit"
                 PROVE  \A k \in Items(t) : page'[t].step = "confirm" \/ k < page'[t].at =>
                           doc'[<<pad'.folder, page[t].items[k].id>>] # NoDoc
      BY <1>3, <1>5, <1>7 DEF Put, Editing
    <2>1. pad' = pad /\ pad.folder = page[t].folder /\ pad.folder \in Tab
      BY <1>1 DEF Describing, Grows, TypeOK
    <2>2. \A k \in Items(t) : k < page[t].at => doc[<<pad.folder, page[t].items[k].id>>] # NoDoc
      BY DEF IInv, PageInv, Put
    <2>3. \A k \in Items(t) : k < page[t].at => doc'[<<pad.folder, page[t].items[k].id>>] # NoDoc
      BY <1>1, <2>1, <2>2 DEF Grows, Describing
    <2>4. doc'[<<pad.folder, page[t].items[page[t].at].id>>] # NoDoc
      BY <2>1 DEF item
    <2>5. \A k \in Items(t) : page'[t].step = "confirm" \/ k < page'[t].at => k <= page[t].at
      BY <1>3, <1>5, <1>6 DEF Last, Items
    <2>6. \A k \in Items(t) : k <= page[t].at => k < page[t].at \/ k = page[t].at
      BY <1>6 DEF Items
    <2> QED
      BY <2>1, <2>3, <2>4, <2>5, <2>6
  <1> QED
    BY <1>5, <1>8, <1>9 DEF Good, PageInv

LEMMA PutDescriptionGood ==
  ASSUME IInv, NEW t \in Tab, PutDescription(t)
  PROVE  Good(t)
  <1>1. page[t].step = "description" /\ TypeOK /\ refused \in Nat
    BY UploadsAssumption DEF PutDescription, At, IInv, TypeOK
  <1>2. /\ item(t).name \in Name /\ item(t).pic \in Picture /\ item(t).id \in Id
        /\ page[t].folder \in Tab
    BY <1>1, IsDescribing, ItemHere DEF Describing, item, Item, Page
  <1> DEFINE x == <<page[t].folder, item(t).id>>
             d == [name |-> item(t).name, of |-> item(t).pic]
  <1>3. /\ x \in Tab \X Id /\ d \in [name: Name, of: Picture] /\ doc' = [doc EXCEPT ![x] = d]
    BY <1>2 DEF PutDescription
  <1>4. d # NoDoc
    BY <1>3, UploadsAssumption DEF Name
  <1> HIDE DEF d
  <1>5. doc'[x] # NoDoc /\ doc' \in [Tab \X Id -> [name: Name, of: Picture] \cup {NoDoc}]
    BY <1>1, <1>3, <1>4 DEF TypeOK
  <1>6. TablesType'
    BY <1>1, <1>5 DEF PutDescription, TypeOK, TablesType, tables
  <1>7. Grows
    BY <1>1, <1>3, <1>5 DEF PutDescription, Grows, tables, Rows, TypeOK
  <1> QED
    BY <1>1, <1>5, <1>6, <1>7, NextItemGood DEF PutDescription

LEMMA RefuseGood ==
  ASSUME IInv, NEW t \in Tab, Refuse(t)
  PROVE  Good(t)
  <1>1. /\ page[t].step \in {"picture", "description"} /\ TypeOK
        /\ refused \in Nat /\ refused' = refused + 1 /\ refused' \in 0 .. MaxRefused
    BY UploadsAssumption DEF Refuse, StoreSteps, IInv, TypeOK
  <1>2. TablesType' /\ Grows
    BY <1>1, Kept DEF Refuse, TypeOK, TablesType, tables, store
  <1>3. CASE page[t].step = "picture" /\ Goto(t, "description")
    <2>1. "description" \in Steps
      BY DEF Steps, StoreSteps
    <2>2. /\ TypeOK' /\ Others(t) /\ PageType(t)'
          /\ page'[t].step = "description" /\ page'[t].kind = page[t].kind
          /\ page'[t].user = page[t].user /\ page'[t].folder = page[t].folder
          /\ page'[t].items = page[t].items /\ Items(t)' = Items(t)
      BY <1>1, <1>2, <1>3, <2>1, Stepped
    <2>3. Holding(t)
      BY <1>3, IsHolding
    <2>4. Busy(t)' /\ Placed(t)'
      BY <1>2, <2>2, <2>3 DEF Busy, Placed, Holding, Uploading, Editing, Grows
    <2>5. Put(t)'
      BY <1>1 DEF Put
    <2> QED
      BY <1>2, <2>2, <2>4, <2>5 DEF Good, PageInv
  <1>4. CASE NextItem(t)
    <2>1. refused' # 0
      BY <1>1
    <2> QED
      BY <1>1, <1>2, <1>4, <2>1, NextItemGood
  <1> QED
    BY <1>3, <1>4 DEF Refuse, At

\* A page that is done has nothing to keep.
LEMMA DoneGood ==
  ASSUME IInv, NEW t \in Tab, Goto(t, "done"), TablesType', Grows
  PROVE  Good(t)
  <1>1. "done" \in Steps /\ TypeOK
    BY DEF Steps, IInv
  <1>2. TypeOK' /\ Others(t) /\ PageType(t)' /\ page'[t].step = "done"
    BY <1>1, Stepped
  <1>3. PageInv(t)'
    BY <1>2 DEF PageInv, Busy, Placed, Put, Uploading, Editing
  <1> QED
    BY <1>2, <1>3 DEF Good

LEMMA ConfirmGood ==
  ASSUME IInv, NEW t \in Tab, Confirm(t)
  PROVE  Good(t) /\ Rows' = Rows
  <1>1. TypeOK /\ refused \in Nat
    BY UploadsAssumption DEF IInv, TypeOK
  <1> DEFINE R == [name: Name, uploaded: BOOLEAN]
  <1>2. NoRow \notin R /\ row \in [Id -> R \cup {NoRow}]
    BY <1>1, UploadsAssumption DEF TypeOK, Name
  <1>3. \A i \in Id : row[i] # NoRow => [row[i] EXCEPT !.uploaded = TRUE] \in R
    BY <1>2
  <1> HIDE DEF R
  <1>4. /\ row' \in [Id -> R \cup {NoRow}]
        /\ \A i \in Id : row'[i] = NoRow <=> row[i] = NoRow
    <2>1. CASE row' = row
      BY <1>2, <2>1
    <2>2. CASE row' = [i \in Id |-> IF i \in Ids(t) /\ row[i] # NoRow
                                    THEN [row[i] EXCEPT !.uploaded = TRUE] ELSE row[i]]
      BY <1>2, <1>3, <2>2
    <2> QED
      BY <2>1, <2>2 DEF Confirm
  <1>5. Rows' = Rows
    BY <1>4 DEF Rows
  <1>6. TablesType'
    BY <1>1, <1>4 DEF R, Confirm, TypeOK, TablesType, store
  <1>7. Grows
    BY <1>1, <1>5 DEF Confirm, Grows, store
  <1> QED
    BY <1>5, <1>6, <1>7, DoneGood DEF Confirm

LEMMA RefuseConfirmGood ==
  ASSUME IInv, NEW t \in Tab, RefuseConfirm(t)
  PROVE  Good(t)
  <1>1. TypeOK /\ refused \in Nat /\ refused' = refused + 1 /\ refused' \in 0 .. MaxRefused
    BY UploadsAssumption DEF RefuseConfirm, IInv, TypeOK
  <1>2. TablesType' /\ Grows
    BY <1>1, Kept DEF RefuseConfirm, TypeOK, TablesType, tables, store
  <1> QED
    BY <1>2, DoneGood DEF RefuseConfirm

\* Editing
LEMMA OpenGood ==
  ASSUME IInv, NEW t \in Tab, Open(t)
  PROVE  Good(t)
  <1>1. TypeOK /\ TablesType' /\ Grows /\ pad # NoPad /\ pad.folder \in Tab
    BY SameTables DEF Open, IInv, TypeOK
  <1>2. PICK i \in Uploaded :
         /\ doc[<<pad.folder, i>>] # NoDoc
         /\ page' = [page EXCEPT ![t] =
               [Idle(t) EXCEPT !.kind = "edit", !.step = "form",
                   !.items = <<[id |-> i, name |-> doc[<<pad.folder, i>>].name,
                                pic |-> doc[<<pad.folder, i>>].of]>>]]
    BY DEF Open
  <1> DEFINE d == doc[<<pad.folder, i>>]
             x == [id |-> i, name |-> d.name, pic |-> d.of]
             q == [Idle(t) EXCEPT !.kind = "edit", !.step = "form", !.items = <<x>>]
  <1>3. i \in Id /\ d \in [name: Name, of: Picture]
    BY <1>1, <1>2 DEF Uploaded, Rows, TypeOK
  <1>4. x \in Item /\ x.pic \in Picture /\ x.id \in Id /\ x.name = d.name
    BY <1>3 DEF Item
  <1>5. page' = [page EXCEPT ![t] = q]
    BY <1>2
  <1> HIDE DEF x
  <1>6. Idle(t) \in Page /\ Idle(t).at = 1
    BY IdleIs
  <1>7. "form" \in Steps
    BY DEF Steps
  <1>8. <<x>> \in Seq(Item) /\ Len(<<x>>) = 1 /\ <<x>> # <<>> /\ <<x>>[1] = x
    BY <1>4
  <1>9. q \in Page /\ q.items = <<x>> /\ q.step = "form" /\ q.kind = "edit" /\ q.at = 1
    BY <1>6, <1>7, <1>8 DEF Page
  <1> HIDE DEF q
  <1>10. q.at \in 1 .. Len(q.items)
    BY <1>8, <1>9
  <1>11. TypeOK' /\ Others(t) /\ page'[t] = q
    BY <1>1, <1>5, <1>9, <1>10, Turned
  <1>12. /\ page'[t].items = <<x>> /\ Len(page'[t].items) = 1 /\ page'[t].items # <<>>
         /\ item(t)' = x /\ \A k \in Items(t)' : page'[t].items[k] = x
    <2>1. page'[t].items = <<x>> /\ page'[t].at = 1
      BY <1>9, <1>11
    <2>2. Len(page'[t].items) = 1 /\ page'[t].items # <<>> /\ page'[t].items[1] = x
      BY <1>8, <2>1
    <2>3. \A k \in Items(t)' : k = 1
      BY <2>2 DEF Items
    <2> QED
      BY <2>1, <2>2, <2>3 DEF item
  <1>13. PageInv(t)'
    <2>1. PageType(t)'
      BY <1>11 DEF TypeOK, PageType
    <2>2. Busy(t)'
      BY <1>4, <1>9, <1>11, <1>12 DEF Busy, Uploading, Editing
    <2>3. Placed(t)'
      BY <1>1, <1>9, <1>11 DEF Placed, Editing, Grows
    <2>4. Put(t)'
      <3> SUFFICES ASSUME refused' = 0 PROVE file'[<<pad'.folder, x.name>>] # NoPicture
        BY <1>9, <1>11, <1>12 DEF Put
      <3>1. refused = 0 /\ pad' = pad /\ file' = file
        BY <1>1 DEF Open, store, Grows
      <3>2. Complete(pad.folder, i)
        BY <1>1, <1>2, <1>3, <3>1 DEF IInv, DescribedPictureExists
      <3> QED
        BY <1>4, <3>1, <3>2 DEF Complete
    <2> QED
      BY <2>1, <2>2, <2>3, <2>4 DEF PageInv
  <1> QED
    BY <1>1, <1>11, <1>13 DEF Good

\* A page with the form.
Formed(t) ==
    /\ page[t].kind = "edit" /\ page[t].items # <<>> /\ Len(page[t].items) = 1
    /\ \A k \in Items(t) : page[t].items[k].pic \in Picture /\ page[t].items[k].id \in Id
    /\ pad # NoPad /\ pad.folder \in Tab
    /\ refused = 0 => file[<<pad.folder, item(t).name>>] # NoPicture

LEMMA IsFormed ==
  ASSUME IInv, NEW t \in Tab, page[t].step \in Editing
  PROVE  Formed(t)
  <1>1. Busy(t) /\ Placed(t) /\ Put(t) /\ TypeOK
    BY DEF IInv, PageInv
  <1>2. page[t].kind = "edit" /\ Numbered(t)
    BY <1>1 DEF Busy, Numbered
  <1>3. pad # NoPad /\ pad.folder \in Tab
    BY <1>1 DEF Placed, TypeOK
  <1> QED
    BY <1>1, <1>2, <1>3 DEF Busy, Put, Formed, Editing

LEMMA SubmitEditGood ==
  ASSUME IInv, NEW t \in Tab, SubmitEdit(t)
  PROVE  Good(t)
  <1>1. /\ TypeOK /\ TablesType' /\ Grows /\ stored \in User /\ page[t].step = "form"
        /\ UNCHANGED <<pad, file, refused>>
    BY SameTables DEF SubmitEdit, At, IInv, TypeOK, tables, store
  <1>2. Formed(t) /\ page[t] \in Page /\ PageType(t)
    BY <1>1, IsFormed DEF Editing, IInv, PageInv, PageType
  <1> DEFINE q == [page[t] EXCEPT !.user = stored, !.step = "edit"]
  <1>3. "edit" \in Steps
    BY DEF Steps, ServiceSteps
  <1>4. page' = [page EXCEPT ![t] = q]
    BY <1>1 DEF SubmitEdit, TypeOK
  <1>5. /\ q \in Page /\ q.items = page[t].items /\ q.at = page[t].at /\ q.kind = page[t].kind
        /\ q.step = "edit" /\ q.user = stored
    BY <1>1, <1>2, <1>3 DEF Page
  <1> HIDE DEF q
  <1>6. q.items # <<>> => q.at \in 1 .. Len(q.items)
    BY <1>2, <1>5 DEF PageType
  <1>7. TypeOK' /\ Others(t) /\ page'[t] = q
    BY <1>1, <1>4, <1>5, <1>6, Turned
  <1>8. Items(t)' = Items(t) /\ item(t)' = item(t)
    BY <1>5, <1>7 DEF Items, item
  <1>9. PageInv(t)'
    <2>1. PageType(t)'
      BY <1>7 DEF TypeOK, PageType
    <2>2. Busy(t)'
      BY <1>1, <1>2, <1>5, <1>7, <1>8 DEF Busy, Uploading, Editing, Formed
    <2>3. Placed(t)' /\ Put(t)'
      BY <1>1, <1>2, <1>5, <1>7, <1>8 DEF Placed, Put, Editing, Formed
    <2> QED
      BY <2>1, <2>2, <2>3 DEF PageInv
  <1> QED
    BY <1>1, <1>7, <1>9 DEF Good

LEMMA EditGood ==
  ASSUME IInv, NEW t \in Tab, Edit(t)
  PROVE  Good(t)
  <1>1. /\ TypeOK /\ TablesType' /\ Grows /\ page[t].step = "edit" /\ UNCHANGED <<pad, file, refused>>
        /\ page[t].user \in User
    BY SameTables DEF Edit, At, IInv, PageInv, Busy, TypeOK, tables, store
  <1>2. Formed(t) /\ page[t] \in Page /\ PageType(t)
    BY <1>1, IsFormed DEF Editing, IInv, PageInv, PageType
  <1>3. CASE Leave(t)
    BY <1>3, LeaveGood DEF Edit
  <1>4. CASE page' = [page EXCEPT ![t].folder = pad.folder, ![t].step = "description"]
    <2> DEFINE q == [page[t] EXCEPT !.folder = pad.folder, !.step = "description"]
    <2>1. "description" \in Steps /\ pad.folder \in Tab
      BY <1>2 DEF Steps, StoreSteps, Formed
    <2>2. page' = [page EXCEPT ![t] = q]
      BY <1>1, <1>4 DEF TypeOK
    <2>3. /\ q \in Page /\ q.items = page[t].items /\ q.at = page[t].at /\ q.kind = page[t].kind
          /\ q.step = "description" /\ q.user = page[t].user /\ q.folder = pad.folder
      BY <1>2, <2>1 DEF Page
    <2> HIDE DEF q
    <2>4. q.items # <<>> => q.at \in 1 .. Len(q.items)
      BY <1>2, <2>3 DEF PageType
    <2>5. TypeOK' /\ Others(t) /\ page'[t] = q
      BY <1>1, <2>2, <2>3, <2>4, Turned
    <2>6. Items(t)' = Items(t) /\ item(t)' = item(t)
      BY <2>3, <2>5 DEF Items, item
    <2>7. PageType(t)'
      BY <2>5 DEF TypeOK, PageType
    <2>8. Busy(t)'
      BY <1>1, <1>2, <2>3, <2>5, <2>6 DEF Busy, Uploading, Editing, Formed
    <2>9. Placed(t)' /\ Put(t)'
      BY <1>1, <1>2, <2>3, <2>5, <2>6 DEF Placed, Put, Editing, Formed
    <2> QED
      BY <1>1, <2>5, <2>7, <2>8, <2>9 DEF Good, PageInv
  <1> QED
    BY <1>3, <1>4 DEF Edit
-----------------------------------------------------------------------------
(* The numbers *)

\* A step that takes no number and begins nothing.
Calm(t) ==
    /\ t \in Asking' => t \in Asking
    /\ page'[t].step = "rows" => page'[t].kind = "bulk"
    /\ page'[t].kind = "bulk" => page[t].kind = "bulk" /\ page'[t].items = page[t].items
    /\ Rows' = Rows

Gone(t) == page'[t] = Idle(t)
Moved(t) ==
    /\ page'[t].kind = page[t].kind /\ page'[t].items = page[t].items
    /\ page'[t].step \in {"rows", "number", "folder"} =>
          /\ page[t].step \in {"start", "folder"}
          /\ page'[t].step = "rows" => page[t].kind = "bulk"
    /\ page'[t].step # "start"

LEMMA CalmSteps ==
  ASSUME NEW t \in Tab, Rows' = Rows, Gone(t) \/ Moved(t)
  PROVE  Calm(t)
  <1>1. CASE Gone(t)
    <2>1. page'[t].step = "idle" /\ page'[t].kind = "one"
      BY <1>1, IdleIs DEF Gone
    <2> QED
      BY <2>1 DEF Calm, Asking
  <1>2. CASE Moved(t)
    BY <1>2 DEF Moved, Calm, Asking
  <1> QED
    BY <1>1, <1>2

Calms(t) ==
    \/ \E u \in User : Ask(t, u)
    \/ Open(t) \/ SubmitEdit(t) \/ Sessions(t)
    \/ Start(t) \/ Folder(t) \/ PutPicture(t) \/ PutDescription(t) \/ Confirm(t) \/ Edit(t)
    \/ Timeout(t) \/ Refuse(t) \/ RefuseConfirm(t) \/ Close(t)

LEMMA CalmStep ==
  ASSUME IInv, NEW t \in Tab, Calms(t)
  PROVE  Calm(t)
  <1>1. TypeOK /\ page \in [Tab -> Page] /\ page[t] \in Page
    BY DEF IInv, TypeOK
  <1>2. ASSUME Confirm(t) PROVE Rows' = Rows
    BY <1>2, ConfirmGood
  <1>3. Rows' = Rows
    BY <1>2 DEF Calms, Sessions, Ask, Open, SubmitEdit, SelectSession, InsertSession, Sign, Start,
       Folder, PutPicture, PutDescription, Edit, Timeout, Refuse, RefuseConfirm, Close, tables, Rows
  <1>4. ASSUME Leave(t) PROVE Calm(t)
    BY <1>1, <1>3, <1>4, CalmSteps DEF Leave, Gone
  <1>5. ASSUME NEW s, Goto(t, s), s \notin {"rows", "number", "folder", "start"} PROVE Calm(t)
    <2>1. Moved(t)
      BY <1>1, <1>5 DEF Goto, Moved, Page
    <2> QED
      BY <1>3, <2>1, CalmSteps
  <1>6. ASSUME NEW u \in User, Ask(t, u) PROVE Calm(t)
    <2>1. Idle(t) \in Page
      BY IdleIs
    <2>2. page'[t].step = "select" /\ page'[t].kind = "session"
      BY <1>1, <1>6, <2>1 DEF Ask, Page
    <2> QED
      BY <1>3, <2>2 DEF Calm, Asking
  <1>7. ASSUME Open(t) PROVE Calm(t)
    <2>1. Idle(t) \in Page
      BY IdleIs
    <2>2. page'[t].step = "form" /\ page'[t].kind = "edit"
      BY <1>1, <1>7, <2>1 DEF Open, Page
    <2> QED
      BY <1>3, <2>2 DEF Calm, Asking
  <1>8. ASSUME SubmitEdit(t) PROVE Calm(t)
    <2>1. Moved(t)
      BY <1>1, <1>8 DEF SubmitEdit, Moved, Page
    <2> QED
      BY <1>3, <2>1, CalmSteps
  <1>9. ASSUME Sessions(t) PROVE Calm(t)
    BY <1>4, <1>5, <1>9 DEF Sessions, SelectSession, InsertSession, Sign
  <1>10. ASSUME page[t].step \in {"start", "folder"}, NEW f,
                page' = [page EXCEPT ![t].folder = f, ![t].step = AfterFolder(t)]
         PROVE  Calm(t)
    <2>1. Ready(t)
      BY <1>10, IsReady
    <2>2. Moved(t)
      BY <1>1, <1>10, <2>1 DEF Moved, AfterFolder, Ready, Page
    <2> QED
      BY <1>3, <2>2, CalmSteps
  <1>11. ASSUME Start(t) PROVE Calm(t)
    <2>1. page[t].step = "start"
      BY <1>11 DEF Start, At
    <2>2. ASSUME Goto(t, "folder") PROVE Calm(t)
      <3>1. Moved(t)
        BY <1>1, <2>1, <2>2 DEF Goto, Moved, Page
      <3> QED
        BY <1>3, <3>1, CalmSteps
    <2> QED
      BY <1>4, <1>10, <1>11, <2>1, <2>2 DEF Start
  <1>12. ASSUME Folder(t) PROVE Calm(t)
    BY <1>4, <1>10, <1>12 DEF Folder, At
  <1>13. ASSUME NextItem(t), page[t].step \in {"picture", "description"} PROVE Calm(t)
    <2>1. Moved(t)
      BY <1>1, <1>13 DEF NextItem, Loop, AfterDoc, Moved, Page
    <2> QED
      BY <1>3, <2>1, CalmSteps
  <1>14. ASSUME Edit(t) PROVE Calm(t)
    <2>1. ASSUME page' = [page EXCEPT ![t].folder = pad.folder, ![t].step = "description"]
          PROVE  Calm(t)
      <3>1. Moved(t)
        BY <1>1, <2>1 DEF Moved, Page
      <3> QED
        BY <1>3, <3>1, CalmSteps
    <2> QED
      BY <1>4, <1>14, <2>1 DEF Edit
  <1> QED
    <2>1. ASSUME PutPicture(t) \/ Confirm(t) \/ RefuseConfirm(t) PROVE Calm(t)
      BY <1>5, <2>1 DEF PutPicture, Confirm, RefuseConfirm
    <2>2. ASSUME PutDescription(t) \/ Refuse(t) PROVE Calm(t)
      BY <1>5, <1>13, <2>2 DEF PutDescription, Refuse, At, StoreSteps
    <2>3. ASSUME Timeout(t) \/ Close(t) PROVE Calm(t)
      BY <1>4, <2>3 DEF Timeout, Close
    <2> QED
      BY <1>6, <1>7, <1>8, <1>9, <1>11, <1>12, <1>14, <2>1, <2>2, <2>3 DEF Calms

LEMMA FewerAsk ==
  ASSUME NEW t \in Tab, Others(t), t \in Asking' => t \in Asking
  PROVE  Cardinality(Asking') <= Cardinality(Asking) /\ Cardinality(Asking') \in Nat
  <1>1. Asking' \in SUBSET Asking
    BY DEF Asking, Others
  <1> QED
    BY <1>1, AskingFinite, FS_Subset, FS_CardinalityType

\* A step that inserts no row and has a number left for every page.
LEMMA SpaceStays ==
  ASSUME IInv, NEW t \in Tab, Others(t), Rows' = Rows, Top + Cardinality(Asking') <= MaxId,
         page'[t].step = "rows" => \A k \in Items(t)' :
            page'[t].items[k].id <= IF page'[t].kind = "one" THEN Top + 1 ELSE MaxSupply,
         page'[t].kind = "bulk" => \A k \in Items(t)' : page'[t].items[k].id <= MaxSupply
  PROVE  Space'
  <1>1. Top' = Top
    BY DEF Top, Highest
  <1>2. \A u \in Tab \ {t} : page'[u] = page[u] /\ Items(u)' = Items(u)
    BY DEF Others, Items
  <1>3. Space
    BY DEF IInv
  <1>4. \A u \in Tab : page'[u].step = "rows" =>
          \A k \in Items(u)' : page'[u].items[k].id <= IF page'[u].kind = "one" THEN Top + 1 ELSE MaxSupply
    BY <1>2, <1>3 DEF Space
  <1>5. \A u \in Tab : page'[u].kind = "bulk" => \A k \in Items(u)' : page'[u].items[k].id <= MaxSupply
    BY <1>2, <1>3 DEF Space
  <1> QED
    BY <1>1, <1>4, <1>5 DEF Space

LEMMA CalmSpace ==
  ASSUME IInv, NEW t \in Tab, Calm(t), Others(t)
  PROVE  Space'
  <1>1. Cardinality(Asking') <= Cardinality(Asking) /\ Cardinality(Asking') \in Nat
        /\ Cardinality(Asking) \in Nat
    BY FewerAsk, AskingFinite DEF Calm
  <1>2. Top \in Nat /\ MaxId \in Nat
    BY TopIs, UploadsAssumption
  <1>3. Space
    BY DEF IInv
  <1>4. Top + Cardinality(Asking') <= MaxId
    BY <1>1, <1>2, <1>3 DEF Space
  <1>5. page'[t].kind = "bulk" => \A k \in Items(t)' : page'[t].items[k].id <= MaxSupply
    BY <1>3 DEF Calm, Space, Items
  <1> QED
    BY <1>4, <1>5, SpaceStays DEF Calm

LEMMA SubmitOneSpace ==
  ASSUME IInv, NEW t \in Tab, SubmitOne(t), Others(t)
  PROVE  Space'
  <1>1. page[t].step = "idle" /\ Rows' = Rows /\ page \in [Tab -> Page] /\ Idle(t) \in Page
    BY IdleIs DEF SubmitOne, At, tables, Rows, IInv, TypeOK
  <1>2. page'[t].kind = "one" /\ page'[t].step \in {"hung", "start"}
    BY <1>1, IdleIs DEF SubmitOne, Page
  <1> DEFINE atWork == {u \in Tab : page[u].step # "idle"}
  <1>3. Top + Cardinality(atWork) < MaxId
    BY DEF SubmitOne, Room, Top
  <1>4. IsFiniteSet(atWork) /\ Cardinality(atWork) \in Nat
    BY UploadsAssumption, FS_Subset, FS_CardinalityType
  <1>5. Asking' \in SUBSET (atWork \cup {t}) /\ t \notin atWork
    BY <1>1 DEF Asking, Others
  <1> HIDE DEF atWork
  <1>6. IsFiniteSet(atWork \cup {t}) /\ Cardinality(atWork \cup {t}) = Cardinality(atWork) + 1
    BY <1>4, <1>5, FS_AddElement
  <1>7. Cardinality(Asking') <= Cardinality(atWork) + 1 /\ Cardinality(Asking') \in Nat
    BY <1>5, <1>6, FS_Subset, FS_CardinalityType
  <1>8. Top \in Nat /\ MaxId \in Nat
    BY TopIs, UploadsAssumption
  <1>9. Top + Cardinality(Asking') <= MaxId
    BY <1>3, <1>4, <1>7, <1>8
  <1> QED
    BY <1>1, <1>2, <1>9, SpaceStays

LEMMA SubmitBulkSpace ==
  ASSUME IInv, NEW t \in Tab, SubmitBulk(t)
  PROVE  Space'
  <1>1. Rows' = Rows /\ page \in [Tab -> Page] /\ Idle(t) \in Page
    BY IdleIs DEF SubmitBulk, tables, Rows, IInv, TypeOK
  <1>2. page'[t].kind = "bulk" /\ page'[t].step = "start"
    BY <1>1 DEF SubmitBulk, Page
  <1>3. Others(t) /\ \A k \in Items(t)' : page'[t].items[k].id <= MaxSupply
    BY SubmitBulkGood DEF Good
  <1>4. Cardinality(Asking') <= Cardinality(Asking) /\ Cardinality(Asking') \in Nat
        /\ Cardinality(Asking) \in Nat
    <2>1. t \notin Asking'
      BY <1>2 DEF Asking
    <2> QED
      BY <1>3, <2>1, FewerAsk, AskingFinite
  <1>5. Top \in Nat /\ MaxId \in Nat /\ Space
    BY TopIs, UploadsAssumption DEF IInv
  <1>6. Top + Cardinality(Asking') <= MaxId
    BY <1>4, <1>5 DEF Space
  <1> QED
    BY <1>1, <1>2, <1>3, <1>6, SpaceStays

LEMMA NumberSpace ==
  ASSUME IInv, NEW t \in Tab, Number(t)
  PROVE  Space'
  <1>1. Rows' = Rows
    BY DEF Number, tables, Rows
  <1>2. /\ page'[t].kind = "one" /\ page'[t].step = "rows" /\ Others(t)
        /\ \A k \in Items(t)' : page'[t].items[k].id <= Top + 1
    BY NumberGood DEF Good
  <1>3. t \in Asking
    BY DEF IInv, PageInv, Busy, Number, At, Asking
  <1>4. Cardinality(Asking') <= Cardinality(Asking) /\ Cardinality(Asking') \in Nat
        /\ Cardinality(Asking) \in Nat
    BY <1>2, <1>3, FewerAsk, AskingFinite
  <1>5. Top \in Nat /\ MaxId \in Nat /\ Space
    BY TopIs, UploadsAssumption DEF IInv
  <1>6. Top + Cardinality(Asking') <= MaxId
    BY <1>4, <1>5 DEF Space
  <1> QED
    BY <1>1, <1>2, <1>3, <1>6, SpaceStays

LEMMA InsertRowSpace ==
  ASSUME IInv, NEW t \in Tab, InsertRow(t)
  PROVE  Space'
  <1>1. page[t].step = "rows" /\ TypeOK /\ page \in [Tab -> Page] /\ Space
    BY DEF InsertRow, At, IInv, TypeOK
  <1>2. Holding(t) /\ page[t].at \in Items(t) /\ item(t).id \in Id /\ Good(t)
    BY <1>1, IsHolding, ItemHere, InsertRowGood DEF Holding, item
  <1> DEFINE n == item(t).id
  <1>3. Rows \subseteq Rows' /\ \A i \in Rows' \ Rows : i <= n
    <2>1. Rows \subseteq Rows'
      BY <1>2 DEF Good, Grows
    <2>2. \A i \in Id : i # n => row'[i] = row[i]
      BY <1>1 DEF InsertRow, TypeOK
    <2>3. n \in Nat
      BY <1>2, UploadsAssumption DEF Id
    <2> QED
      BY <2>1, <2>2, <2>3 DEF Rows
  <1>4. n \in Nat /\ n <= IF page[t].kind = "one" THEN Top + 1 ELSE MaxSupply
    BY <1>1, <1>2, UploadsAssumption DEF Space, item, Id
  <1>5. /\ Top \in Nat /\ Top' \in Nat /\ MaxSupply <= Top /\ MaxSupply \in Nat
        /\ Top <= Top' /\ (Top' <= Top \/ Top' <= n) /\ MaxId \in Nat
    BY <1>3, <1>4, TopGrows, UploadsAssumption
  <1>6. /\ page'[t].kind = page[t].kind /\ page'[t].items = page[t].items
        /\ page'[t].step \in {"rows", "picture"} /\ (page[t].kind = "one" => page'[t].step = "picture")
    <2>1. /\ page'[t].kind = page[t].kind /\ page'[t].items = page[t].items
          /\ page'[t].step = IF Last(t) THEN "picture" ELSE "rows"
      BY <1>1 DEF InsertRow, Loop, Page
    <2>2. page[t].kind = "one" => Last(t)
      BY <1>2 DEF Holding, Last, Items
    <2> QED
      BY <2>1, <2>2
  <1>7. Others(t) /\ \A u \in Tab \ {t} : page'[u] = page[u]
    BY <1>2 DEF Good, Others
  <1>8. Top' + Cardinality(Asking') <= MaxId
    <2>1. t \notin Asking' /\ (t \in Asking <=> page[t].kind = "one")
      BY <1>1, <1>6 DEF Asking
    <2>2. Asking' = Asking \ {t}
      BY <1>7, <2>1 DEF Asking
    <2>3. Cardinality(Asking') = IF page[t].kind = "one" THEN Cardinality(Asking) - 1
                                 ELSE Cardinality(Asking)
      BY <2>1, <2>2, AskingFinite, FS_RemoveElement
    <2>4. Cardinality(Asking) \in Nat
      BY AskingFinite
    <2> QED
      BY <1>1, <1>4, <1>5, <2>3, <2>4 DEF Space
  <1>9. \A u \in Tab : page'[u].step = "rows" =>
          \A k \in Items(u)' : page'[u].items[k].id <= IF page'[u].kind = "one" THEN Top' + 1 ELSE MaxSupply
    <2>1. ASSUME NEW u \in Tab \ {t}, page'[u].step = "rows", NEW k \in Items(u)'
          PROVE  page'[u].items[k].id <= IF page'[u].kind = "one" THEN Top' + 1 ELSE MaxSupply
      <3>1. page'[u] = page[u] /\ k \in Items(u)
        BY <1>7, <2>1 DEF Items
      <3>2. page[u].items[k].id \in Nat
        <4>1. page[u].items[k] \in Item
          BY <1>1, <3>1, ItemsTyped, TypeIs
        <4> QED
          BY <4>1, UploadsAssumption DEF Item, Id
      <3>3. page[u].items[k].id <= IF page[u].kind = "one" THEN Top + 1 ELSE MaxSupply
        BY <1>1, <2>1, <3>1 DEF Space
      <3> QED
        BY <1>5, <3>1, <3>2, <3>3
    <2>2. ASSUME page'[t].step = "rows", NEW k \in Items(t)'
          PROVE  page'[t].items[k].id <= IF page'[t].kind = "one" THEN Top' + 1 ELSE MaxSupply
      BY <1>1, <1>6, <2>2 DEF Space, Items
    <2> QED
      BY <2>1, <2>2
  <1>10. \A u \in Tab : page'[u].kind = "bulk" => \A k \in Items(u)' : page'[u].items[k].id <= MaxSupply
    BY <1>1, <1>6, <1>7 DEF Space, Items
  <1> QED
    BY <1>8, <1>9, <1>10 DEF Space
-----------------------------------------------------------------------------
(* The store *)

Step(t) ==
    Begin(t) \/ Sessions(t) \/ Requests(t) \/ Refuse(t) \/ RefuseConfirm(t) \/ Close(t)

LEMMA StepGood ==
  ASSUME IInv, NEW t \in Tab, Step(t)
  PROVE  Good(t) /\ Space'
  <1>1. CASE Calms(t)
    <2>1. Good(t)
      <3>1. ASSUME Timeout(t) \/ Close(t) PROVE Good(t)
        BY <3>1, LeaveGood DEF Timeout, Close
      <3>2. ASSUME Sessions(t) PROVE Good(t)
        BY <3>2, SelectSessionGood, InsertSessionGood, SignGood DEF Sessions
      <3> QED
        BY <1>1, <3>1, <3>2, AskGood, OpenGood, SubmitEditGood, StartGood, FolderGood,
           PutPictureGood, PutDescriptionGood, ConfirmGood, EditGood, RefuseGood,
           RefuseConfirmGood DEF Calms
    <2> QED
      BY <1>1, <2>1, CalmStep, CalmSpace DEF Good
  <1>2. CASE SubmitOne(t)
    BY <1>2, SubmitOneGood, SubmitOneSpace DEF Good
  <1>3. CASE SubmitBulk(t)
    BY <1>3, SubmitBulkGood, SubmitBulkSpace
  <1>4. CASE Number(t)
    BY <1>4, NumberGood, NumberSpace
  <1>5. CASE InsertRow(t)
    BY <1>5, InsertRowGood, InsertRowSpace
  <1> QED
    BY <1>1, <1>2, <1>3, <1>4, <1>5 DEF Step, Begin, Requests, Calms

\* Which steps change what.
LEMMA Changes ==
  ASSUME NEW t \in Tab, Step(t)
  PROVE  /\ InsertSession(t) \/ Sign(t) \/ UNCHANGED <<session, stored>>
         /\ PutPicture(t) \/ UNCHANGED file
         /\ PutDescription(t) \/ UNCHANGED doc
         /\ InsertRow(t) \/ Confirm(t) \/ UNCHANGED row
  BY DEF Step, Begin, Sessions, Requests, Ask, SelectSession, InsertSession, Sign, SubmitOne,
     SubmitBulk, Start, Folder, Number, InsertRow, PutPicture, PutDescription, Refuse, Confirm,
     RefuseConfirm, Timeout, Open, SubmitEdit, Edit, Close, tables, store

LEMMA SessionStep ==
  ASSUME IInv, NEW t \in Tab, Step(t)
  PROVE  StoredSessionIsVerified'
  <1>1. TypeOK /\ StoredSessionIsVerified
    BY DEF IInv
  <1>2. CASE InsertSession(t)
    BY <1>1, <1>2 DEF InsertSession, store, StoredSessionIsVerified, TypeOK
  <1>3. CASE Sign(t)
    <2>1. page[t].user \in User
      BY <1>3 DEF IInv, PageInv, Busy, Sign, At
    <2> QED
      BY <1>1, <1>3, <2>1 DEF Sign, StoredSessionIsVerified, TypeOK
  <1>4. CASE UNCHANGED <<session, stored>>
    BY <1>1, <1>4 DEF StoredSessionIsVerified
  <1> QED
    BY <1>2, <1>3, <1>4, Changes

LEMMA ObjectsStep ==
  ASSUME IInv, NEW t \in Tab, Step(t)
  PROVE  ObjectsAreFound'
  <1>1. TypeOK /\ ObjectsAreFound /\ Grows
    BY StepGood DEF IInv, Good
  <1>2. \A x \in Tab \X Name : file'[x] # NoPicture => pad' # NoPad /\ x[1] = pad'.folder
    <2>1. CASE PutPicture(t)
      <3>1. pad # NoPad /\ pad.folder = page[t].folder
        BY <2>1, IsHolding DEF PutPicture, At, Holding
      <3>2. \A x \in Tab \X Name : file'[x] # file[x] => x = <<page[t].folder, item(t).name>>
        BY <1>1, <2>1 DEF PutPicture, TypeOK
      <3> QED
        BY <1>1, <3>1, <3>2 DEF ObjectsAreFound, Grows
    <2>2. CASE UNCHANGED file
      BY <1>1, <2>2 DEF ObjectsAreFound, Grows
    <2> QED
      BY <2>1, <2>2, Changes
  <1>3. \A x \in Tab \X Id : doc'[x] # NoDoc => pad' # NoPad /\ x[1] = pad'.folder
    <2>1. CASE PutDescription(t)
      <3>1. pad # NoPad /\ pad.folder = page[t].folder
        BY <2>1, IsDescribing DEF PutDescription, At, Describing
      <3>2. \A x \in Tab \X Id : doc'[x] # doc[x] => x = <<page[t].folder, item(t).id>>
        BY <1>1, <2>1 DEF PutDescription, TypeOK
      <3> QED
        BY <1>1, <3>1, <3>2 DEF ObjectsAreFound, Grows
    <2>2. CASE UNCHANGED doc
      BY <1>1, <2>2 DEF ObjectsAreFound, Grows
    <2> QED
      BY <2>1, <2>2, Changes
  <1> QED
    BY <1>2, <1>3 DEF ObjectsAreFound

LEMMA DescribedStep ==
  ASSUME IInv, NEW t \in Tab, Step(t)
  PROVE  DescribedPictureExists'
  <1>1. TypeOK /\ DescribedPictureExists /\ Grows /\ Put(t) /\ Placed(t)
    BY StepGood DEF IInv, Good, PageInv
  <1> SUFFICES ASSUME refused' = 0, NEW f \in Tab, NEW i \in Id, doc'[<<f, i>>] # NoDoc
               PROVE  file'[<<f, doc'[<<f, i>>].name>>] # NoPicture
    BY DEF DescribedPictureExists, Complete
  <1>2. refused = 0
    BY <1>1 DEF Grows
  <1>3. CASE doc'[<<f, i>>] = doc[<<f, i>>]
    <2>1. file[<<f, doc[<<f, i>>].name>>] # NoPicture /\ doc[<<f, i>>].name \in Name
      BY <1>1, <1>2, <1>3 DEF DescribedPictureExists, Complete, TypeOK
    <2> QED
      BY <1>1, <1>3, <2>1 DEF Grows
  <1>4. CASE doc'[<<f, i>>] # doc[<<f, i>>]
    <2>1. PutDescription(t)
      BY <1>4, Changes
    <2>2. page[t].step = "description" /\ file' = file /\ page[t].folder = pad.folder
      BY <1>1, <2>1 DEF PutDescription, At, Placed, Editing
    <2>3. <<f, i>> = <<page[t].folder, item(t).id>> /\ doc'[<<f, i>>].name = item(t).name
      BY <1>1, <1>4, <2>1 DEF PutDescription, TypeOK
    <2>4. file[<<pad.folder, item(t).name>>] # NoPicture
      BY <1>1, <1>2, <2>2 DEF Put
    <2> QED
      BY <2>2, <2>3, <2>4
  <1> QED
    BY <1>3, <1>4

LEMMA CountedStep ==
  ASSUME IInv, NEW t \in Tab, Step(t)
  PROVE  CountedIsStored'
  <1>1. TypeOK /\ CountedIsStored /\ Grows /\ Put(t) /\ DescribedPictureExists'
    BY StepGood, DescribedStep DEF IInv, Good, PageInv
  <1> SUFFICES ASSUME refused' = 0, NEW i \in Id, row'[i] # NoRow, row'[i].uploaded
               PROVE  pad' # NoPad /\ doc'[<<pad'.folder, i>>] # NoDoc
    <2>1. ASSUME pad' # NoPad PROVE pad'.folder \in Tab
      BY <2>1, StepGood DEF Good, TypeOK
    <2> QED
      BY <1>1, <2>1 DEF CountedIsStored, DescribedPictureExists, Uploaded, Rows, Complete
  <1>2. refused = 0
    BY <1>1 DEF Grows
  <1>3. CASE row[i] # NoRow /\ row[i].uploaded
    <2>1. pad # NoPad /\ doc[<<pad.folder, i>>] # NoDoc /\ pad.folder \in Tab
      BY <1>1, <1>2, <1>3 DEF CountedIsStored, Uploaded, Rows, Complete, TypeOK
    <2> QED
      BY <1>1, <2>1 DEF Grows
  <1>4. CASE ~(row[i] # NoRow /\ row[i].uploaded)
    <2>1. ~InsertRow(t)
      BY <1>1, <1>4 DEF InsertRow, TypeOK
    <2>2. Confirm(t)
      BY <1>4, <2>1, Changes
    <2>3. i \in Ids(t)
      BY <1>1, <1>4, <2>2 DEF Confirm, TypeOK
    <2>4. PICK k \in Items(t) : page[t].items[k].id = i
      BY <2>3 DEF Ids, Items
    <2>5. page[t].step = "confirm" /\ Holding(t) /\ doc' = doc /\ pad' = pad
      BY <2>2, IsHolding DEF Confirm, At, store
    <2>6. doc[<<pad.folder, i>>] # NoDoc
      BY <1>1, <1>2, <2>4, <2>5 DEF Put, Holding
    <2> QED
      BY <2>5, <2>6 DEF Holding
  <1> QED
    BY <1>3, <1>4
-----------------------------------------------------------------------------
(* The theorems *)

LEMMA InitIInv == Init => IInv
  <1> SUFFICES ASSUME Init PROVE IInv
    OBVIOUS
  <1>1. \A t \in Tab : /\ Idle(t) \in Page /\ page[t] = Idle(t) /\ page[t].items = <<>>
                       /\ page[t].step = "idle" /\ page[t].kind = "one"
    BY IdleIs DEF Init
  <1>2. TypeOK
    BY <1>1, UploadsAssumption DEF Init, TypeOK
  <1>3. \A t \in Tab : PageInv(t)
    BY <1>1 DEF PageInv, PageType, Busy, Placed, Put, Uploading, Editing
  <1>4. Space
    <2>1. Rows = {} /\ Asking = {}
      BY <1>1 DEF Init, Rows, Asking
    <2>2. Top = MaxSupply /\ Cardinality(Asking) = 0
      BY <2>1, FS_EmptySet, UploadsAssumption DEF Top, Highest
    <2> QED
      BY <1>1, <2>2, UploadsAssumption DEF Space
  <1>5. StoredSessionIsVerified /\ ObjectsAreFound
    BY DEF Init, StoredSessionIsVerified, ObjectsAreFound
  <1>6. DescribedPictureExists /\ CountedIsStored
    BY DEF Init, DescribedPictureExists, CountedIsStored, Uploaded, Rows
  <1> QED
    BY <1>2, <1>3, <1>4, <1>5, <1>6 DEF IInv

LEMMA NextIInv == IInv /\ [Next]_vars => IInv'
  <1> SUFFICES ASSUME IInv, [Next]_vars PROVE IInv'
    OBVIOUS
  <1>1. CASE Next
    <2>1. PICK t \in Tab : Step(t)
      BY <1>1 DEF Next, Step
    <2>2. Good(t) /\ Space'
      BY <2>1, StepGood
    <2>3. \A u \in Tab : PageInv(u)'
      BY <2>2, Stay DEF IInv, Good, Others
    <2> QED
      BY <2>1, <2>2, <2>3, SessionStep, ObjectsStep, DescribedStep, CountedStep DEF IInv, Good
  <1>2. CASE UNCHANGED vars
    <2>1. UNCHANGED <<session, stored, pad, row, file, doc, page, refused>>
      BY <1>2 DEF vars, tables, store
    <2>2. TypeOK'
      BY <2>1 DEF IInv, TypeOK
    <2>3. \A u \in Tab : PageInv(u)'
      <3>1. refused \in Nat
        BY UploadsAssumption DEF IInv, TypeOK
      <3>2. Grows
        BY <2>1, <3>1 DEF Grows, Rows
      <3> QED
        BY <2>1, <3>2, Stay DEF IInv
    <2>4. Space'
      BY <2>1 DEF IInv, Space, Top, Highest, Rows, Asking, Items
    <2>5. /\ StoredSessionIsVerified' /\ ObjectsAreFound'
          /\ DescribedPictureExists' /\ CountedIsStored'
      BY <2>1 DEF IInv, StoredSessionIsVerified, ObjectsAreFound, DescribedPictureExists,
         CountedIsStored, Complete, Uploaded, Rows
    <2> QED
      BY <2>2, <2>3, <2>4, <2>5 DEF IInv
  <1> QED
    BY <1>1, <1>2

\* main.ts and the two dialogs: the rows are well-formed, and while no request is
\* refused what is described or counted is in the store, wherever tabs stop.
THEOREM UploadsInvariant == Spec => []UploadsInv
  <1>1. IInv => UploadsInv
    BY DEF IInv, UploadsInv
  <1> QED
    BY <1>1, InitIInv, NextIInv, PTL DEF Spec

\* useUploaderSession.ts: the browser never stores a session before it is signed.
THEOREM SessionVerified == Spec => []StoredSessionIsVerified
  <1>1. IInv => StoredSessionIsVerified
    BY DEF IInv
  <1> QED
    BY <1>1, InitIInv, NextIInv, PTL DEF Spec

\* main.ts: every object is in the folder of the launch's row, whichever tab made
\* the row, and requests that are refused change nothing about it.
THEOREM ObjectsFound == Spec => []ObjectsAreFound
  <1>1. IInv => ObjectsAreFound
    BY DEF IInv
  <1> QED
    BY <1>1, InitIInv, NextIInv, PTL DEF Spec
-----------------------------------------------------------------------------
(* The dialog that buys an inscription *)

\* A transaction that waits for its signature has the sequence of a block that
\* is past: none of those that are in a block leave it.
SequenceInv == \A h \in Txs : tx[h].at = "prompt" => tx[h].sequence <= Sequence

\* Before the page passes a listing nothing is under way.
PropInv == prop = NoListing => step = "Initial" /\ jobs = {}

\* The hook's parts.
HookType ==
    /\ op \in Op \cup {NoOp} /\ fee \in Op \cup {NoOp}
    /\ state \in TxState /\ error \in ErrorKind
    /\ estimates \in [Op -> Nat]

CheckType == [hash: 1 .. MaxSends, chain: BOOLEAN, result: Result \cup {"asked"}]
TxType == [op: Op, fee: Op, sequence: 0 .. MaxSends, at: Place]
FaultType == [errors: 0 .. MaxErrors, fails: 0 .. MaxFails, lost: 0 .. MaxLost]

SentType ==
    /\ tx \in Seq(TxType) /\ Len(tx) <= MaxSends
    /\ hash \in 0 .. Len(tx)
    /\ checks \in [Check -> CheckType \cup {NoCheck}]
    /\ faults \in FaultType

SentInv == SentType /\ SequenceInv /\ OneWaits

MarketType ==
    /\ market \in [Listing -> [by: {"nobody", "me", "other"}, until: Nat, gone: BOOLEAN]]
    /\ height \in 0 .. MaxHeight
    /\ noted \subseteq {"moved", "first"}

WindowType ==
    /\ {prop, listing} \subseteq Listing \cup {NoListing}
    /\ step \in {"Initial", "InitialBuy", "Reserve", "Purchase"}
    /\ royalty \in BOOLEAN
    /\ jobs \subseteq Job /\ Cardinality(jobs) <= MaxJobs
    /\ OnTheListing /\ PropInv

BuyIInv == HookType /\ SentInv /\ MarketType /\ WindowType /\ validating \in Click
-----------------------------------------------------------------------------
(* Transactions of the user *)

LEMMA PlacesFinite ==
  ASSUME SentType, NEW S
  PROVE  /\ IsFiniteSet(Where(S)) /\ Cardinality(Where(S)) \in Nat
         /\ Cardinality(Where(S)) <= Len(tx) /\ Len(tx) \in Nat
         /\ Where(S) \subseteq Txs
  <1>1. Len(tx) \in Nat
    BY DEF SentType
  <1>2. IsFiniteSet(Txs) /\ Cardinality(Txs) = Len(tx)
    <2> DEFINE n == Len(tx)
    <2> HIDE DEF n
    <2>1. 1 \in Int /\ n \in Int /\ n \in Nat
      BY <1>1 DEF n
    <2>2. /\ IsFiniteSet(1 .. n)
          /\ Cardinality(1 .. n) = IF 1 > n THEN 0 ELSE n - 1 + 1
      BY <2>1, FS_Interval
    <2>3. Cardinality(1 .. n) = n
      BY <2>1, <2>2
    <2> QED
      BY <2>2, <2>3 DEF n, Txs
  <1>3. Where(S) \subseteq Txs
    BY DEF Where
  <1> QED
    BY <1>1, <1>2, <1>3, FS_Subset, FS_CardinalityType

LEMMA SequenceType ==
  ASSUME SentType, Len(tx) < MaxSends
  PROVE  Sequence \in 0 .. MaxSends
  <1>1. Sequence \in Nat /\ Sequence <= Len(tx) /\ Len(tx) \in Nat
    BY PlacesFinite DEF Sequence
  <1> QED
    BY <1>1, SubmitTxAssumption

\* The type of the transactions after one has moved.
LEMMA MoveType ==
  ASSUME SentType, NEW h \in Txs, NEW place \in Place, Move(h, place)
  PROVE  /\ tx' \in Seq(TxType) /\ Len(tx') = Len(tx) /\ Len(tx) \in Nat
         /\ tx'[h].at = place
         /\ \A g \in Txs : /\ tx'[g].sequence = tx[g].sequence
                           /\ g # h => tx'[g].at = tx[g].at
  <1>1. tx \in Seq(TxType) /\ Len(tx) \in Nat /\ h \in 1 .. Len(tx)
    BY DEF SentType, Txs
  <1>2. \A g \in Txs : tx[g] \in TxType
    BY <1>1 DEF Txs
  <1>3. [tx[h] EXCEPT !.at = place] \in TxType
    BY <1>2 DEF TxType
  <1>4. tx' = [tx EXCEPT ![h] = [tx[h] EXCEPT !.at = place]]
    BY DEF Move
  <1>5. tx' \in Seq(TxType) /\ Len(tx') = Len(tx)
    BY <1>1, <1>3, <1>4
  <1>6. tx'[h] = [tx[h] EXCEPT !.at = place]
    BY <1>1, <1>4
  <1>7. tx'[h].at = place /\ tx'[h].sequence = tx[h].sequence
    BY <1>2, <1>6 DEF TxType
  <1>8. \A g \in Txs : g # h => tx'[g] = tx[g]
    BY <1>1, <1>4 DEF Txs
  <1> QED
    BY <1>1, <1>5, <1>7, <1>8

\* None leaves a block, and the mempool gets one only when it is empty.
LEMMA MoveInv ==
  ASSUME SentInv, NEW h \in Txs, NEW place \in Place, Move(h, place), place # "prompt",
         tx[h].at \in InBlock => place \in InBlock,
         place = "mempool" => tx[h].at = "prompt" /\ tx[h].sequence = PendingSequence
  PROVE  SequenceInv' /\ OneWaits'
  <1> DEFINE B == Where(InBlock)
             M == Where({"mempool"})
  <1>1. SentType /\ Len(tx') = Len(tx) /\ Len(tx) \in Nat /\ Txs' = Txs
    BY MoveType DEF SentInv, Txs
  <1>2. \A g \in Txs : /\ tx'[g].sequence = tx[g].sequence
                       /\ g # h => tx'[g].at = tx[g].at
    BY <1>1, MoveType
  <1>3. tx'[h].at = place
    BY <1>1, MoveType
  <1>4. IsFiniteSet(B) /\ IsFiniteSet(M) /\ Cardinality(B) \in Nat /\ Cardinality(M) \in Nat
    BY <1>1, PlacesFinite
  <1>5. tx' \in Seq(TxType) /\ Len(tx') \in Nat
    BY <1>1, MoveType
  <1>6. IsFiniteSet(B') /\ IsFiniteSet(M') /\ Cardinality(B') \in Nat /\ Cardinality(M') \in Nat
    <2>1. IsFiniteSet(Txs)
      BY <1>1, PlacesFinite, FS_Interval DEF Txs
    <2>2. B' \subseteq Txs /\ M' \subseteq Txs
      BY <1>1 DEF Where
    <2> QED
      BY <2>1, <2>2, FS_Subset, FS_CardinalityType
  <1>7. B \subseteq B'
    BY <1>1, <1>2, <1>3 DEF Where
  <1>8. Cardinality(B) <= Cardinality(B')
    BY <1>6, <1>7, FS_Subset
  <1>9. SequenceInv'
    <2> SUFFICES ASSUME NEW g \in Txs, tx'[g].at = "prompt"
                 PROVE  tx'[g].sequence <= Sequence'
      BY <1>1 DEF SequenceInv
    <2>1. g # h /\ tx[g].at = "prompt" /\ tx'[g].sequence = tx[g].sequence
      BY <1>2, <1>3
    <2>2. tx[g].sequence <= Sequence /\ tx[g] \in TxType
      BY <1>1, <2>1 DEF SentInv, SequenceInv, SentType, Txs
    <2>3. tx[g].sequence \in Int
      BY <2>2, SubmitTxAssumption DEF TxType
    <2> QED
      BY <1>4, <1>6, <1>8, <2>1, <2>2, <2>3 DEF Sequence
  <1>10. CASE place # "mempool"
    <2>1. M' \subseteq M
      BY <1>1, <1>2, <1>3, <1>10 DEF Where
    <2>2. Cardinality(M') <= Cardinality(M)
      BY <1>4, <2>1, FS_Subset
    <2>3. Cardinality(M) <= 1
      BY DEF SentInv, OneWaits
    <2>4. Cardinality(M') <= 1
      BY <1>4, <1>6, <2>2, <2>3
    <2> QED
      BY <1>9, <2>4 DEF OneWaits
  <1>11. CASE place = "mempool"
    <2> DEFINE U == Where(InBlock \cup {"mempool"})
    <2>1. IsFiniteSet(U) /\ Cardinality(U) \in Nat
      BY <1>1, PlacesFinite
    <2>2. B \subseteq U /\ M \subseteq U
      BY DEF Where
    <2>3. Cardinality(U) <= Cardinality(B)
      BY <1>11 DEF SentInv, SequenceInv, Sequence, PendingSequence
    <2> HIDE DEF U, B
    <2>4. B = U
      BY <1>4, <2>1, <2>2, <2>3, FS_Subset
    <2>5. M = {}
      BY <2>2, <2>4 DEF B, Where, InBlock
    <2>6. M' \subseteq {h}
      BY <1>1, <1>2, <2>5 DEF Where
    <2>7. Cardinality({h}) = 1 /\ IsFiniteSet({h})
      BY FS_Singleton
    <2>8. Cardinality(M') <= 1
      BY <1>6, <2>6, <2>7, FS_Subset
    <2> QED
      BY <1>9, <2>8 DEF OneWaits
  <1> QED
    BY <1>10, <1>11
-----------------------------------------------------------------------------
(* The hook *)

\* The transactions are left alone.
LEMMA SentStays ==
  ASSUME SentInv, tx' = tx, hash' \in 0 .. Len(tx),
         checks' \in [Check -> CheckType \cup {NoCheck}], faults' \in FaultType
  PROVE  SentInv'
  <1>1. Txs' = Txs /\ \A S : Where(S)' = Where(S)
    BY DEF Txs, Where
  <1>2. SequenceInv' /\ OneWaits'
    BY <1>1 DEF SentInv, SequenceInv, OneWaits, Sequence, Where, Txs
  <1>3. SentType'
    BY DEF SentInv, SentType
  <1> QED
    BY <1>2, <1>3 DEF SentInv

\* A prompt is shown: it has the sequence of now, and nothing else moves.
LEMMA SendTxInv ==
  ASSUME HookType, SentInv, NEW o \in Op \cup {NoOp}, NEW f \in Op \cup {NoOp},
         SendTx(o, f)
  PROVE  HookType' /\ SentInv'
  <1>1. HookType'
    BY DEF HookType, SendTx, TxState, ErrorKind
  <1>2. UNCHANGED <<hash, checks, faults>>
    BY DEF SendTx
  <1>3. CASE UNCHANGED tx
    BY <1>1, <1>2, <1>3, SentStays DEF SentInv, SentType
  <1>4. CASE tx' # tx
    <2> DEFINE new == [op |-> o, fee |-> f, sequence |-> Sequence, at |-> "prompt"]
               n == Len(tx)
    <2>1. SentType /\ n \in Nat /\ tx \in Seq(TxType)
      BY DEF SentInv, SentType
    <2>2. o \in Op /\ f \in Op /\ n < MaxSends /\ tx' = Append(tx, new)
      BY <1>4 DEF SendTx
    <2>3. Sequence \in 0 .. MaxSends
      BY <2>1, <2>2, SequenceType
    <2>4. new \in TxType
      BY <2>2, <2>3 DEF TxType, Place
    <2>5. new.at = "prompt" /\ new.sequence = Sequence
      OBVIOUS
    <2> HIDE DEF new
    <2>6. /\ tx' \in Seq(TxType) /\ Len(tx') = n + 1
          /\ tx'[n + 1] = new /\ \A g \in 1 .. n : tx'[g] = tx[g]
      BY <2>1, <2>2, <2>4
    <2>7. Len(tx') <= MaxSends /\ hash \in 0 .. Len(tx')
      BY <2>1, <2>2, <2>6, SubmitTxAssumption DEF SentType
    <2>8. SentType'
      BY <1>2, <2>1, <2>6, <2>7 DEF SentType
    <2>9. Txs' = 1 .. (n + 1) /\ Txs = 1 .. n
      BY <2>6 DEF Txs
    <2>10. Where(InBlock)' = Where(InBlock) /\ Where({"mempool"})' = Where({"mempool"})
      BY <2>1, <2>5, <2>6, <2>9 DEF Where, InBlock
    <2>11. OneWaits' /\ Sequence' = Sequence
      BY <2>10 DEF SentInv, OneWaits, Sequence
    <2>12. SequenceInv'
      BY <2>1, <2>3, <2>5, <2>6, <2>9, <2>11, SubmitTxAssumption
         DEF SentInv, SequenceInv
    <2> QED
      BY <1>1, <2>8, <2>11, <2>12 DEF SentInv
  <1> QED
    BY <1>3, <1>4

LEMMA RetryInv ==
  ASSUME HookType, SentInv, NEW o \in Op \cup {NoOp}, NEW f \in Op \cup {NoOp},
         Retry(o, f)
  PROVE  HookType' /\ SentInv'
  <1>1. CASE f # NoOp
    BY <1>1, SendTxInv DEF Retry
  <1>2. CASE f = NoOp
    <2>1. UNCHANGED <<hook, checks, tx, faults>>
      BY <1>2 DEF Retry
    <2>2. estimates' \in [Op -> Nat]
      BY <1>2 DEF Retry, HookType
    <2> QED
      BY <2>1, <2>2, SentStays DEF HookType, SentInv, SentType, hook
  <1> QED
    BY <1>1, <1>2

\* A transaction moves on, with what it says of the hash and the faults.
LEMMA MoveKeeps ==
  ASSUME SentInv, NEW h \in Txs, NEW place \in Place, Move(h, place), place # "prompt",
         tx[h].at \in InBlock => place \in InBlock,
         place = "mempool" => tx[h].at = "prompt" /\ tx[h].sequence = PendingSequence,
         hash' \in {hash, h}, UNCHANGED checks, faults' \in FaultType
  PROVE  SentInv'
  <1>1. SentType
    BY DEF SentInv
  <1>2. tx' \in Seq(TxType) /\ Len(tx') = Len(tx) /\ Len(tx) \in Nat
    BY <1>1, MoveType
  <1>3. SequenceInv' /\ OneWaits'
    BY MoveInv
  <1>4. hash' \in 0 .. Len(tx)
    BY <1>1, <1>2 DEF SentType, Txs
  <1>5. SentType'
    BY <1>1, <1>2, <1>4 DEF SentType
  <1> QED
    BY <1>3, <1>5 DEF SentInv

LEMMA CountType ==
  ASSUME SentType, NEW f \in {"errors", "fails", "lost"}, Count(f),
         f = "errors" => faults.errors < MaxErrors,
         f = "fails" => faults.fails < MaxFails,
         f = "lost" => faults.lost < MaxLost
  PROVE  faults' \in FaultType
  BY SubmitTxAssumption DEF SentType, FaultType, Count

\* The hook's callbacks, the wallet, the chain and the indexer.
LEMMA HookInv ==
  ASSUME HookType, SentInv,
         \/ \E o \in Op : Estimated(o) \/ EstimateFails(o)
         \/ Poll \/ Wallet
         \/ \E h \in Txs : Include(h) \/ Fail(h) \/ Drop(h) \/ (tx[h].at = "included" /\ Index(h))
  PROVE  HookType' /\ SentInv'
  <1>0. SentType /\ Len(tx) \in Nat /\ MaxSends \in Nat
    BY SubmitTxAssumption DEF SentInv, SentType
  <1>1. ASSUME NEW o \in Op, Estimated(o)
        PROVE  HookType' /\ SentInv'
    <2>1. HookType'
      BY <1>1 DEF Estimated, HookType, ErrorKind
    <2>2. UNCHANGED <<hash, checks, tx, faults>>
      BY <1>1 DEF Estimated
    <2> QED
      BY <1>0, <2>1, <2>2, SentStays DEF SentType
  <1>2. ASSUME NEW o \in Op, EstimateFails(o)
        PROVE  HookType' /\ SentInv'
    <2>1. HookType'
      BY <1>2 DEF EstimateFails, HookType, ErrorKind
    <2>2. UNCHANGED <<hash, checks, tx>> /\ faults' \in FaultType
      BY <1>0, <1>2, CountType DEF EstimateFails
    <2> QED
      BY <1>0, <2>1, <2>2, SentStays DEF SentType
  <1>3. ASSUME NEW c \in Check, Tick(c)
        PROVE  HookType' /\ SentInv'
    <2>1. HookType' /\ UNCHANGED <<hash, tx, faults>>
      BY <1>3 DEF Tick, HookType, hook
    <2>2. hash \in 1 .. MaxSends /\ (state = "Submit") \in BOOLEAN
      BY <1>0, <1>3 DEF SentType, Tick, Polls
    <2>3. checks' \in [Check -> CheckType \cup {NoCheck}]
      BY <1>0, <1>3, <2>2 DEF Tick, SentType, CheckType
    <2> QED
      BY <1>0, <2>1, <2>3, SentStays DEF SentType
  <1>4. ASSUME NEW c \in Check, Answer(c)
        PROVE  HookType' /\ SentInv'
    <2>1. HookType' /\ UNCHANGED <<hash, tx, faults>>
      BY <1>4 DEF Answer, HookType, hook
    <2>2. Found(checks[c].hash, checks[c].chain) \in Result
      BY DEF Found, Result
    <2>3. checks' \in [Check -> CheckType \cup {NoCheck}]
      BY <1>0, <1>4, <2>2 DEF Answer, SentType, CheckType
    <2> QED
      BY <1>0, <2>1, <2>3, SentStays DEF SentType
  <1>5. ASSUME NEW c \in Check, Deliver(c)
        PROVE  HookType' /\ SentInv'
    <2>1. checks[c] \in CheckType /\ checks[c].result # "asked"
      BY <1>0, <1>5 DEF Deliver, SentType
    <2>2. checks[c].result \in Result
      BY <2>1 DEF CheckType
    <2>3. HookType'
      BY <1>5, <2>2 DEF Deliver, HookType, Result, TxState, ErrorKind
    <2>4. /\ UNCHANGED <<hash, tx, faults>>
          /\ checks' \in [Check -> CheckType \cup {NoCheck}]
      BY <1>0, <1>5 DEF Deliver, SentType
    <2> QED
      BY <1>0, <2>3, <2>4, SentStays DEF SentType
  <1>6. ASSUME NEW h \in Txs, Reject(h)
        PROVE  HookType' /\ SentInv'
    <2>1. HookType'
      BY <1>6 DEF Reject, SendFails, HookType, TxState, ErrorKind
    <2> QED
      BY <1>0, <1>6, <2>1, MoveKeeps
         DEF Reject, SendFails, Place, InBlock, SentType
  <1>7. ASSUME NEW h \in Txs, Broadcast(h)
        PROVE  HookType' /\ SentInv'
    <2>1. HookType'
      BY <1>7 DEF Broadcast, SendFails, HookType, TxState, ErrorKind
    <2> QED
      BY <1>0, <1>7, <2>1, MoveKeeps
         DEF Broadcast, SendFails, Place, InBlock, SentType
  <1>8. ASSUME NEW h \in Txs, BroadcastLost(h)
        PROVE  HookType' /\ SentInv'
    <2>1. HookType'
      BY <1>8 DEF BroadcastLost, SendFails, HookType, TxState, ErrorKind
    <2>2. faults' \in FaultType
      BY <1>0, <1>8, CountType DEF BroadcastLost
    <2> QED
      BY <1>8, <2>1, <2>2, MoveKeeps DEF BroadcastLost, SendFails, Place, InBlock
  <1>9. ASSUME NEW h \in Txs, Include(h) \/ (tx[h].at = "included" /\ Index(h))
        PROVE  HookType' /\ SentInv'
    <2>1. HookType' /\ UNCHANGED <<hash, checks, faults>>
      BY <1>9 DEF Include, Index, HookType, hook
    <2>2. Move(h, "included") \/ Move(h, "pending")
      BY <1>9 DEF Include, Index
    <2> QED
      BY <1>0, <2>1, <2>2, MoveKeeps DEF Place, InBlock, SentType
  <1>10. ASSUME NEW h \in Txs, Fail(h)
         PROVE  HookType' /\ SentInv'
    <2>1. HookType' /\ UNCHANGED <<hash, checks>>
      BY <1>10 DEF Fail, HookType, hook
    <2>2. faults' \in FaultType
      BY <1>0, <1>10, CountType DEF Fail
    <2> QED
      BY <1>10, <2>1, <2>2, MoveKeeps DEF Fail, Place, InBlock
  <1>11. ASSUME NEW h \in Txs, Drop(h)
         PROVE  HookType' /\ SentInv'
    <2>1. HookType' /\ UNCHANGED <<hash, checks>>
      BY <1>11 DEF Drop, HookType, hook
    <2>2. faults' \in FaultType
      BY <1>0, <1>11, CountType DEF Drop
    <2> QED
      BY <1>11, <2>1, <2>2, MoveKeeps DEF Drop, Place, InBlock
  <1> QED
    BY <1>1, <1>2, <1>3, <1>4, <1>5, <1>6, <1>7, <1>8, <1>9, <1>10, <1>11 DEF Poll, Wallet
-----------------------------------------------------------------------------
(* The dialog *)

\* The hook starts anew, or is given an inscription whose estimate it asks for.
LEMMA ResetInv ==
  ASSUME HookType, SentInv, Reset(NoOp), UNCHANGED <<checks, tx, faults>>
  PROVE  HookType' /\ SentInv'
  <1>1. HookType'
    BY SubmitTxAssumption DEF HookType, Reset, TxState, ErrorKind
  <1>2. hash' \in 0 .. Len(tx)
    BY DEF Reset, SentInv, SentType
  <1> QED
    BY <1>1, <1>2, SentStays DEF SentInv, SentType

LEMMA PromiseType ==
  ASSUME WindowType, NEW kind \in {"fetch", "deposit", "first", "next"}, NEW l \in Listing
  PROVE  Promise(kind, l) \in Job
  <1>1. (kind \in {"first", "next"} /\ royalty) \in BOOLEAN
    OBVIOUS
  <1> QED
    BY <1>1 DEF Promise, Job

LEMMA EffectType ==
  ASSUME WindowType, NEW l \in Listing, NEW s
  PROVE  Effect(l, s) \subseteq Job
  BY PromiseType DEF Effect

\* What a promise prepares: what it was made for, or nothing.
LEMMA PreparedInv ==
  ASSUME HookType, SentInv, NEW o \in Op,
         \/ Prepared(o) /\ error' \in {error, "none"}
         \/ error' = "Validation" /\ UNCHANGED <<op, estimates>>,
         \/ Restart
         \/ UNCHANGED <<fee, state, hash>>,
         UNCHANGED <<checks, tx>>, faults' \in FaultType
  PROVE  HookType' /\ SentInv'
  <1>1. op' \in Op \cup {NoOp} /\ estimates' \in [Op -> Nat]
    BY DEF HookType, Prepared
  <1>2. fee' \in Op \cup {NoOp} /\ state' \in TxState /\ error' \in ErrorKind
    BY DEF HookType, Restart, TxState, ErrorKind
  <1>3. hash' \in 0 .. Len(tx) /\ checks' \in [Check -> CheckType \cup {NoCheck}]
    BY DEF Restart, SentInv, SentType
  <1> QED
    BY <1>1, <1>2, <1>3, SentStays DEF HookType

\* A promise is kept, and others are made for the page's listing.
LEMMA JobsType ==
  ASSUME WindowType, NEW done, NEW new \in SUBSET Job, Jobs(done, new)
  PROVE  jobs' \subseteq Job /\ Cardinality(jobs') <= MaxJobs
  BY DEF WindowType, Jobs

LEMMA PropListing ==
  ASSUME WindowType
  PROVE  /\ jobs # {} => prop \in Listing
         /\ listing # NoListing => prop \in Listing /\ listing = prop
         /\ step # "Initial" => prop \in Listing
  BY DEF WindowType, PropInv, OnTheListing

\* A listing is reserved, or gone.
LEMMA MarketRow ==
  ASSUME MarketType, NEW l \in Listing, NEW b \in {"nobody", "me", "other"}, NEW n \in Nat
  PROVE  LET rows == [Listing -> [by: {"nobody", "me", "other"}, until: Nat, gone: BOOLEAN]]
         IN /\ [market EXCEPT ![l].by = b, ![l].until = n] \in rows
            /\ [market EXCEPT ![l].by = b, ![l].until = n, ![l].gone = TRUE] \in rows
            /\ [market EXCEPT ![l].gone = TRUE] \in rows
  <1> DEFINE entry == [by: {"nobody", "me", "other"}, until: Nat, gone: BOOLEAN]
  <1>1. market \in [Listing -> entry] /\ market[l] \in entry
    BY DEF MarketType
  <1>2. /\ [market[l] EXCEPT !.by = b, !.until = n] \in entry
        /\ [market[l] EXCEPT !.by = b, !.until = n, !.gone = TRUE] \in entry
        /\ [market[l] EXCEPT !.gone = TRUE] \in entry
    BY <1>1
  <1>3. ASSUME NEW x \in entry PROVE [market EXCEPT ![l] = x] \in [Listing -> entry]
    <2> HIDE DEF entry
    <2> QED
      BY <1>1, <1>3
  <1>4. /\ [market EXCEPT ![l].by = b, ![l].until = n]
             = [market EXCEPT ![l] = [market[l] EXCEPT !.by = b, !.until = n]]
        /\ [market EXCEPT ![l].by = b, ![l].until = n, ![l].gone = TRUE]
             = [market EXCEPT ![l] = [market[l] EXCEPT !.by = b, !.until = n, !.gone = TRUE]]
        /\ [market EXCEPT ![l].gone = TRUE]
             = [market EXCEPT ![l] = [market[l] EXCEPT !.gone = TRUE]]
    BY <1>1
  <1> QED
    BY <1>2, <1>3, <1>4

LEMMA BuyInitial == BuyInit => BuyIInv
  <1> SUFFICES ASSUME BuyInit PROVE BuyIInv
    OBVIOUS
  <1>1. HookType
    BY DEF BuyInit, SubmitInit, HookType, TxState, ErrorKind
  <1>2. tx = <<>> /\ Txs = {} /\ Len(tx) = 0
    BY DEF BuyInit, SubmitInit, Txs
  <1>3. SentType
    BY <1>2, SubmitTxAssumption DEF BuyInit, SubmitInit, SentType, FaultType
  <1>4. Where({"mempool"}) = {} /\ SequenceInv
    BY <1>2 DEF Where, SequenceInv
  <1>5. OneWaits
    BY <1>4, FS_EmptySet DEF OneWaits
  <1>6. MarketType
    BY BuyDialogAssumption DEF BuyInit, MarketType
  <1>7. Cardinality(jobs) <= MaxJobs
    BY FS_EmptySet, BuyDialogAssumption DEF BuyInit
  <1>8. WindowType
    BY <1>7 DEF BuyInit, WindowType, OnTheListing, PropInv
  <1>9. validating \in Click
    BY DEF BuyInit, NoClick, Click
  <1> QED
    BY <1>1, <1>3, <1>4, <1>5, <1>6, <1>8, <1>9 DEF BuyIInv, SentInv

LEMMA BuyStep == BuyIInv /\ [BuyNext]_buyVars => BuyIInv'
  <1> SUFFICES ASSUME BuyIInv, [BuyNext]_buyVars PROVE BuyIInv'
    OBVIOUS
  <1>0. HookType /\ SentInv /\ MarketType /\ WindowType /\ validating \in Click /\ SentType
    BY DEF BuyIInv, SentInv
  <1>1. ASSUME NEW l \in Listing, OpenListing(l)
        PROVE  BuyIInv'
    <2>1. HookType' /\ SentInv'
      BY <1>0, <1>1, ResetInv DEF OpenListing
    <2>2. jobs' \subseteq Job /\ Cardinality(jobs') <= MaxJobs
      BY <1>0, <1>1, PromiseType, JobsType DEF OpenListing
    <2>3. WindowType'
      BY <1>0, <1>1, <2>2, BuyDialogAssumption
         DEF OpenListing, WindowType, OnTheListing, PropInv
    <2>4. MarketType' /\ validating' \in Click
      BY <1>0, <1>1 DEF OpenListing, MarketType
    <2> QED
      BY <2>1, <2>3, <2>4 DEF BuyIInv
  <1>2. ASSUME NEW l \in Listing, OtherBuyers(l)
        PROVE  BuyIInv'
    <2>0. height + DepositTimeout + 1 \in Nat
      BY <1>0, BuyDialogAssumption DEF MarketType
    <2> DEFINE rows == [Listing -> [by: {"nobody", "me", "other"}, until: Nat, gone: BOOLEAN]]
    <2>1. MarketType'
      <3>1. /\ [market EXCEPT ![l].by = "other", ![l].until = height + DepositTimeout + 1] \in rows
            /\ [market EXCEPT ![l].by = "nobody", ![l].until = 0, ![l].gone = TRUE] \in rows
            /\ [market EXCEPT ![l].gone = TRUE] \in rows
        BY <1>0, <2>0, MarketRow
      <3>2. market' \in rows /\ UNCHANGED <<height, noted>>
        <4> HIDE DEF rows
        <4> QED
          BY <1>2, <3>1 DEF OtherBuyers
      <3> QED
        BY <1>0, <3>2 DEF MarketType
    <2>2. UNCHANGED <<submitVars, window, jobs>>
      BY <1>2 DEF OtherBuyers
    <2>3. HookType' /\ WindowType' /\ validating' \in Click
      BY <1>0, <2>2 DEF submitVars, hook, window, dialog, HookType, WindowType,
                        OnTheListing, PropInv
    <2>4. SentInv'
      BY <1>0, <2>2, SentStays DEF submitVars, hook, SentType
    <2> QED
      BY <2>1, <2>3, <2>4 DEF BuyIInv
  <1>3. CASE BackToMarket
    <2>1. HookType' /\ SentInv'
      BY <1>0, <1>3, ResetInv DEF BackToMarket
    <2>2. prop \in Listing
      BY <1>0, <1>3, PropListing DEF BackToMarket
    <2>3. jobs' \subseteq Job /\ Cardinality(jobs') <= MaxJobs
      BY <1>0, <1>3, <2>2, PromiseType, JobsType DEF BackToMarket
    <2>4. WindowType'
      BY <1>0, <1>3, <2>2, <2>3, BuyDialogAssumption
         DEF BackToMarket, WindowType, OnTheListing, PropInv
    <2>5. MarketType' /\ validating' \in Click
      BY <1>0, <1>3 DEF BackToMarket, MarketType, outside
    <2> QED
      BY <2>1, <2>4, <2>5 DEF BuyIInv
  <1>4. CASE Render
    <2> DEFINE made == IF listing = NoListing THEN {} ELSE Effect(listing, step)
               now == {[j EXCEPT !.royalty = j.kind # "deposit" /\ royalty'] : j \in made}
    <2>1. prop \in Listing /\ royalty' \in BOOLEAN
      BY <1>0, <1>4 DEF Render, WindowType
    <2>2. made \subseteq Job
      BY <1>0, EffectType, PropListing
    <2>3. ASSUME NEW j \in made
          PROVE  [j EXCEPT !.royalty = j.kind # "deposit" /\ royalty'] \in Job
      <3>1. j \in Job /\ (j.kind # "deposit" /\ royalty') \in BOOLEAN
        BY <2>2, <2>3
      <3> QED
        BY <3>1 DEF Job
    <2>4. now \in SUBSET Job /\ Jobs({}, now)
      BY <1>4, <2>3 DEF Render
    <2> HIDE DEF now
    <2>5. jobs' \subseteq Job /\ Cardinality(jobs') <= MaxJobs
      BY <1>0, <2>4, JobsType
    <2>6. WindowType'
      BY <1>0, <1>4, <2>1, <2>5, BuyDialogAssumption
         DEF Render, WindowType, OnTheListing, PropInv, dialog
    <2>7. UNCHANGED <<submitVars, validating, outside>>
      BY <1>4 DEF Render
    <2>8. HookType' /\ MarketType' /\ validating' \in Click
      BY <1>0, <2>7 DEF submitVars, hook, outside, HookType, MarketType
    <2>9. SentInv'
      BY <1>0, <2>7, SentStays DEF submitVars, hook, SentType
    <2> QED
      BY <2>6, <2>8, <2>9 DEF BuyIInv
  <1>5. ASSUME NEW j \in Job, Fetched(j)
        PROVE  BuyIInv'
    <2>1. prop \in Listing
      BY <1>5 DEF Fetched, Job
    <2>2. jobs' \subseteq Job /\ Cardinality(jobs') <= MaxJobs
      BY <1>0, <1>5, <2>1, EffectType, JobsType DEF Fetched
    <2>3. WindowType'
      BY <1>0, <1>5, <2>1, <2>2, BuyDialogAssumption
         DEF Fetched, WindowType, OnTheListing, PropInv, After, StepFor
    <2>4. UNCHANGED <<submitVars, validating, outside>>
      BY <1>5 DEF Fetched
    <2>5. HookType' /\ MarketType' /\ validating' \in Click
      BY <1>0, <2>4 DEF submitVars, hook, outside, HookType, MarketType
    <2>6. SentInv'
      BY <1>0, <2>4, SentStays DEF submitVars, hook, SentType
    <2> QED
      BY <2>3, <2>5, <2>6 DEF BuyIInv
  <1>6. ASSUME NEW j \in Job, FetchedLate(j)
        PROVE  BuyIInv'
    <2> DEFINE s == StepFor(j.listing)
               new == Effect(j.listing, s) \cup {Promise("fetch", prop)}
    <2>1. HookType' /\ SentInv'
      BY <1>0, <1>6, ResetInv DEF FetchedLate
    <2>2. j \in jobs
      BY <1>6 DEF FetchedLate, Jobs
    <2>3. prop \in Listing /\ j.listing \in Listing
      BY <1>0, <2>2, PropListing DEF Job
    <2>4. new \in SUBSET Job
      BY <1>0, <2>3, EffectType, PromiseType
    <2>5. Jobs({j}, new) /\ step' \in {"Reserve", "Initial"}
      BY <1>6 DEF FetchedLate
    <2> HIDE DEF new
    <2>6. jobs' \subseteq Job /\ Cardinality(jobs') <= MaxJobs
      BY <1>0, <2>4, <2>5, JobsType
    <2>7. WindowType'
      BY <1>0, <1>6, <2>3, <2>5, <2>6, BuyDialogAssumption
         DEF FetchedLate, WindowType, OnTheListing, PropInv
    <2>8. MarketType' /\ validating' \in Click
      BY <1>0, <1>6 DEF FetchedLate, MarketType, outside
    <2> QED
      BY <2>1, <2>7, <2>8 DEF BuyIInv
  <1>7. ASSUME NEW j \in Job, DepositPrepared(j) \/ FirstPrepared(j) \/ NextPrepared(j)
                              \/ PrepareFails(j)
        PROVE  BuyIInv'
    <2>1. Jobs({j}, {})
      BY <1>7 DEF DepositPrepared, FirstPrepared, NextPrepared, PrepareFails
    <2>2. prop \in Listing
      BY <1>0, <2>1, PropListing DEF Jobs
    <2>3. Deposit(j.listing) \in Op /\ Buy(j) \in Op
      BY <1>7, BuyDialogAssumption DEF Job, Deposit, Buy
    <2>4. UNCHANGED <<checks, tx>> /\ faults' \in FaultType
      <3>1. CASE PrepareFails(j)
        BY <1>0, <3>1, CountType DEF PrepareFails
      <3>2. CASE ~PrepareFails(j)
        BY <1>0, <1>7, <3>2 DEF DepositPrepared, FirstPrepared, NextPrepared, SentType
      <3> QED
        BY <3>1, <3>2
    <2>5. DepositPrepared(j) => HookType' /\ SentInv'
      BY <1>0, <2>3, <2>4, PreparedInv DEF DepositPrepared
    <2>6. FirstPrepared(j) => HookType' /\ SentInv'
      BY <1>0, <2>3, <2>4, PreparedInv DEF FirstPrepared
    <2>7. NextPrepared(j) => HookType' /\ SentInv'
      BY <1>0, <2>3, <2>4, PreparedInv DEF NextPrepared
    <2>8. PrepareFails(j) => HookType' /\ SentInv'
      BY <1>0, <2>3, <2>4, PreparedInv DEF PrepareFails
    <2>9. HookType' /\ SentInv'
      BY <1>7, <2>5, <2>6, <2>7, <2>8
    <2>10. jobs' \subseteq Job /\ Cardinality(jobs') <= MaxJobs
      BY <1>0, <2>1, JobsType
    <2>11. /\ UNCHANGED <<prop, listing, royalty, validating, market, height>>
           /\ step' \in {step, "Purchase"} /\ noted' \in {noted, noted \cup {"first"}}
      BY <1>7 DEF DepositPrepared, FirstPrepared, NextPrepared, PrepareFails,
                  window, dialog, outside
    <2>12. WindowType'
      BY <1>0, <2>2, <2>10, <2>11, BuyDialogAssumption
         DEF WindowType, OnTheListing, PropInv
    <2>13. MarketType' /\ validating' \in Click
      BY <1>0, <2>11 DEF MarketType
    <2> QED
      BY <2>9, <2>12, <2>13 DEF BuyIInv
  <1>8. ASSUME NEW again \in BOOLEAN, Press(again)
        PROVE  BuyIInv'
    <2>1. UNCHANGED <<dialog, royalty, jobs, outside>>
      BY <1>8 DEF Press
    <2>2. WindowType' /\ MarketType'
      BY <1>0, <2>1 DEF WindowType, MarketType, OnTheListing, PropInv, dialog, outside
    <2>3. CASE step = "Purchase"
      <3>1. UNCHANGED submitVars
        BY <1>8, <2>3 DEF Press
      <3>2. validating' \in Click
        BY <1>0, <1>8, <2>3 DEF Press, Click, HookType, WindowType
      <3>3. HookType' /\ SentInv'
        BY <1>0, <3>1, SentStays DEF submitVars, hook, HookType, SentType
      <3> QED
        BY <2>2, <3>2, <3>3 DEF BuyIInv
    <2>4. CASE step # "Purchase"
      <3>1. Retry(op, fee) \/ SendTx(op, fee)
        BY <1>8, <2>4 DEF Press
      <3>2. HookType' /\ SentInv'
        BY <1>0, <3>1, SendTxInv, RetryInv DEF HookType
      <3>3. validating' \in Click
        BY <1>0, <1>8, <2>4 DEF Press
      <3> QED
        BY <2>2, <3>2, <3>3 DEF BuyIInv
    <2> QED
      BY <2>3, <2>4
  <1>9. CASE Validated
    <2>1. UNCHANGED <<dialog, royalty, jobs, outside>>
      BY <1>9 DEF Validated
    <2>2. WindowType' /\ MarketType'
      BY <1>0, <2>1 DEF WindowType, MarketType, OnTheListing, PropInv, dialog, outside
    <2>3. validating.op \in Op \cup {NoOp} /\ validating.fee \in Op \cup {NoOp}
      BY <1>0 DEF Click
    <2>4. ASSUME BuyOK(validating.listing) PROVE HookType' /\ SentInv'
      <3>1. \/ Retry(validating.op, validating.fee)
            \/ SendTx(validating.op, validating.fee)
        BY <1>9, <2>4 DEF Validated
      <3> QED
        BY <1>0, <2>3, <3>1, SendTxInv, RetryInv
    <2>5. ASSUME ~BuyOK(validating.listing) PROVE HookType' /\ SentInv'
      <3>1. error' = "Validation" /\ UNCHANGED <<op, state, hash, fee, estimates, checks, tx, faults>>
        BY <1>9, <2>5 DEF Validated
      <3> QED
        BY <1>0, <3>1, SentStays DEF HookType, ErrorKind, SentType
    <2>6. validating' \in Click
      BY <1>9 DEF Validated, NoClick, Click
    <2> QED
      BY <2>2, <2>4, <2>5, <2>6 DEF BuyIInv
  <1>10. CASE Hook
    <2>1. HookType' /\ SentInv'
      BY <1>0, <1>10, HookInv DEF Hook
    <2>2. UNCHANGED <<window, outside>> /\ Reserved
      BY <1>10 DEF Hook
    <2>3. CASE UNCHANGED jobs
      BY <1>0, <2>1, <2>2, <2>3
         DEF BuyIInv, WindowType, MarketType, OnTheListing, PropInv, window, dialog, outside
    <2>4. CASE Jobs({}, {Promise("next", listing)}) /\ listing # NoListing
      <3>1. prop \in Listing /\ listing = prop
        BY <1>0, <2>4, PropListing
      <3>2. jobs' \subseteq Job /\ Cardinality(jobs') <= MaxJobs
        BY <1>0, <2>4, <3>1, PromiseType, JobsType
      <3>3. WindowType' /\ MarketType' /\ validating' \in Click
        BY <1>0, <2>2, <3>1, <3>2, BuyDialogAssumption
           DEF WindowType, MarketType, OnTheListing, PropInv, window, dialog, outside
      <3> QED
        BY <2>1, <3>3 DEF BuyIInv
    <2> QED
      BY <2>2, <2>3, <2>4 DEF Reserved
  <1>11. CASE Block
    <2>1. UNCHANGED <<submitVars, window, jobs>>
      BY <1>11 DEF Block
    <2>2. HookType' /\ WindowType' /\ validating' \in Click
      BY <1>0, <2>1 DEF submitVars, hook, window, dialog, HookType, WindowType,
                        OnTheListing, PropInv
    <2>3. SentInv'
      BY <1>0, <2>1, SentStays DEF submitVars, hook, SentType
    <2>4. MarketType'
      BY <1>0, <1>11, BuyDialogAssumption DEF Block, MarketType
    <2> QED
      BY <2>2, <2>3, <2>4 DEF BuyIInv
  <1>12. ASSUME NEW h \in Txs, Execute(h)
         PROVE  BuyIInv'
    <2>1. UNCHANGED <<hook, estimates, checks, faults, window, jobs, height, noted>>
      BY <1>12 DEF Execute
    <2>2. tx[h].at = "pending" /\ (Move(h, "success") \/ Move(h, "error"))
      BY <1>12 DEF Execute
    <2>3. SentInv'
      BY <1>0, <2>1, <2>2, MoveKeeps DEF Place, InBlock, hook, SentType
    <2>4. HookType' /\ WindowType' /\ validating' \in Click
      BY <1>0, <2>1 DEF hook, window, dialog, HookType, WindowType, OnTheListing, PropInv
    <2>5. tx[h].op \in Op
      <3>1. tx[h] \in TxType
        BY <1>0 DEF SentType, Txs
      <3> QED
        BY <3>1 DEF TxType
    <2>6. tx[h].op.listing \in Listing
      BY <2>5, BuyDialogAssumption
    <2>7. height + DepositTimeout + 1 \in Nat
      BY <1>0, BuyDialogAssumption DEF MarketType
    <2> DEFINE l == tx[h].op.listing
               rows == [Listing -> [by: {"nobody", "me", "other"}, until: Nat, gone: BOOLEAN]]
    <2>8. MarketType'
      <3>1. /\ [market EXCEPT ![l].by = "me", ![l].until = height + DepositTimeout + 1] \in rows
            /\ [market EXCEPT ![l].gone = TRUE] \in rows
            /\ market \in rows
        BY <1>0, <2>6, <2>7, MarketRow DEF MarketType
      <3>2. market' \in rows
        <4> HIDE DEF rows
        <4> QED
          BY <1>12, <3>1 DEF Execute
      <3> QED
        BY <1>0, <2>1, <3>2 DEF MarketType
    <2> QED
      BY <2>3, <2>4, <2>8 DEF BuyIInv
  <1>13. CASE UNCHANGED buyVars
    <2>1. HookType' /\ WindowType' /\ MarketType' /\ validating' \in Click
      BY <1>0, <1>13 DEF buyVars, submitVars, hook, window, dialog, outside, HookType,
                         WindowType, MarketType, OnTheListing, PropInv
    <2>2. SentInv'
      BY <1>0, <1>13, SentStays DEF buyVars, submitVars, hook, SentType
    <2> QED
      BY <2>1, <2>2 DEF BuyIInv
  <1> QED
    BY <1>1, <1>2, <1>3, <1>4, <1>5, <1>6, <1>7, <1>8, <1>9, <1>10, <1>11, <1>12, <1>13
       DEF BuyNext, Callbacks

LEMMA BuySafe == BuySpec => []BuyIInv
  BY BuyInitial, BuyStep, PTL DEF BuySpec

\* The dialog and its hook: the state is one that the components can show, of
\* the listing that the page passes or of none (the two effects and the
\* callbacks of BuyDialog.tsx over useSubmitTx.ts).
THEOREM BuyInvariant == BuySpec => []BuyInv
  <1>1. BuyIInv => BuyInv
    BY DEF BuyIInv, HookType, SentInv, SentType, MarketType, WindowType, BuyInv, BuyTypeOK,
           SubmitTypeOK, CheckType, TxType, FaultType
  <1> QED
    BY <1>1, BuySafe, PTL

\* client.ts: sign reads the sequence of the last block, so that in any number
\* of prompts and retries one transaction of the user waits for a block.
THEOREM OneAtATime == BuySpec => []OneWaits
  <1>1. BuyIInv => OneWaits
    BY DEF BuyIInv, SentInv
  <1> QED
    BY <1>1, BuySafe, PTL
-----------------------------------------------------------------------------
(* The royalty *)

\* Nothing is prepared, and no estimate asked for.
Fresh == op = NoOp /\ fee = NoOp /\ \A o \in Op : estimates[o] = 0

\* Until the royalty is there the dialog prepares a deposit, once for a
\* listing, and nothing is signed.
Waiting ==
    /\ tx = <<>> /\ state = "Initial" /\ validating = NoClick
    /\ \A c \in Check : checks[c] = NoCheck
    /\ step # "Purchase"
    /\ \A j \in jobs : /\ j.kind # "next"
                       /\ j.kind = "fetch" <=> listing = NoListing
                       /\ j.kind = "deposit" => Fresh /\ error = "none"
    /\ step = "Initial" <=> listing = NoListing
    /\ listing = NoListing => Fresh /\ error = "none"
    /\ error # "none" => Fresh

\* The promises are of the page's listing, and know the royalty if they need it.
JobsKnow ==
    \A j \in jobs : /\ j.listing = prop
                    /\ j.kind \in {"fetch", "deposit"} => ~j.royalty
                    /\ j.kind = "next" => j.royalty

Knows(o) == o \in Op /\ o.kind = "buy" => o.royalty

\* The user stays, buys nothing that was held before, and no request fails.
Untroubled == noted = {} /\ faults.errors = 0

RoyaltyInv ==
    Untroubled =>
        /\ prop = NoListing => ~royalty
        /\ JobsKnow /\ Knows(op) /\ Knows(validating.op)
        /\ ~royalty => Waiting

LEMMA RoyaltyInitial == BuyInit => RoyaltyInv
  <1> SUFFICES ASSUME BuyInit PROVE RoyaltyInv
    OBVIOUS
  <1>1. Fresh /\ Knows(op) /\ Knows(validating.op)
    BY SubmitTxAssumption DEF BuyInit, SubmitInit, Fresh, Knows, NoClick
  <1>2. JobsKnow /\ Waiting
    BY <1>1 DEF BuyInit, SubmitInit, JobsKnow, Waiting
  <1> QED
    BY <1>1, <1>2 DEF BuyInit, RoyaltyInv

\* No step takes back what has failed or what is noted.
LEMMA NothingUndone ==
  ASSUME [BuyNext]_buyVars
  PROVE  /\ faults' = faults \/ \E f \in {"errors", "fails", "lost"} : Count(f)
         /\ noted \subseteq noted'
  <1> DEFINE Same == faults' = faults \/ \E f \in {"errors", "fails", "lost"} : Count(f)
  <1>1. ASSUME NEW o, NEW f, SendTx(o, f) \/ Retry(o, f) PROVE Same
    BY <1>1 DEF SendTx, Retry
  <1> HIDE DEF Same
  <1>2. Same
    <2> USE DEF Same
    <2>1. ASSUME NEW l \in Listing, OpenListing(l) \/ OtherBuyers(l) PROVE Same
      BY <2>1 DEF OpenListing, OtherBuyers, submitVars
    <2>2. CASE BackToMarket \/ Render
      BY <2>2 DEF BackToMarket, Render, submitVars
    <2>3. ASSUME NEW j \in Job,
                 \/ Fetched(j) \/ FetchedLate(j)
                 \/ DepositPrepared(j) \/ FirstPrepared(j) \/ NextPrepared(j)
                 \/ PrepareFails(j)
          PROVE Same
      BY <2>3 DEF Fetched, FetchedLate, DepositPrepared, FirstPrepared, NextPrepared,
                  PrepareFails, submitVars
    <2>4. ASSUME NEW again \in BOOLEAN, Press(again) PROVE Same
      <3> HIDE DEF Same
      <3> QED
        BY <1>1, <2>4 DEF Press, submitVars, Same
    <2>5. CASE Validated
      <3> HIDE DEF Same
      <3> QED
        BY <1>1, <2>5 DEF Validated, Same
    <2>6. CASE Hook
      BY <2>6 DEF Hook, Estimated, EstimateFails, Poll, Tick, Answer, Deliver, Wallet, Reject,
                  Broadcast, BroadcastLost, SendFails, Include, Fail, Drop, Index
    <2>7. ASSUME NEW h \in Txs, Execute(h) PROVE Same
      BY <2>7 DEF Execute
    <2>8. CASE Block \/ UNCHANGED buyVars
      BY <2>8 DEF Block, buyVars, submitVars
    <2> QED
      BY <2>1, <2>2, <2>3, <2>4, <2>5, <2>6, <2>7, <2>8 DEF BuyNext, Callbacks
  <1>3. noted \subseteq noted'
    <2>1. ASSUME NEW l \in Listing, OpenListing(l) \/ OtherBuyers(l) PROVE noted \subseteq noted'
      BY <2>1 DEF OpenListing, OtherBuyers
    <2>2. CASE BackToMarket \/ Render
      BY <2>2 DEF BackToMarket, Render, outside
    <2>3. ASSUME NEW j \in Job,
                 \/ Fetched(j) \/ FetchedLate(j)
                 \/ DepositPrepared(j) \/ FirstPrepared(j) \/ NextPrepared(j)
                 \/ PrepareFails(j)
          PROVE noted \subseteq noted'
      BY <2>3 DEF Fetched, FetchedLate, DepositPrepared, FirstPrepared, NextPrepared,
                  PrepareFails, outside
    <2>4. ASSUME NEW again \in BOOLEAN, Press(again) PROVE noted \subseteq noted'
      BY <2>4 DEF Press, outside
    <2>5. CASE Validated \/ Hook \/ Block \/ UNCHANGED buyVars
      BY <2>5 DEF Validated, Hook, Block, buyVars, outside
    <2>6. ASSUME NEW h \in Txs, Execute(h) PROVE noted \subseteq noted'
      BY <2>6 DEF Execute
    <2> QED
      BY <2>1, <2>2, <2>3, <2>4, <2>5, <2>6 DEF BuyNext, Callbacks
  <1> QED
    BY <1>2, <1>3 DEF Same

\* Errors and notes stay.
LEMMA UntroubledBefore ==
  ASSUME BuyIInv, [BuyNext]_buyVars, Untroubled'
  PROVE  Untroubled
  <1>1. faults \in FaultType
    BY DEF BuyIInv, SentInv, SentType
  <1>2. \A f \in {"errors", "fails", "lost"} : Count(f) =>
            faults'.errors = (IF f = "errors" THEN faults.errors + 1 ELSE faults.errors)
    BY <1>1 DEF Count, FaultType
  <1> QED
    BY <1>1, <1>2, NothingUndone, SubmitTxAssumption DEF Untroubled, FaultType

LEMMA PromiseFields ==
  ASSUME NEW kind, NEW l
  PROVE  /\ Promise(kind, l).kind = kind /\ Promise(kind, l).listing = l
         /\ kind \in {"fetch", "deposit"} => ~Promise(kind, l).royalty
         /\ kind = "next" => (Promise(kind, l).royalty <=> royalty)
  BY DEF Promise

LEMMA RoyaltyStep == BuyIInv /\ RoyaltyInv /\ [BuyNext]_buyVars => RoyaltyInv'
  <1> SUFFICES ASSUME BuyIInv, RoyaltyInv, [BuyNext]_buyVars, Untroubled'
               PROVE  /\ prop' = NoListing => ~royalty'
                      /\ JobsKnow' /\ Knows(op') /\ Knows(validating'.op)
                      /\ ~royalty' => Waiting'
    BY DEF RoyaltyInv, Knows
  <1> DEFINE Goal == /\ prop' = NoListing => ~royalty'
                     /\ JobsKnow' /\ Knows(op') /\ Knows(validating'.op)
                     /\ ~royalty' => Waiting'
  <1>0. /\ HookType /\ SentInv /\ SentType /\ WindowType /\ OnTheListing /\ PropInv
        /\ validating \in Click /\ royalty \in BOOLEAN
    BY DEF BuyIInv, SentInv, WindowType
  <1>1. Untroubled
    BY UntroubledBefore
  <1>2. /\ prop = NoListing => ~royalty
        /\ JobsKnow /\ Knows(op) /\ Knows(validating.op)
        /\ ~royalty => Waiting
    BY <1>1 DEF RoyaltyInv
  <1>3. ~royalty => Len(tx) = 0 /\ Txs = {} /\ hash = 0
    BY <1>0, <1>2 DEF Waiting, Txs, SentType
  <1>4. NoOp \notin Op /\ NoListing \notin Listing
    BY SubmitTxAssumption, BuyDialogAssumption
  <1>5. faults.errors = 0 /\ faults'.errors = 0 /\ noted = {} /\ noted' = {}
    BY <1>1 DEF Untroubled
  <1>6. ~Count("errors")
    BY <1>0, <1>5 DEF Count, SentType, FaultType
  <1> HIDE DEF Goal
  <1>11. ASSUME NEW l \in Listing, OpenListing(l)
         PROVE  Goal
    <2>1. prop \in {l, NoListing} /\ listing = NoListing
      BY <1>0, <1>5, <1>11 DEF OpenListing, OnTheListing
    <2>2. /\ prop' = l /\ listing' = NoListing /\ step' = "Initial"
          /\ op' = NoOp /\ fee' = NoOp /\ state' = "Initial" /\ error' = "none"
          /\ UNCHANGED <<estimates, checks, tx, validating>>
          /\ jobs' = jobs \cup {Promise("fetch", l)}
      BY <1>4, <1>11 DEF OpenListing, Reset, Jobs
    <2>3. JobsKnow'
      BY <1>0, <1>2, <2>1, <2>2, PromiseFields DEF JobsKnow, PropInv
    <2>4. ~royalty' => ~royalty
      BY <1>2, <1>11, <2>1 DEF OpenListing
    <2>5. ~royalty' => Waiting'
      BY <1>2, <2>1, <2>2, <2>4, PromiseFields DEF Waiting, Fresh
    <2>6. Knows(op') /\ Knows(validating'.op) /\ prop' # NoListing
      BY <1>2, <1>4, <2>2 DEF Knows
    <2> QED
      BY <2>3, <2>5, <2>6 DEF Goal
  <1>12. ASSUME NEW l \in Listing, OtherBuyers(l)
         PROVE  Goal
    <2>1. UNCHANGED <<submitVars, window, jobs>>
      BY <1>12 DEF OtherBuyers
    <2> QED
      BY <1>2, <2>1 DEF Goal, submitVars, hook, window, dialog, JobsKnow, Waiting, Fresh, Knows
  <1>13. ASSUME BackToMarket PROVE Goal
    <2>1. hash # 0 /\ royalty /\ royalty' = royalty
      BY <1>3, <1>13 DEF BackToMarket
    <2>2. prop' = prop /\ op' = NoOp /\ validating' = validating
      BY <1>13 DEF BackToMarket, Reset
    <2>3. jobs' = jobs \cup {Promise("fetch", prop)}
      BY <1>13 DEF BackToMarket, Jobs
    <2>4. JobsKnow'
      BY <1>2, <2>2, <2>3, PromiseFields DEF JobsKnow
    <2> QED
      BY <1>2, <1>4, <2>1, <2>2, <2>4 DEF Goal, Knows
  <1>14. ASSUME Render PROVE Goal
    <2> DEFINE made == IF listing = NoListing THEN {} ELSE Effect(listing, step)
               now == {[j EXCEPT !.royalty = j.kind # "deposit" /\ royalty'] : j \in made}
    <2>1. prop # NoListing /\ royalty' \in {royalty, TRUE} /\ jobs' = jobs \cup now
      BY <1>14 DEF Render, Jobs
    <2>2. UNCHANGED <<submitVars, dialog, validating>>
      BY <1>14 DEF Render
    <2>3. ASSUME NEW j \in made
          PROVE  /\ j.listing = listing /\ j.kind \in {"deposit", "first", "next"}
                 /\ j.kind = "deposit" => step = "Initial" /\ state = "Initial"
                 /\ j.kind = "next" => state = "Success"
                 /\ j \in Job
      <3>1. listing \in Listing
        BY <1>0, <2>3 DEF WindowType
      <3>2. j \in Job
        BY <1>0, <2>3, <3>1, EffectType
      <3> QED
        BY <2>3, <3>2, PromiseFields DEF Effect
    <2>4. ASSUME NEW j \in now
          PROVE  /\ j.listing = listing /\ j.kind \in {"deposit", "first", "next"}
                 /\ j.kind = "deposit" => step = "Initial" /\ state = "Initial" /\ ~j.royalty
                 /\ j.kind = "next" => state = "Success" /\ (j.royalty <=> royalty')
      <3>1. PICK i \in made : j = [i EXCEPT !.royalty = i.kind # "deposit" /\ royalty']
        BY <2>4
      <3>2. i \in Job /\ (i.kind # "deposit" /\ royalty') \in BOOLEAN
        BY <2>1, <1>0, <2>3, <3>1
      <3> HIDE DEF made
      <3>3. /\ j.kind = i.kind /\ j.listing = i.listing
            /\ j.royalty <=> i.kind # "deposit" /\ royalty'
        BY <3>1, <3>2 DEF Job
      <3> QED
        BY <1>0, <2>1, <2>3, <3>1, <3>3
    <2>5. now # {} => listing = prop /\ listing # NoListing
      BY <1>0 DEF OnTheListing
    <2> HIDE DEF now
    <2>6. royalty => royalty'
      BY <2>1
    <2>7. ~royalty' => ~royalty /\ \A j \in now : j.kind = "first"
      <3> SUFFICES ASSUME ~royalty' PROVE ~royalty /\ \A j \in now : j.kind = "first"
        OBVIOUS
      <3>1. ~royalty
        BY <1>0, <2>1
      <3>2. state = "Initial" /\ (listing # NoListing => step # "Initial")
        BY <1>2, <3>1 DEF Waiting
      <3> QED
        BY <2>4, <2>5, <3>1, <3>2
    <2>8. ~royalty' => Waiting'
      BY <1>2, <2>1, <2>2, <2>5, <2>6, <2>7
         DEF Waiting, Fresh, submitVars, hook, dialog
    <2>9. \A j \in now : j.kind = "next" => j.royalty
      BY <1>2, <2>1, <2>4, <2>6 DEF Waiting
    <2>10. JobsKnow'
      BY <1>2, <2>1, <2>2, <2>4, <2>5, <2>9 DEF JobsKnow, dialog
    <2> QED
      BY <1>2, <2>1, <2>2, <2>8, <2>10 DEF Goal, Knows, submitVars, hook, dialog
  <1>15. ASSUME NEW j \in Job, Fetched(j)
         PROVE  Goal
    <2> DEFINE s == StepFor(prop)
    <2>1. /\ j \in jobs /\ j.kind = "fetch" /\ listing' = prop /\ prop \in Listing
          /\ jobs' = (jobs \ {j}) \cup Effect(prop, s) /\ step' = After(s)
          /\ UNCHANGED <<submitVars, prop, royalty, validating>>
      BY <1>15 DEF Fetched, Jobs, Job
    <2>2. ~royalty => /\ listing = NoListing /\ state = "Initial" /\ Fresh /\ error = "none"
                      /\ s \in {"Initial", "InitialBuy"}
                      /\ \A i \in jobs : i.kind = "fetch"
      BY <1>2, <2>1 DEF Waiting, StepFor
    <2>3. ~royalty => \A i \in jobs : i = j
      BY <1>0, <1>2, <2>1, <2>2 DEF JobsKnow, WindowType, Job
    <2>4. \A i \in Effect(prop, s) :
              /\ i.listing = prop /\ i.kind \in {"deposit", "first", "next"}
              /\ i.kind = "deposit" => ~i.royalty
              /\ i.kind = "next" => s = "Reserve" /\ (i.royalty <=> royalty)
      BY PromiseFields DEF Effect
    <2>5. JobsKnow'
      BY <1>2, <2>1, <2>2, <2>4 DEF JobsKnow
    <2>6. ~royalty' => Waiting'
      <3> SUFFICES ASSUME ~royalty PROVE Waiting'
        BY <2>1
      <3>1. \A i \in jobs' : /\ i.kind \in {"deposit", "first"}
        BY <2>1, <2>2, <2>3, <2>4
      <3>2. step' \in {"Reserve", "InitialBuy"} /\ listing' # NoListing
        BY <1>4, <2>1, <2>2 DEF After
      <3> QED
        BY <1>2, <2>1, <2>2, <3>1, <3>2 DEF Waiting, Fresh, submitVars, hook
    <2> QED
      BY <1>2, <2>1, <2>5, <2>6 DEF Goal, Knows, submitVars, hook
  <1>16. ASSUME NEW j \in Job, FetchedLate(j)
         PROVE  Goal
    <2>1. j \in jobs /\ j.listing # prop
      BY <1>16 DEF FetchedLate, Jobs
    <2> QED
      BY <1>2, <2>1 DEF JobsKnow
  <1>17. ASSUME NEW j \in Job, DepositPrepared(j)
         PROVE  Goal
    <2>1. /\ j \in jobs /\ j.kind = "deposit" /\ jobs' = jobs \ {j}
          /\ UNCHANGED <<state, hash, fee, checks, tx, prop, listing, step, royalty, validating>>
      BY <1>17 DEF DepositPrepared, Jobs, window, dialog
    <2>2. \/ Prepared(Deposit(j.listing)) /\ UNCHANGED error
          \/ error' = "Validation" /\ UNCHANGED <<op, estimates>>
      BY <1>17 DEF DepositPrepared
    <2>3. Knows(op')
      BY <1>2, <2>2 DEF Knows, Prepared, Deposit
    <2>4. JobsKnow'
      BY <1>2, <2>1 DEF JobsKnow
    <2>5. ~royalty => \A i \in jobs' : i.kind # "deposit"
      BY <1>0, <1>2, <2>1 DEF JobsKnow, WindowType, Job
    <2>6. ~royalty => Waiting'
      <3> SUFFICES ASSUME ~royalty PROVE Waiting'
        OBVIOUS
      <3>1. Waiting /\ Fresh /\ error = "none" /\ listing # NoListing
        BY <1>2, <2>1 DEF Waiting
      <3>2. error' # "none" => Fresh'
        BY <2>1, <2>2, <3>1 DEF Fresh
      <3> QED
        BY <2>1, <2>5, <3>1, <3>2 DEF Waiting
    <2> QED
      BY <1>2, <2>1, <2>3, <2>4, <2>6 DEF Goal
  <1>18. ASSUME NEW j \in Job, FirstPrepared(j)
         PROVE  Goal
    BY <1>5, <1>18 DEF FirstPrepared
  <1>19. ASSUME NEW j \in Job, NextPrepared(j)
         PROVE  Goal
    <2>1. /\ j \in jobs /\ j.kind = "next" /\ jobs' = jobs \ {j}
          /\ UNCHANGED <<prop, royalty, validating>>
      BY <1>19 DEF NextPrepared, Jobs
    <2>2. royalty /\ j.royalty
      BY <1>2, <2>1 DEF Waiting, JobsKnow
    <2>3. op' \in {op, Buy(j)}
      BY <1>19 DEF NextPrepared, Prepared
    <2>4. Knows(op')
      BY <1>2, <2>2, <2>3 DEF Knows, Buy
    <2>5. JobsKnow'
      BY <1>2, <2>1 DEF JobsKnow
    <2> QED
      BY <1>2, <2>1, <2>2, <2>4, <2>5 DEF Goal
  <1>20. ASSUME NEW j \in Job, PrepareFails(j)
         PROVE  Goal
    BY <1>6, <1>20 DEF PrepareFails
  <1>21. ASSUME NEW again \in BOOLEAN, Press(again)
         PROVE  Goal
    <2>1. UNCHANGED <<dialog, royalty, jobs>>
      BY <1>21 DEF Press
    <2>2. op' = op /\ validating' \in {validating, [listing |-> listing, op |-> op, fee |-> fee, again |-> again]}
      BY <1>21 DEF Press, SendTx, Retry, submitVars, hook
    <2>3. ~royalty => Fresh /\ step # "Purchase" /\ Retry(op, fee) /\ validating' = validating
      BY <1>2, <1>21 DEF Press, Waiting, CanRetry
    <2>4. ~royalty => UNCHANGED <<hook, estimates, checks, tx>>
      BY <1>4, <2>3 DEF Fresh, Retry
    <2>5. ~royalty' => Waiting'
      BY <1>2, <2>1, <2>3, <2>4 DEF Waiting, Fresh, hook, dialog
    <2>6. JobsKnow'
      BY <1>2, <2>1 DEF JobsKnow, dialog
    <2> QED
      BY <1>2, <2>1, <2>2, <2>5, <2>6 DEF Goal, Knows, dialog
  <1>22. ASSUME Validated PROVE Goal
    <2>1. UNCHANGED <<dialog, royalty, jobs, op>> /\ validating' = NoClick
      BY <1>22 DEF Validated, SendTx, Retry, hook
    <2>2. royalty
      BY <1>2, <1>22 DEF Validated, Waiting
    <2>3. JobsKnow'
      BY <1>2, <2>1 DEF JobsKnow, dialog
    <2> QED
      BY <1>2, <1>4, <2>1, <2>2, <2>3 DEF Goal, Knows, dialog, NoClick
  <1>23. ASSUME Hook PROVE Goal
    <2>1. UNCHANGED <<prop, listing, step, royalty, validating>> /\ Reserved
      BY <1>23 DEF Hook, window, dialog
    <2>2. op' = op
      BY <1>23 DEF Hook, Estimated, EstimateFails, Poll, Tick, Answer, Deliver, Wallet, Reject,
                   Broadcast, BroadcastLost, SendFails, Include, Fail, Drop, Index, hook
    <2>3. ~royalty => \E o \in Op : Estimated(o)
      <3> SUFFICES ASSUME ~royalty PROVE \E o \in Op : Estimated(o)
        OBVIOUS
      <3>1. ~Wallet /\ ~\E h \in Txs : Include(h) \/ Fail(h) \/ Drop(h)
                                       \/ (tx[h].at = "included" /\ Index(h))
        BY <1>3 DEF Wallet
      <3>2. ~Poll
        BY <1>2, <1>3 DEF Poll, Tick, Polls, Answer, Deliver, Waiting
      <3>3. \A o \in Op : ~EstimateFails(o)
        BY <1>6 DEF EstimateFails
      <3> QED
        BY <1>23, <3>1, <3>2, <3>3 DEF Hook
    <2>4. ~royalty => UNCHANGED <<state, hash, checks, tx, jobs>>
      BY <2>1, <2>3 DEF Estimated, Reserved
    <2>5. ~royalty => ~Fresh /\ error' = "none"
      BY <2>3 DEF Estimated, Fresh
    <2>6. ~royalty => Waiting'
      BY <1>2, <2>1, <2>4, <2>5 DEF Waiting
    <2>7. CASE UNCHANGED jobs
      BY <1>2, <2>1, <2>2, <2>6, <2>7 DEF Goal, JobsKnow, Knows
    <2>8. CASE Jobs({}, {Promise("next", listing)}) /\ listing # NoListing /\ ~UNCHANGED jobs
      <3>1. royalty /\ listing = prop /\ jobs' = jobs \cup {Promise("next", listing)}
        BY <1>0, <2>4, <2>8 DEF Jobs, OnTheListing
      <3>2. JobsKnow'
        BY <1>2, <2>1, <3>1, PromiseFields DEF JobsKnow
      <3> QED
        BY <1>2, <2>1, <2>2, <2>6, <3>2 DEF Goal, Knows
    <2> QED
      BY <2>1, <2>7, <2>8 DEF Reserved
  <1>24. ASSUME Block PROVE Goal
    BY <1>2, <1>24 DEF Block, Goal, submitVars, hook, window, dialog, JobsKnow, Waiting, Fresh, Knows
  <1>25. ASSUME NEW h \in Txs, Execute(h)
         PROVE  Goal
    <2>1. royalty /\ UNCHANGED <<hook, window, jobs>>
      BY <1>3, <1>25 DEF Execute
    <2> QED
      BY <1>2, <2>1 DEF Goal, hook, window, dialog, JobsKnow, Knows
  <1>26. ASSUME UNCHANGED buyVars PROVE Goal
    BY <1>2, <1>26 DEF Goal, buyVars, submitVars, hook, window, dialog, JobsKnow, Waiting, Fresh, Knows
  <1>27. \/ \E l \in Listing : OpenListing(l) \/ OtherBuyers(l)
         \/ BackToMarket \/ Render
         \/ \E j \in Job : \/ Fetched(j) \/ FetchedLate(j) \/ DepositPrepared(j)
                          \/ FirstPrepared(j) \/ NextPrepared(j) \/ PrepareFails(j)
         \/ \E again \in BOOLEAN : Press(again)
         \/ Validated \/ Hook \/ Block
         \/ \E h \in Txs : Execute(h)
         \/ UNCHANGED buyVars
    BY DEF BuyNext, Callbacks
  <1>28. Goal
    BY <1>27, <1>11, <1>12, <1>13, <1>14, <1>15, <1>16, <1>17, <1>18, <1>19, <1>20, <1>21,
       <1>22, <1>23, <1>24, <1>25, <1>26
  <1> QED
    BY <1>28 DEF Goal

\* A purchase is signed in the second step only after validate, of the
\* inscription that was there at the click.
LEMMA PurchaseSigned ==
  ASSUME BuyIInv, [BuyNext]_buyVars, Signs, step = "Purchase"
  PROVE  Signed = validating.op /\ validating # NoClick /\ BuyOK(validating.listing)
  <1>0. SentInv /\ SentType /\ WindowType /\ tx \in Seq(TxType) /\ Len(tx) \in Nat
    BY DEF BuyIInv, SentInv, SentType
  <1>1. tx' # tx /\ \A h \in Txs, place \in Place : ~Move(h, place)
    BY <1>0, MoveType DEF Signs
  <1>2. Validated
    <2>1. ASSUME NEW l \in Listing PROVE ~OpenListing(l) /\ ~OtherBuyers(l)
      BY <1>1 DEF OpenListing, OtherBuyers, submitVars
    <2>2. ~BackToMarket /\ ~Render
      BY <1>1 DEF BackToMarket, Render, submitVars
    <2>3. ~Callbacks
      BY <1>1 DEF Callbacks, Fetched, FetchedLate, DepositPrepared, FirstPrepared,
                  NextPrepared, PrepareFails, submitVars
    <2>4. ASSUME NEW again \in BOOLEAN PROVE ~Press(again)
      BY <1>1 DEF Press, submitVars
    <2>5. ~Hook
      BY <1>1 DEF Hook, Estimated, EstimateFails, Poll, Tick, Answer, Deliver, Wallet, Reject,
                  Broadcast, BroadcastLost, Include, Fail, Drop, Index, Place, InBlock
    <2>6. ~Block /\ ~UNCHANGED buyVars
      BY <1>1 DEF Block, buyVars, submitVars
    <2>7. ASSUME NEW h \in Txs PROVE ~Execute(h)
      BY <1>1 DEF Execute, Place, InBlock
    <2> QED
      BY <2>1, <2>2, <2>3, <2>4, <2>5, <2>6, <2>7 DEF BuyNext
  <1>3. /\ SendTx(validating.op, validating.fee)
        /\ validating # NoClick /\ BuyOK(validating.listing)
    BY <1>1, <1>2 DEF Validated, Retry
  <1>4. tx' = Append(tx, [op |-> validating.op, fee |-> validating.fee,
                          sequence |-> Sequence, at |-> "prompt"])
    BY <1>1, <1>3 DEF SendTx
  <1>5. /\ Len(tx') = Len(tx) + 1
        /\ tx'[Len(tx) + 1] = [op |-> validating.op, fee |-> validating.fee,
                               sequence |-> Sequence, at |-> "prompt"]
    <2> DEFINE new == [op |-> validating.op, fee |-> validating.fee,
                       sequence |-> Sequence, at |-> "prompt"]
    <2> HIDE DEF new
    <2>1. tx' = Append(tx, new)
      BY <1>4 DEF new
    <2>2. Len(tx') = Len(tx) + 1 /\ tx'[Len(tx) + 1] = new
      BY <1>0, <2>1
    <2> QED
      BY <2>2 DEF new
  <1> QED
    BY <1>3, <1>5 DEF Signed

LEMMA SignedType ==
  ASSUME SentType', Signs, Len(tx) \in Nat
  PROVE  Signed \in Op
  <1>1. Len(tx') \in 1 .. Len(tx') /\ tx' \in Seq(TxType)
    BY DEF SentType, Signs
  <1>2. tx'[Len(tx')] \in TxType
    BY <1>1
  <1> QED
    BY <1>2 DEF TxType, Signed

\* client/src/operations/marketplace.ts, BuyDialog.tsx: a purchase that is
\* signed after the deposit has the royalty, however the fetch of the royalty,
\* the estimates and the polls are interleaved, as long as the user stays with
\* the listing and no request fails.
THEOREM RoyaltyIsPaid == BuySpec => BuysWithRoyalty
  <1>1. BuyIInv /\ RoyaltyInv /\ [BuyNext]_buyVars
          => (BuyIInv /\ RoyaltyInv)'
    BY BuyStep, RoyaltyStep
  <1>2. BuyIInv /\ RoyaltyInv /\ [BuyNext]_buyVars =>
          [Signs /\ noted = {} /\ faults.errors = 0 /\ step = "Purchase"
             /\ Signed.kind = "buy" => Signed.royalty]_buyVars
    <2> SUFFICES ASSUME BuyIInv, RoyaltyInv, [BuyNext]_buyVars, Signs, noted = {},
                        faults.errors = 0, step = "Purchase", Signed.kind = "buy"
                 PROVE  Signed.royalty
      OBVIOUS
    <2>1. Signed = validating.op
      BY PurchaseSigned
    <2>2. Knows(validating.op)
      BY DEF RoyaltyInv, Untroubled
    <2>3. validating.op \in Op
      <3>1. Signed \in Op
        BY BuyStep, SignedType DEF BuyIInv, SentInv, SentType
      <3> QED
        BY <2>1, <3>1
    <2> QED
      BY <2>1, <2>2, <2>3 DEF Knows
  <1>3. BuyInit => BuyIInv /\ RoyaltyInv
    BY BuyInitial, RoyaltyInitial
  <1> QED
    BY <1>1, <1>2, <1>3, PTL DEF BuySpec, BuysWithRoyalty
-----------------------------------------------------------------------------
(* The two steps *)

\* The polls of the hook are asked one at a time.
OnePoll == \A c, d \in Check : c = d

OnWay == {"mempool", "included", "pending"}
Going == OnWay \cup {"prompt"}
Polling == {"Submit", "SuccessOnchain", "SuccessIndexer"}

\* What the dialog has at hand is of the page's listing.
OfProp ==
    /\ \A h \in Txs : tx[h].op.listing = prop
    /\ \A j \in jobs : j.listing = prop
    /\ op \in Op => op.listing = prop
    /\ validating # NoClick => validating.listing = prop
    /\ validating.op \in Op => validating.op.listing = prop

\* The hook knows of the one transaction that is on its way, and so do its polls.
Followed ==
    /\ \A h, k \in Txs : tx[h].at \in Going /\ tx[k].at \in Going => h = k
    /\ \A h \in Txs : tx[h].at = "prompt" => state = "Sign" /\ hash = 0
    /\ \A h \in Txs : tx[h].at \in OnWay => hash = h /\ state \in Polling
    /\ hash # 0 => tx[hash].at \in OnWay \cup {"success"} /\ state \in Polling \cup {"Success"}
    /\ state \in Polling \cup {"Success"} => hash # 0
    /\ state = "Success" => tx[hash].at = "success"
    /\ \A c \in Check : checks[c] # NoCheck =>
          /\ hash # 0 /\ checks[c].hash = hash /\ state \in Polling
          /\ checks[c].result # "Failed"
          /\ checks[c].result = "Success" => tx[hash].at = "success"

Quiet == hash = 0 /\ \A h \in Txs : tx[h].at \notin Going

\* The listing can not be bought any more.
Lost == ~BuyOK(prop)

\* While a transaction is prompted for, on its way or done, nothing can be sent
\* but a purchase that validate refuses.
Shown == ~Quiet => \/ error = "none" /\ validating = NoClick
                   \/ step = "Purchase" /\ Lost

Untouched == tx = <<>> /\ op = NoOp /\ hash = 0 /\ validating = NoClick
Kinds(kinds) == \A j \in jobs : j.kind \in kinds
Bought(h) == tx[h].at = "success" /\ tx[h].op.kind = "buy"

\* The page has passed no listing yet.
Unopened ==
    /\ prop = NoListing /\ listing = NoListing /\ Untouched /\ jobs = {}
    /\ state = "Initial" /\ noted = {}

\* It has passed one, which is fetched.
Fetching ==
    /\ Untouched /\ state = "Initial" /\ step = "Initial" /\ listing = NoListing
    /\ noted = {} /\ jobs = {Promise("fetch", prop)}

\* The first step.  A reservation that runs is of the transaction that the hook
\* follows.
Reserving ==
    /\ step = "Reserve" /\ listing = prop /\ validating = NoClick /\ noted = {}
    /\ Kinds({"deposit", "next"})
    /\ \A j \in jobs : IF j.kind = "deposit" THEN jobs = {j} /\ Untouched /\ state = "Initial"
                       ELSE state = "Success"
    /\ op \in Op => op.kind = "deposit"
    /\ \A h \in Txs : tx[h].op.kind = "deposit" /\ (tx[h].at = "success" => h = hash)
    /\ (\A h \in Txs : tx[h].at # "success") /\ market[prop].by = "me" => ~Running(prop)

\* The listing is the user's already, and the purchase on its way to the hook.
HeldAlready ==
    /\ Untouched /\ state = "Initial" /\ step = "InitialBuy" /\ listing = prop
    /\ Kinds({"first"})

\* The second step.
Purchasing ==
    /\ step = "Purchase" /\ listing = prop /\ Kinds({"first"})
    /\ op \in Op => op.kind = "buy" \/ Lost
    /\ validating.op \in Op => validating.op.kind = "buy" \/ Lost
    /\ \A h \in Txs : tx[h].at \in Going => tx[h].op.kind = "buy"
    /\ hash # 0 => tx[hash].op.kind = "buy"
    /\ \A h \in Txs : Bought(h) => h = hash /\ market[prop].gone

\* The listing has been bought, and whatever the dialog does finds it gone.
Over ==
    /\ prop # NoListing /\ market[prop].gone /\ op = NoOp /\ Quiet
    /\ \A h, k \in Txs : Bought(h) /\ Bought(k) => h = k

Phase == Unopened \/ Fetching \/ Reserving \/ HeldAlready \/ Purchasing \/ Over

StepsInv == Smooth => OfProp /\ Followed /\ Shown /\ Phase

\* Nothing has failed: of the faults and of the transactions.
Unfailed ==
    /\ Stays /\ faults.errors = 0 /\ faults.lost = 0
    /\ \A h \in Txs : tx[h].at \notin {"failed", "error"}

LEMMA SmoothIs == SentType => (Smooth <=> Unfailed)
  <1> SUFFICES ASSUME SentType PROVE Smooth <=> Unfailed
    OBVIOUS
  <1> DEFINE W == Where({"failed", "error"})
  <1>1. IsFiniteSet(W) /\ Cardinality(W) \in Nat
    BY PlacesFinite
  <1>2. Cardinality(W) = 0 <=> W = {}
    BY <1>1, FS_EmptySet
  <1>3. W = {} <=> \A h \in Txs : tx[h].at \notin {"failed", "error"}
    BY DEF Where
  <1>4. faults.errors \in Nat /\ faults.lost \in Nat
    BY SubmitTxAssumption DEF SentType, FaultType
  <1> HIDE DEF W
  <1>5. faults.errors + faults.lost + Cardinality(W) = 0
          <=> faults.errors = 0 /\ faults.lost = 0 /\ Cardinality(W) = 0
    BY <1>1, <1>4
  <1> QED
    BY <1>2, <1>3, <1>5 DEF Smooth, Unfailed, W

LEMMA StepsInitial == BuyInit => StepsInv
  <1> SUFFICES ASSUME BuyInit PROVE StepsInv
    OBVIOUS
  <1>1. Txs = {} /\ Untouched /\ Unopened
    BY DEF BuyInit, SubmitInit, Txs, Untouched, Unopened
  <1>2. OfProp /\ Followed /\ Shown
    <2>1. tx = <<>> /\ op = NoOp /\ jobs = {} /\ validating = NoClick /\ hash = 0 /\ state = "Initial"
          /\ error = "none" /\ \A c \in Check : checks[c] = NoCheck
      BY DEF BuyInit, SubmitInit
    <2> QED
      BY <1>1, <2>1, SubmitTxAssumption DEF OfProp, Followed, Shown, Polling, NoClick
  <1> QED
    BY <1>1, <1>2 DEF StepsInv, Phase

\* A transaction that moves is otherwise what it was, and the others stay.
LEMMA MoveEntries ==
  ASSUME SentType, NEW h \in Txs, NEW place \in Place, Move(h, place)
  PROVE  /\ Txs' = Txs /\ Len(tx') = Len(tx) /\ tx'[h].at = place
         /\ \A g \in Txs : tx'[g].op = tx[g].op /\ (g # h => tx'[g].at = tx[g].at)
  <1>1. tx \in Seq(TxType) /\ Len(tx) \in Nat /\ h \in 1 .. Len(tx)
    BY DEF SentType, Txs
  <1>2. \A g \in Txs : tx[g] \in TxType
    BY <1>1 DEF Txs
  <1>3. tx' = [tx EXCEPT ![h] = [tx[h] EXCEPT !.at = place]]
    BY DEF Move
  <1>4. tx'[h].op = tx[h].op
    BY <1>1, <1>2, <1>3 DEF TxType
  <1>5. \A g \in Txs : g # h => tx'[g] = tx[g]
    BY <1>1, <1>3 DEF Txs
  <1>6. Len(tx') = Len(tx) /\ tx'[h].at = place
    BY MoveType
  <1> QED
    BY <1>4, <1>5, <1>6 DEF Txs

\* What is sent is one more, of the inscription, and the hook shows the wallet.
LEMMA SendEntries ==
  ASSUME SentType, NEW o, NEW f, SendTx(o, f)
  PROVE  /\ UNCHANGED <<op, hash, fee, checks, faults>> /\ state' \in {state, "Sign"}
         /\ \/ tx' = tx /\ Txs' = Txs
            \/ /\ state' = "Sign" /\ error' = "none" /\ o # NoOp
               /\ Txs' = Txs \cup {Len(tx) + 1} /\ Len(tx) + 1 \notin Txs
               /\ tx'[Len(tx) + 1].op = o /\ tx'[Len(tx) + 1].at = "prompt"
               /\ \A g \in Txs : tx'[g] = tx[g]
  <1>0. tx \in Seq(TxType) /\ Len(tx) \in Nat
    BY DEF SentType
  <1> DEFINE new == [op |-> o, fee |-> f, sequence |-> Sequence, at |-> "prompt"]
  <1>1. UNCHANGED <<op, hash, fee, checks, faults>> /\ state' \in {state, "Sign"}
    BY DEF SendTx
  <1>2. \/ tx' = tx
        \/ o # NoOp /\ state' = "Sign" /\ error' = "none" /\ tx' = Append(tx, new)
    BY DEF SendTx
  <1>3. new.op = o /\ new.at = "prompt"
    OBVIOUS
  <1> HIDE DEF new
  <1>4. ASSUME tx' = Append(tx, new)
        PROVE  /\ Txs' = Txs \cup {Len(tx) + 1} /\ Len(tx) + 1 \notin Txs
               /\ tx'[Len(tx) + 1] = new
               /\ \A g \in Txs : tx'[g] = tx[g]
    <2>1. Len(tx') = Len(tx) + 1 /\ tx'[Len(tx) + 1] = new
          /\ \A g \in 1 .. Len(tx) : tx'[g] = tx[g]
      BY <1>0, <1>4
    <2> QED
      BY <1>0, <2>1 DEF Txs
  <1> QED
    BY <1>1, <1>2, <1>3, <1>4 DEF Txs

LEMMA RetryEntries ==
  ASSUME NEW o, NEW f, Retry(o, f)
  PROVE  SendTx(o, f) \/ UNCHANGED <<hook, checks, tx, faults>>
  BY DEF Retry

\* What has failed stays.
LEMMA FailedStays ==
  ASSUME BuyIInv, [BuyNext]_buyVars, NEW h \in Txs, tx[h].at \in {"failed", "error"}
  PROVE  h \in Txs' /\ tx'[h].at \in {"failed", "error"}
  <1>0. SentType
    BY DEF BuyIInv, SentInv
  <1> DEFINE StillFailed == h \in Txs' /\ tx'[h].at \in {"failed", "error"}
             MoveOther == \E g \in Txs, place \in Place : g # h /\ Move(g, place)
  <1>1. ASSUME MoveOther PROVE StillFailed
    <2>1. PICK g \in Txs, place \in Place : g # h /\ Move(g, place)
      BY <1>1
    <2> QED
      BY <1>0, <2>1, MoveEntries
  <1>2. ASSUME tx' = tx PROVE StillFailed
    BY <1>2 DEF Txs
  <1>3. ASSUME NEW o, NEW f, SendTx(o, f) PROVE StillFailed
    BY <1>0, <1>2, <1>3, SendEntries
  <1>4. ASSUME NEW o, NEW f, Retry(o, f) PROVE StillFailed
    BY <1>2, <1>3, <1>4, RetryEntries
  <1> SUFFICES StillFailed
    OBVIOUS
  <1> HIDE DEF StillFailed
  <1>5. ASSUME NEW l \in Listing, OpenListing(l) \/ OtherBuyers(l) PROVE StillFailed
    BY <1>2, <1>5 DEF OpenListing, OtherBuyers, submitVars
  <1>6. CASE BackToMarket \/ Render
    BY <1>2, <1>6 DEF BackToMarket, Render, submitVars
  <1>7. ASSUME NEW j \in Job,
               \/ Fetched(j) \/ FetchedLate(j)
               \/ DepositPrepared(j) \/ FirstPrepared(j) \/ NextPrepared(j)
               \/ PrepareFails(j)
        PROVE StillFailed
    BY <1>2, <1>7 DEF Fetched, FetchedLate, DepositPrepared, FirstPrepared, NextPrepared,
                      PrepareFails, submitVars
  <1>8. ASSUME NEW again \in BOOLEAN, Press(again) PROVE StillFailed
    BY <1>2, <1>3, <1>4, <1>8 DEF Press, submitVars
  <1>9. CASE Validated
    BY <1>2, <1>3, <1>4, <1>9 DEF Validated
  <1>10. CASE Hook
    <2>1. ASSUME NEW g \in Txs,
                 \/ Reject(g) \/ Broadcast(g) \/ BroadcastLost(g)
                 \/ Include(g) \/ Fail(g) \/ Drop(g) \/ (tx[g].at = "included" /\ Index(g))
          PROVE StillFailed
      <3>1. g # h
        BY <2>1 DEF Reject, Broadcast, BroadcastLost, Include, Fail, Drop
      <3>2. \E place \in Place : Move(g, place)
        BY <2>1 DEF Reject, Broadcast, BroadcastLost, Include, Fail, Drop, Index, Place, InBlock
      <3> QED
        BY <1>1, <3>1, <3>2
    <2>2. ASSUME Poll \/ \E o \in Op : Estimated(o) \/ EstimateFails(o) PROVE StillFailed
      BY <1>2, <2>2 DEF Poll, Tick, Answer, Deliver, Estimated, EstimateFails
    <2> QED
      BY <1>10, <2>1, <2>2 DEF Hook, Wallet
  <1>11. ASSUME NEW g \in Txs, Execute(g) PROVE StillFailed
    <2>1. g # h /\ \E place \in Place : Move(g, place)
      BY <1>11 DEF Execute, Place, InBlock
    <2> QED
      BY <1>1, <2>1
  <1>12. CASE Block \/ UNCHANGED buyVars
    BY <1>2, <1>12 DEF Block, buyVars, submitVars
  <1> QED
    BY <1>5, <1>6, <1>7, <1>8, <1>9, <1>10, <1>11, <1>12 DEF BuyNext, Callbacks

LEMMA UnfailedBefore ==
  ASSUME BuyIInv, [BuyNext]_buyVars, Unfailed'
  PROVE  /\ Unfailed /\ ~Count("errors") /\ ~Count("lost")
         /\ \A h \in Txs, place \in {"failed", "error"} : ~Move(h, place)
  <1>0. SentType /\ faults \in FaultType
    BY DEF BuyIInv, SentInv, SentType
  <1>1. \A f \in {"errors", "fails", "lost"} : Count(f) =>
            /\ faults'.errors = (IF f = "errors" THEN faults.errors + 1 ELSE faults.errors)
            /\ faults'.lost = (IF f = "lost" THEN faults.lost + 1 ELSE faults.lost)
    BY <1>0 DEF Count, FaultType
  <1>2. /\ Stays /\ faults.errors = 0 /\ faults.lost = 0 /\ ~Count("errors") /\ ~Count("lost")
    BY <1>0, <1>1, NothingUndone, SubmitTxAssumption DEF Unfailed, Stays, FaultType
  <1>3. \A h \in Txs : tx[h].at \notin {"failed", "error"}
    BY FailedStays DEF Unfailed
  <1>4. \A h \in Txs, place \in {"failed", "error"} : ~Move(h, place)
    BY <1>0, MoveEntries DEF Unfailed, Place, InBlock
  <1> QED
    BY <1>2, <1>3, <1>4 DEF Unfailed

\* With no hash there is no poll, and after success neither that nor a transaction
\* that is on its way.
LEMMA FollowedFacts ==
  ASSUME Followed
  PROVE  /\ hash = 0 => /\ \A c \in Check : checks[c] = NoCheck
                        /\ state \notin Polling \cup {"Success"}
                        /\ \A h \in Txs : tx[h].at \notin OnWay
         /\ state \notin Polling => \A c \in Check : checks[c] = NoCheck
         /\ state \in {"Success", "Initial"} => \A h \in Txs : tx[h].at \notin Going
         /\ hash = 0 /\ state # "Sign" => Quiet
  BY DEF Followed, Polling, OnWay, Going, Quiet

LEMMA FollowedSame ==
  ASSUME Followed, UNCHANGED <<tx, hash, state, checks>>
  PROVE  Followed' /\ (Quiet => Quiet') /\ (Quiet' => Quiet)
  BY DEF Followed, Quiet, Txs

\* The hook lets go of a transaction that is done.
LEMMA FollowedReset ==
  ASSUME Followed, \A h \in Txs : tx[h].at \notin Going, hash = 0 \/ state = "Success",
         UNCHANGED <<tx, checks>>, hash' = 0, state' = "Initial"
  PROVE  Followed' /\ Quiet'
  <1>1. \A c \in Check : checks[c] = NoCheck
    BY FollowedFacts DEF Polling
  <1> QED
    BY <1>1 DEF Followed, Quiet, Txs, Polling, Going, OnWay

\* What is sent while nothing is on its way.
LEMMA FollowedSend ==
  ASSUME BuyIInv, OfProp, Followed, Quiet, NEW o \in Op \cup {NoOp}, NEW f,
         o \in Op => o.listing = prop, SendTx(o, f) \/ UNCHANGED <<hook, checks, tx, faults>>,
         UNCHANGED prop
  PROVE  /\ Followed' /\ \A h \in Txs' : tx'[h].op.listing = prop'
         /\ UNCHANGED <<op, hash, checks, faults>> /\ (o = NoOp => state' = state)
         /\ \/ Quiet' /\ tx' = tx /\ Txs' = Txs
            \/ /\ error' = "none" /\ o \in Op
               /\ Txs' = Txs \cup {Len(tx) + 1} /\ Len(tx) + 1 \notin Txs
               /\ tx'[Len(tx) + 1].op = o /\ tx'[Len(tx) + 1].at = "prompt"
               /\ \A g \in Txs : tx'[g] = tx[g]
  <1>0. SentType
    BY DEF BuyIInv, SentInv
  <1>1. /\ hash = 0 /\ \A h \in Txs : tx[h].at \notin Going
        /\ \A c \in Check : checks[c] = NoCheck
        /\ state \notin Polling \cup {"Success"}
    BY FollowedFacts DEF Quiet
  <1>2. CASE UNCHANGED <<hook, checks, tx, faults>>
    BY <1>2, FollowedSame DEF hook, OfProp, Txs
  <1>3. CASE SendTx(o, f)
    <2>1. UNCHANGED <<op, hash, fee, checks, faults>> /\ state' \in {state, "Sign"}
      BY <1>0, <1>3, SendEntries
    <2>2. hash' = 0 /\ state' \notin Polling \cup {"Success"} /\ (o = NoOp => state' = state)
      BY <1>1, <1>3, <2>1 DEF Polling, SendTx
    <2>3. CASE tx' = tx /\ Txs' = Txs
      <3>1. Quiet' /\ \A h \in Txs' : tx'[h].op.listing = prop'
        BY <1>1, <2>2, <2>3 DEF Quiet, OfProp
      <3>2. Followed'
        BY <1>1, <2>1, <2>2, <2>3 DEF Followed, Going, OnWay
      <3> QED
        BY <2>1, <2>2, <2>3, <3>1, <3>2
    <2>4. CASE /\ state' = "Sign" /\ error' = "none" /\ o # NoOp
               /\ Txs' = Txs \cup {Len(tx) + 1} /\ Len(tx) + 1 \notin Txs
               /\ tx'[Len(tx) + 1].op = o /\ tx'[Len(tx) + 1].at = "prompt"
               /\ \A g \in Txs : tx'[g] = tx[g]
      <3>1. \A h \in Txs' : tx'[h].op.listing = prop'
        BY <2>4 DEF OfProp
      <3>2. \A h \in Txs' : tx'[h].at \in Going => h = Len(tx) + 1 /\ tx'[h].at = "prompt"
        BY <1>1, <2>4
      <3>3. Followed'
        BY <1>1, <2>1, <2>2, <2>4, <3>2 DEF Followed, Going, OnWay
      <3> QED
        BY <2>1, <2>2, <2>4, <3>1, <3>3
    <2> QED
      BY <1>0, <1>3, <2>3, <2>4, SendEntries
  <1> QED
    BY <1>2, <1>3

\* The others, and the chain, only take away what the user may do.
LEMMA Fades ==
  ASSUME BuyIInv, prop \in Listing,
         Block \/ \E l \in Listing : OtherBuyers(l)
  PROVE  /\ UNCHANGED <<submitVars, window, jobs, noted>>
         /\ Lost => Lost'
         /\ market[prop].gone => market'[prop'].gone
         /\ (market'[prop'].by = "me" => ~Running(prop)')
              \/ (market[prop].by = "me" /\ Running(prop))
  <1>0. market \in [Listing -> [by: {"nobody", "me", "other"}, until: Nat, gone: BOOLEAN]]
        /\ height \in Nat
    BY BuyDialogAssumption DEF BuyIInv, MarketType
  <1>1. CASE Block
    <2>1. height' = height + 1 /\ UNCHANGED <<submitVars, window, jobs, market, noted>> /\ prop' = prop
      BY <1>1 DEF Block, window, dialog
    <2> QED
      BY <1>0, <2>1 DEF Lost, BuyOK, IsMine, Running
  <1>2. ASSUME NEW l \in Listing, OtherBuyers(l)
        PROVE  /\ UNCHANGED <<submitVars, window, jobs, height, noted>> /\ prop' = prop
               /\ l # prop => market'[prop] = market[prop]
               /\ l = prop => /\ market'[prop].by = "other" \/ market'[prop].gone
                              /\ market'[prop].by # "me"
                              /\ market[prop].gone => market'[prop].gone
    <2>1. UNCHANGED <<submitVars, window, jobs, height, noted>> /\ prop' = prop /\ ~market[l].gone
      BY <1>2 DEF OtherBuyers, window, dialog
    <2>2. \/ market' = [market EXCEPT ![l].by = "other", ![l].until = height + DepositTimeout + 1]
          \/ market' = [market EXCEPT ![l].by = "nobody", ![l].until = 0, ![l].gone = TRUE]
          \/ market[l].by = "other" /\ market' = [market EXCEPT ![l].gone = TRUE]
      BY <1>2 DEF OtherBuyers
    <2>3. /\ l # prop => market'[prop] = market[prop]
          /\ \/ market'[l].by = "other" /\ market'[l].gone = market[l].gone
             \/ market'[l].by = "nobody" /\ market'[l].gone
             \/ market'[l].by = "other" /\ market'[l].gone
      <3> DEFINE was == market[l]
      <3>1. \/ market'[l] = [was EXCEPT !.by = "other", !.until = height + DepositTimeout + 1]
            \/ market'[l] = [was EXCEPT !.by = "nobody", !.until = 0, !.gone = TRUE]
            \/ was.by = "other" /\ market'[l] = [was EXCEPT !.gone = TRUE]
        BY <1>0, <2>2
      <3>2. was \in [by: {"nobody", "me", "other"}, until: Nat, gone: BOOLEAN]
        BY <1>0
      <3>3. l # prop => market'[prop] = market[prop]
        BY <1>0, <2>2
      <3> HIDE DEF was
      <3>4. \/ market'[l].by = "other" /\ market'[l].gone = was.gone
            \/ market'[l].by = "nobody" /\ market'[l].gone
            \/ market'[l].by = "other" /\ market'[l].gone
        BY <3>1, <3>2
      <3> QED
        BY <3>3, <3>4 DEF was
    <2> QED
      BY <2>1, <2>3
  <1>3. ASSUME NEW l \in Listing, OtherBuyers(l)
        PROVE  /\ UNCHANGED <<submitVars, window, jobs, noted>>
               /\ Lost => Lost'
               /\ market[prop].gone => market'[prop'].gone
               /\ (market'[prop'].by = "me" => ~Running(prop)')
                    \/ (market[prop].by = "me" /\ Running(prop))
    BY <1>2, <1>3 DEF Lost, BuyOK, IsMine, Running
  <1> QED
    BY <1>1, <1>3

LEMMA FetchPromise ==
  /\ Promise("fetch", prop) = [kind |-> "fetch", listing |-> prop, royalty |-> FALSE]
  /\ Promise("fetch", prop)' = [kind |-> "fetch", listing |-> prop', royalty |-> FALSE]
  BY DEF Promise

LEMMA PhaseListing ==
  ASSUME BuyIInv, Phase
  PROVE  (prop \in Listing /\ ~Unopened) \/ Unopened
  <1>1. prop \in Listing \cup {NoListing} /\ (step # "Initial" \/ jobs # {} => prop \in Listing)
    BY PropListing DEF BuyIInv, WindowType
  <1>2. prop = NoListing => ~Fetching /\ ~Reserving /\ ~HeldAlready /\ ~Purchasing /\ ~Over
    BY <1>1, BuyDialogAssumption DEF Fetching, Reserving, HeldAlready, Purchasing, Over
  <1> QED
    BY <1>1, <1>2, BuyDialogAssumption DEF Phase, Unopened

LEMMA StepsMarket ==
  ASSUME BuyIInv, OfProp, Followed, Shown, Phase,
         Block \/ \E l \in Listing : OtherBuyers(l)
  PROVE  (OfProp /\ Followed /\ Shown /\ Phase)'
  <1>1. UNCHANGED <<submitVars, window, jobs, noted>>
    <2>1. CASE Block
      BY <2>1 DEF Block
    <2>2. ASSUME NEW l \in Listing, OtherBuyers(l)
          PROVE  UNCHANGED <<submitVars, window, jobs, noted>>
      <3>1. UNCHANGED <<submitVars, window, jobs, height, noted>>
        BY <2>2, Zenon DEF OtherBuyers
      <3> QED
        BY <3>1
    <2> QED
      BY <2>1, <2>2
  <1>2. /\ UNCHANGED <<op, state, hash, error, checks, tx, prop, listing, step, validating, jobs, noted>>
        /\ Txs' = Txs
    BY <1>1 DEF submitVars, hook, window, dialog, Txs
  <1>3. OfProp'
    BY <1>2 DEF OfProp
  <1>4. Followed' /\ (Quiet' <=> Quiet)
    BY <1>2, FollowedSame
  <1>5. CASE Unopened
    <2>1. Unopened'
      BY <1>2, <1>5 DEF Unopened, Untouched
    <2>2. Shown'
      BY <2>1 DEF Shown, Unopened, Untouched, Quiet, Txs
    <2> QED
      BY <1>3, <1>4, <2>1, <2>2 DEF Phase
  <1>6. CASE prop \in Listing
    <2>1. /\ Lost => Lost'
          /\ market[prop].gone => market'[prop'].gone
          /\ (market'[prop'].by = "me" => ~Running(prop)')
               \/ (market[prop].by = "me" /\ Running(prop))
      BY <1>6, Fades
    <2>2. Shown'
      BY <1>2, <1>4, <2>1 DEF Shown
    <2>3. Fetching => Fetching'
      BY <1>2, FetchPromise DEF Fetching, Untouched
    <2>4. HeldAlready => HeldAlready'
      BY <1>2 DEF HeldAlready, Untouched, Kinds
    <2>5. Over => Over'
      BY <1>2, <1>4, <2>1 DEF Over, Bought
    <2>6. Purchasing => Purchasing'
      BY <1>2, <2>1 DEF Purchasing, Kinds, Bought
    <2>7. Reserving => Reserving'
      <3> SUFFICES ASSUME Reserving PROVE Reserving'
        OBVIOUS
      <3>1. (\A h \in Txs' : tx'[h].at # "success") /\ market'[prop'].by = "me" => ~Running(prop)'
        BY <1>2, <2>1 DEF Reserving
      <3> QED
        BY <1>2, <3>1 DEF Reserving, Kinds, Untouched
    <2>8. ~Unopened \/ Unopened'
      BY <1>2 DEF Unopened, Untouched
    <2> QED
      BY <1>3, <1>4, <2>2, <2>3, <2>4, <2>5, <2>6, <2>7, <2>8 DEF Phase
  <1> QED
    BY <1>5, <1>6, PhaseListing

LEMMA StepsOpen ==
  ASSUME BuyIInv, OfProp, Followed, Shown, Phase, Stays', NEW l \in Listing, OpenListing(l)
  PROVE  (OfProp /\ Followed /\ Shown /\ Phase)'
  <1>1. prop \in {l, NoListing} /\ noted' = noted /\ l # NoListing
    BY BuyDialogAssumption DEF OpenListing, Stays
  <1>2. /\ prop' = l /\ listing' = NoListing /\ step' = "Initial" /\ l # listing
        /\ op' = NoOp /\ hash' = 0 /\ state' = "Initial" /\ error' = "none"
        /\ UNCHANGED <<checks, tx, validating, market>> /\ Txs' = Txs
        /\ jobs' = jobs \cup {Promise("fetch", l)} /\ Promise("fetch", l) \notin jobs
    BY DEF OpenListing, Reset, Jobs, Txs
  <1>3. Promise("fetch", l) = [kind |-> "fetch", listing |-> l, royalty |-> FALSE]
    BY DEF Promise
  <1>4. CASE prop = NoListing
    <2>1. Unopened
      BY <1>4, PhaseListing, BuyDialogAssumption
    <2>2. Fetching'
      BY <1>1, <1>2, <1>3, <2>1, FetchPromise DEF Fetching, Unopened, Untouched
    <2>3. Followed' /\ Quiet'
      BY <1>2, <2>1, FollowedReset DEF Unopened, Untouched, Txs
    <2>4. OfProp'
      BY <1>2, <1>3, <2>1, SubmitTxAssumption DEF OfProp, Unopened, Untouched, Txs, NoClick
    <2> QED
      BY <2>2, <2>3, <2>4 DEF Phase, Shown
  <1>5. CASE prop = l
    <2>1. Over
      BY <1>1, <1>2, <1>5 DEF Phase, Unopened, Fetching, Reserving, HeldAlready, Purchasing
    <2>2. Followed' /\ Quiet'
      BY <1>2, <2>1, FollowedReset DEF Over, Quiet
    <2>3. OfProp'
      BY <1>2, <1>3, <1>5, SubmitTxAssumption DEF OfProp
    <2>4. Over'
      BY <1>1, <1>2, <1>5, <2>1, <2>2 DEF Over, Bought
    <2> QED
      BY <2>2, <2>3, <2>4 DEF Phase, Shown
  <1> QED
    BY <1>1, <1>4, <1>5

LEMMA StepsBack ==
  ASSUME BuyIInv, OfProp, Followed, Shown, Phase, BackToMarket
  PROVE  (OfProp /\ Followed /\ Shown /\ Phase)'
  <1>1. /\ op' = NoOp /\ hash' = 0 /\ state' = "Initial" /\ error' = "none"
        /\ hash # 0 /\ step = "Purchase" /\ state = "Success"
        /\ UNCHANGED <<prop, checks, tx, validating, market>> /\ Txs' = Txs
        /\ jobs' = jobs \cup {Promise("fetch", prop)}
    BY DEF BackToMarket, Reset, Jobs, Txs, outside
  <1>2. Purchasing
    BY <1>1 DEF Phase, Unopened, Untouched, Fetching, Reserving, HeldAlready, Over, Quiet
  <1>3. Promise("fetch", prop).listing = prop
    BY PromiseFields
  <1>4. Followed' /\ Quiet'
    BY <1>1, FollowedReset, FollowedFacts
  <1>5. OfProp'
    BY <1>1, <1>3, SubmitTxAssumption DEF OfProp
  <1>6. hash \in Txs /\ Bought(hash)
    <2>1. hash \in 0 .. Len(tx) /\ Len(tx) \in Nat
      BY DEF BuyIInv, SentInv, SentType
    <2> QED
      BY <1>1, <1>2, <2>1 DEF Followed, Purchasing, Bought, Txs
  <1>7. prop \in Listing
    BY <1>1, PropListing DEF BuyIInv
  <1>8. Over'
    BY <1>1, <1>2, <1>4, <1>6, <1>7, BuyDialogAssumption DEF Over, Purchasing, Bought
  <1> QED
    BY <1>4, <1>5, <1>8 DEF Phase, Shown

LEMMA StepsRender ==
  ASSUME BuyIInv, OfProp, Followed, Shown, Phase, Render
  PROVE  (OfProp /\ Followed /\ Shown /\ Phase)'
  <1> DEFINE made == IF listing = NoListing THEN {} ELSE Effect(listing, step)
             now == {[j EXCEPT !.royalty = j.kind # "deposit" /\ royalty'] : j \in made}
  <1>0. WindowType /\ royalty \in BOOLEAN
    BY DEF BuyIInv, WindowType
  <1>1. prop # NoListing /\ royalty' \in BOOLEAN /\ jobs' = jobs \cup now
    BY <1>0 DEF Render, Jobs
  <1>2. /\ UNCHANGED <<op, state, hash, error, checks, tx, prop, listing, step, validating, market, height, noted>>
        /\ Txs' = Txs
    BY DEF Render, submitVars, hook, dialog, outside, Txs
  <1>3. ASSUME NEW i \in now
        PROVE  /\ i.listing = prop /\ listing = prop
               /\ \/ i.kind = "deposit" /\ step = "Initial"
                  \/ i.kind = "first" /\ step = "InitialBuy"
                  \/ i.kind = "next" /\ step = "Reserve" /\ state = "Success"
    <2>1. PICK j \in made : i = [j EXCEPT !.royalty = j.kind # "deposit" /\ royalty']
      BY <1>3
    <2>2. listing # NoListing /\ listing = prop /\ listing \in Listing
      BY <1>0, <2>1, PropListing
    <2>3. j \in Effect(listing, step)
      BY <2>1, <2>2
    <2>4. j \in Job
      BY <1>0, <2>2, <2>3, EffectType
    <2> HIDE DEF made
    <2>5. i.kind = j.kind /\ i.listing = j.listing
      BY <2>1, <2>4 DEF Job
    <2> QED
      BY <2>2, <2>3, <2>5, PromiseFields DEF Effect
  <1> HIDE DEF now
  <1>4. OfProp'
    BY <1>1, <1>2, <1>3 DEF OfProp
  <1>5. Followed' /\ (Quiet' <=> Quiet)
    BY <1>2, FollowedSame
  <1>6. Shown'
    BY <1>2, <1>5 DEF Shown, Lost, BuyOK, IsMine
  <1>7. Fetching => Fetching'
    <2>1. listing = NoListing => now = {}
      BY <1>1, <1>3
    <2> QED
      BY <1>1, <1>2, <2>1, FetchPromise DEF Fetching, Untouched
  <1>8. Reserving => Reserving'
    <2> SUFFICES ASSUME Reserving PROVE Reserving'
      OBVIOUS
    <2>1. \A i \in now : i.kind = "next" /\ state = "Success"
      BY <1>3 DEF Reserving
    <2>2. ASSUME NEW j \in jobs'
          PROVE  /\ j.kind \in {"deposit", "next"}
                 /\ j.kind = "deposit" => jobs' = {j} /\ Untouched' /\ state' = "Initial"
                 /\ j.kind # "deposit" => state' = "Success"
      BY <1>1, <1>2, <2>1, <2>2 DEF Reserving, Kinds, Untouched
    <2> QED
      BY <1>2, <2>2 DEF Reserving, Kinds, Running
  <1>9. HeldAlready => HeldAlready'
    BY <1>1, <1>2, <1>3 DEF HeldAlready, Untouched, Kinds
  <1>10. Purchasing => Purchasing'
    <2> SUFFICES ASSUME Purchasing PROVE Purchasing'
      OBVIOUS
    <2>1. jobs' = jobs
      BY <1>1, <1>3 DEF Purchasing
    <2> QED
      BY <1>2, <2>1 DEF Purchasing, Kinds, Bought, Lost, BuyOK, IsMine
  <1>11. Over => Over'
    BY <1>2, <1>5 DEF Over, Bought
  <1> QED
    BY <1>1, <1>4, <1>5, <1>6, <1>7, <1>8, <1>9, <1>10, <1>11 DEF Phase, Unopened

LEMMA StepsFetched ==
  ASSUME BuyIInv, OfProp, Followed, Shown, Phase, NEW j \in Job, Fetched(j)
  PROVE  (OfProp /\ Followed /\ Shown /\ Phase)'
  <1>1. /\ j \in jobs /\ j.kind = "fetch" /\ prop \in Listing
        /\ UNCHANGED <<submitVars, prop, royalty, validating, outside>>
        /\ listing' = prop /\ step' = After(StepFor(prop))
        /\ jobs' = (jobs \ {j}) \cup Effect(prop, StepFor(prop))
    BY DEF Fetched, Jobs, Job
  <1>2. /\ UNCHANGED <<op, state, hash, error, checks, tx, prop, validating, market, height, noted>>
        /\ Txs' = Txs
    BY <1>1 DEF submitVars, hook, outside, Txs
  <1>3. \A i \in Effect(prop, StepFor(prop)) : i.listing = prop
    BY PromiseFields DEF Effect
  <1>4. OfProp'
    BY <1>1, <1>2, <1>3 DEF OfProp
  <1>5. Followed' /\ (Quiet' <=> Quiet)
    BY <1>2, FollowedSame
  <1>6. Fetching \/ Over
    BY <1>1 DEF Phase, Unopened, Reserving, HeldAlready, Purchasing, Kinds
  <1>7. CASE Over
    <2>1. Over'
      BY <1>2, <1>5, <1>7 DEF Over, Bought
    <2> QED
      BY <1>4, <1>5, <2>1 DEF Phase, Shown, Over
  <1>8. CASE Fetching
    <2>1. /\ Untouched /\ state = "Initial" /\ step = "Initial" /\ noted = {} /\ jobs \ {j} = {}
          /\ Quiet /\ Txs = {}
      BY <1>1, <1>8 DEF Fetching, Untouched, Quiet, Txs
    <2>2. Untouched' /\ Shown'
      BY <1>2, <1>5, <2>1 DEF Untouched, Shown
    <2>3. CASE IsMine(prop)
      <3>1. step' = "InitialBuy" /\ jobs' = {Promise("first", prop)}
        BY <1>1, <2>1, <2>3 DEF StepFor, After, Effect
      <3>2. HeldAlready'
        BY <1>1, <1>2, <2>1, <2>2, <3>1, PromiseFields DEF HeldAlready, Kinds
      <3> QED
        BY <1>4, <1>5, <2>2, <3>2 DEF Phase
    <2>4. CASE ~IsMine(prop)
      <3>1. step' = "Reserve" /\ jobs' = {Promise("deposit", prop)}
        BY <1>1, <2>1, <2>4 DEF StepFor, After, Effect
      <3>2. \A i \in jobs' : i.kind = "deposit" /\ jobs' = {i}
        BY <3>1, PromiseFields
      <3>3. market'[prop'].by = "me" => ~Running(prop)'
        <4>1. market[prop].until \in Nat /\ height \in Nat
          BY <1>1, BuyDialogAssumption DEF BuyIInv, MarketType
        <4> QED
          BY <1>2, <2>4, <4>1 DEF IsMine, Running
      <3>4. Reserving'
        BY <1>1, <1>2, <2>1, <2>2, <3>1, <3>2, <3>3, SubmitTxAssumption
           DEF Reserving, Kinds, Untouched
      <3> QED
        BY <1>4, <1>5, <2>2, <3>4 DEF Phase
    <2> QED
      BY <2>3, <2>4
  <1> QED
    BY <1>6, <1>7, <1>8

LEMMA StepsDeposit ==
  ASSUME BuyIInv, OfProp, Followed, Shown, Phase, NEW j \in Job, DepositPrepared(j)
  PROVE  (OfProp /\ Followed /\ Shown /\ Phase)'
  <1>1. /\ j \in jobs /\ j.kind = "deposit" /\ j.listing = prop /\ jobs' = jobs \ {j}
        /\ UNCHANGED <<state, hash, checks, tx, prop, listing, step, validating, market, height, noted>>
        /\ Txs' = Txs
    BY DEF DepositPrepared, Jobs, OfProp, window, dialog, outside, Txs
  <1>2. \/ DepositOK(prop) /\ op' = Deposit(prop)
        \/ op' = op
    BY <1>1 DEF DepositPrepared, Prepared
  <1>3. OfProp'
    <2>1. Deposit(prop).listing = prop
      BY DEF Deposit
    <2> QED
      BY <1>1, <1>2, <2>1 DEF OfProp
  <1>4. Followed' /\ (Quiet' <=> Quiet)
    BY <1>1, FollowedSame
  <1>5. Reserving \/ Over
    BY <1>1, PromiseFields DEF Phase, Unopened, Fetching, HeldAlready, Purchasing, Kinds
  <1>6. CASE Over
    <2>1. op' = op
      BY <1>2, <1>6 DEF Over, DepositOK
    <2>2. Over'
      BY <1>1, <1>4, <1>6, <2>1 DEF Over, Bought
    <2> QED
      BY <1>3, <1>4, <2>2 DEF Phase, Shown, Over
  <1>7. CASE Reserving
    <2>1. Untouched /\ jobs' = {} /\ Txs = {}
      BY <1>1, <1>7 DEF Reserving, Untouched, Txs
    <2>2. Quiet'
      BY <1>4, <2>1 DEF Quiet, Untouched
    <2>3. op' \in Op => op'.kind = "deposit"
      BY <1>2, <1>7 DEF Reserving, Deposit
    <2>4. Reserving'
      BY <1>1, <1>7, <2>1, <2>3 DEF Reserving, Kinds, Running
    <2> QED
      BY <1>3, <1>4, <2>2, <2>4 DEF Phase, Shown
  <1> QED
    BY <1>5, <1>6, <1>7

LEMMA StepsFirst ==
  ASSUME BuyIInv, OfProp, Followed, Shown, Phase, NEW j \in Job, FirstPrepared(j)
  PROVE  (OfProp /\ Followed /\ Shown /\ Phase)'
  <1>1. /\ j \in jobs /\ j.kind = "first" /\ j.listing = prop /\ jobs' = jobs \ {j}
        /\ UNCHANGED <<state, hash, checks, tx, prop, listing, validating, market, height>>
        /\ Txs' = Txs /\ step' = "Purchase"
    BY DEF FirstPrepared, Jobs, OfProp, Txs
  <1>2. \/ ~Lost /\ op' = Buy(j) /\ error' = error
        \/ Lost /\ op' = op
    BY <1>1 DEF FirstPrepared, Prepared, Lost
  <1>3. Buy(j).listing = prop /\ Buy(j).kind = "buy"
    BY <1>1 DEF Buy
  <1>4. OfProp'
    BY <1>1, <1>2, <1>3 DEF OfProp
  <1>5. Followed' /\ (Quiet' <=> Quiet)
    BY <1>1, FollowedSame
  <1>6. Lost' <=> Lost
    BY <1>1 DEF Lost, BuyOK, IsMine
  <1>7. Shown'
    BY <1>1, <1>2, <1>5, <1>6 DEF Shown
  <1>8. HeldAlready \/ Purchasing \/ Over
    BY <1>1, PromiseFields DEF Phase, Unopened, Fetching, Reserving, Kinds
  <1>9. CASE Over
    <2>1. op' = op
      BY <1>2, <1>9 DEF Over, Lost, BuyOK
    <2>2. Over'
      BY <1>1, <1>5, <1>9, <2>1 DEF Over, Bought
    <2> QED
      BY <1>4, <1>5, <1>7, <2>2 DEF Phase
  <1>10. CASE HeldAlready \/ Purchasing
    <2>1. Kinds({"first"}) /\ listing = prop /\ (op \in Op => op.kind = "buy" \/ Lost)
      BY <1>10, SubmitTxAssumption DEF HeldAlready, Purchasing, Untouched
    <2>2. validating.op \in Op => validating.op.kind = "buy" \/ Lost
      BY <1>10, SubmitTxAssumption DEF HeldAlready, Purchasing, Untouched, NoClick
    <2>3. /\ \A h \in Txs : tx[h].at \in Going => tx[h].op.kind = "buy"
          /\ hash # 0 => tx[hash].op.kind = "buy"
          /\ \A h \in Txs : Bought(h) => h = hash /\ market[prop].gone
      BY <1>10 DEF HeldAlready, Purchasing, Untouched, Txs
    <2>4. op' \in Op => op'.kind = "buy" \/ Lost
      BY <1>2, <1>3, <2>1
    <2>5. Purchasing'
      BY <1>1, <1>6, <2>1, <2>2, <2>3, <2>4 DEF Purchasing, Kinds, Bought
    <2> QED
      BY <1>4, <1>5, <1>7, <2>5 DEF Phase
  <1> QED
    BY <1>8, <1>9, <1>10

\* All promises of a purchase are of the same royalty, so that there is one.
LEMMA StepsNext ==
  ASSUME BuyIInv, RoyaltyInv, Unfailed, OfProp, Followed, Shown, Phase,
         NEW j \in Job, NextPrepared(j)
  PROVE  (OfProp /\ Followed /\ Shown /\ Phase)'
  <1>1. /\ j \in jobs /\ j.kind = "next" /\ j.listing = prop /\ jobs' = jobs \ {j}
        /\ UNCHANGED <<checks, tx, prop, listing, validating, market, height, noted>>
        /\ Txs' = Txs /\ step' = "Purchase" /\ state' = "Initial" /\ hash' = 0
    BY DEF NextPrepared, Restart, Jobs, OfProp, outside, Txs
  <1>2. \/ ~Lost /\ op' = Buy(j)
        \/ Lost /\ op' = op
    BY <1>1 DEF NextPrepared, Prepared, Lost
  <1>3. Buy(j).listing = prop /\ Buy(j).kind = "buy"
    BY <1>1 DEF Buy
  <1>4. OfProp'
    BY <1>1, <1>2, <1>3 DEF OfProp
  <1>5. Lost' <=> Lost
    BY <1>1 DEF Lost, BuyOK, IsMine
  <1>6. Reserving \/ Over
    BY <1>1, PromiseFields DEF Phase, Unopened, Fetching, HeldAlready, Purchasing, Kinds
  <1>7. CASE Over
    <2>1. op' = op
      BY <1>2, <1>7 DEF Over, Lost, BuyOK
    <2>2. Followed' /\ Quiet'
      BY <1>1, <1>7, FollowedReset DEF Over, Quiet
    <2>3. Over'
      BY <1>1, <1>7, <2>1, <2>2 DEF Over, Bought
    <2> QED
      BY <1>4, <2>2, <2>3 DEF Phase, Shown
  <1>8. CASE Reserving
    <2>1. state = "Success"
      BY <1>1, <1>8 DEF Reserving
    <2>2. Followed' /\ Quiet'
      BY <1>1, <2>1, FollowedReset, FollowedFacts
    <2>3. jobs' = {}
      <3>1. JobsKnow
        BY <1>8 DEF RoyaltyInv, Untroubled, Unfailed, Reserving
      <3>2. \A i \in jobs : i.kind = "next" /\ i.listing = prop /\ i.royalty /\ i \in Job
        BY <1>8, <2>1, <3>1 DEF Reserving, Kinds, JobsKnow, OfProp, BuyIInv, WindowType
      <3>3. \A i \in jobs : i = j
        BY <1>1, <3>2 DEF Job
      <3> QED
        BY <1>1, <3>3
    <2>4. op' \in Op => op'.kind = "buy" \/ Lost
      BY <1>2, <1>3
    <2>5. Purchasing'
      <3>1. listing = prop /\ validating = NoClick /\ \A h \in Txs : tx[h].op.kind = "deposit"
        BY <1>8 DEF Reserving
      <3>2. validating'.op \notin Op
        BY <1>1, <3>1, SubmitTxAssumption DEF NoClick
      <3> QED
        BY <1>1, <1>5, <2>2, <2>3, <2>4, <3>1, <3>2 DEF Purchasing, Kinds, Bought, Quiet
    <2> QED
      BY <1>4, <2>2, <2>5 DEF Phase, Shown
  <1> QED
    BY <1>6, <1>7, <1>8

LEMMA StepsPress ==
  ASSUME BuyIInv, OfProp, Followed, Shown, Phase, Patient, NEW again \in BOOLEAN, Press(again)
  PROVE  (OfProp /\ Followed /\ Shown /\ Phase)'
  <1>0. op \in Op \cup {NoOp} /\ WindowType
    BY DEF BuyIInv, HookType
  <1>1. UNCHANGED <<prop, listing, step, royalty, jobs, market, height, noted>>
    BY DEF Press, dialog, outside
  <1>2. ~Quiet => error # "none"
    BY FollowedFacts DEF Press, CanSubmit, CanRetry
  <1>3. (Lost' <=> Lost) /\ (Running(prop)' <=> Running(prop))
    BY <1>1 DEF Lost, BuyOK, IsMine, Running
  <1>4. CASE step = "Purchase"
    <2>1. /\ UNCHANGED submitVars /\ listing # NoListing
          /\ validating' = [listing |-> listing, op |-> op, fee |-> fee, again |-> again]
      BY <1>4 DEF Press
    <2>2. UNCHANGED <<op, state, hash, error, checks, tx>> /\ Txs' = Txs
      BY <2>1 DEF submitVars, hook, Txs
    <2>3. validating'.op = op /\ validating'.listing = prop /\ listing = prop
      BY <1>0, <2>1, PropListing
    <2>4. OfProp'
      BY <1>1, <2>2, <2>3 DEF OfProp
    <2>5. Followed' /\ (Quiet' <=> Quiet)
      BY <2>2, FollowedSame
    <2>6. Shown'
      BY <1>1, <1>2, <1>3, <1>4, <2>5 DEF Shown
    <2>7. Purchasing \/ Over
      BY <1>4, <2>1 DEF Phase, Unopened, Fetching, Reserving, HeldAlready
    <2>8. Purchasing => Purchasing'
      BY <1>1, <1>3, <2>2, <2>3 DEF Purchasing, Kinds, Bought
    <2>9. Over => Over'
      BY <1>1, <2>2, <2>5 DEF Over, Bought
    <2> QED
      BY <2>4, <2>5, <2>6, <2>7, <2>8, <2>9 DEF Phase
  <1>5. CASE step # "Purchase"
    <2>1. Quiet
      BY <1>2, <1>5 DEF Shown
    <2>2. validating' = validating /\ (SendTx(op, fee) \/ UNCHANGED <<hook, checks, tx, faults>>)
      BY <1>5, RetryEntries DEF Press
    <2>3. /\ Followed' /\ \A h \in Txs' : tx'[h].op.listing = prop'
          /\ UNCHANGED <<op, hash>> /\ (op = NoOp => state' = state)
          /\ \/ Quiet' /\ tx' = tx /\ Txs' = Txs
             \/ /\ error' = "none" /\ op \in Op
                /\ Txs' = Txs \cup {Len(tx) + 1} /\ Len(tx) + 1 \notin Txs
                /\ tx'[Len(tx) + 1].op = op /\ tx'[Len(tx) + 1].at = "prompt"
                /\ \A g \in Txs : tx'[g] = tx[g]
      BY <1>0, <1>1, <2>1, <2>2, FollowedSend DEF OfProp
    <2>4. OfProp'
      BY <1>1, <2>2, <2>3 DEF OfProp
    <2>5. op = NoOp => Quiet' /\ tx' = tx /\ Txs' = Txs /\ state' = state
      BY <2>3, SubmitTxAssumption
    <2>6. Untouched => Untouched' /\ Quiet' /\ state' = state
      BY <2>2, <2>3, <2>5 DEF Untouched
    <2>7. Unopened => Unopened' /\ Quiet'
      BY <1>1, <2>6 DEF Unopened
    <2>8. Fetching => Fetching' /\ Quiet'
      BY <1>1, <2>6, FetchPromise DEF Fetching
    <2>9. HeldAlready => HeldAlready' /\ Quiet'
      BY <1>1, <2>6 DEF HeldAlready, Kinds
    <2>10. Over => Over' /\ Quiet'
      BY <1>1, <2>3, <2>5 DEF Over, Bought
    <2>11. ASSUME Reserving PROVE Reserving' /\ Shown'
      <3>1. state # "Success"
        BY <2>1, FollowedFacts DEF Quiet
      <3>2. \A j \in jobs : j.kind = "deposit" /\ jobs = {j} /\ Untouched /\ state = "Initial"
        BY <2>11, <3>1 DEF Reserving, Kinds
      <3>3. \A j \in jobs' : j.kind = "deposit" /\ jobs' = {j} /\ Untouched' /\ state' = "Initial"
        BY <1>1, <2>6, <3>2
      <3>4. op \in Op => op.kind = "deposit"
        BY <2>11 DEF Reserving
      <3>5. /\ \A h \in Txs' : tx'[h].op.kind = "deposit" /\ (tx'[h].at = "success" => h = hash')
            /\ (\A h \in Txs' : tx'[h].at # "success") => \A h \in Txs : tx[h].at # "success"
        BY <2>3, <2>11, <3>4 DEF Reserving
      <3>6. Reserving'
        BY <1>1, <1>3, <2>2, <2>3, <2>11, <3>3, <3>4, <3>5 DEF Reserving, Kinds
      <3>7. Shown'
        BY <2>2, <2>3, <2>11 DEF Shown, Reserving
      <3> QED
        BY <3>6, <3>7
    <2>12. ~Purchasing
      BY <1>5 DEF Purchasing
    <2> QED
      BY <2>3, <2>4, <2>7, <2>8, <2>9, <2>10, <2>11, <2>12 DEF Phase, Shown
  <1> QED
    BY <1>4, <1>5

LEMMA StepsValidated ==
  ASSUME BuyIInv, OfProp, Followed, Shown, Phase, Validated
  PROVE  (OfProp /\ Followed /\ Shown /\ Phase)'
  <1>0. validating \in Click /\ validating # NoClick /\ validating' = NoClick
    BY DEF BuyIInv, Validated
  <1>1. UNCHANGED <<prop, listing, step, jobs, market, height>>
    BY DEF Validated, dialog, outside
  <1>2. validating.listing = prop /\ validating.op \in Op \cup {NoOp} /\ validating'.op \notin Op
    BY <1>0, SubmitTxAssumption DEF OfProp, Click, NoClick
  <1>3. Lost' <=> Lost
    BY <1>1 DEF Lost, BuyOK, IsMine
  <1>4. Purchasing \/ Over
    BY <1>0 DEF Phase, Unopened, Fetching, Reserving, HeldAlready, Untouched
  <1>5. CASE Lost
    <2>1. UNCHANGED <<op, state, hash, checks, tx>> /\ Txs' = Txs
      BY <1>2, <1>5 DEF Validated, Lost, Txs
    <2>2. OfProp'
      BY <1>0, <1>1, <1>2, <2>1 DEF OfProp
    <2>3. Followed' /\ (Quiet' <=> Quiet)
      BY <2>1, FollowedSame
    <2>4. Purchasing => Purchasing' /\ Shown'
      BY <1>1, <1>2, <1>3, <1>5, <2>1 DEF Purchasing, Kinds, Bought, Shown
    <2>5. Over => Over' /\ Shown'
      BY <1>1, <2>1, <2>3 DEF Over, Bought, Shown
    <2> QED
      BY <1>4, <2>2, <2>3, <2>4, <2>5 DEF Phase
  <1>6. CASE ~Lost
    <2>1. Purchasing /\ Quiet
      BY <1>0, <1>4, <1>6 DEF Over, Lost, BuyOK, Shown
    <2>2. SendTx(validating.op, validating.fee) \/ UNCHANGED <<hook, checks, tx, faults>>
      BY <1>2, <1>6, RetryEntries DEF Validated, Lost
    <2>3. /\ Followed' /\ \A h \in Txs' : tx'[h].op.listing = prop'
          /\ UNCHANGED <<op, hash>>
          /\ \/ Quiet' /\ tx' = tx /\ Txs' = Txs
             \/ /\ error' = "none" /\ validating.op \in Op
                /\ Txs' = Txs \cup {Len(tx) + 1} /\ Len(tx) + 1 \notin Txs
                /\ tx'[Len(tx) + 1].op = validating.op /\ tx'[Len(tx) + 1].at = "prompt"
                /\ \A g \in Txs : tx'[g] = tx[g]
      BY <1>1, <1>2, <2>1, <2>2, FollowedSend DEF OfProp
    <2>4. OfProp'
      BY <1>0, <1>1, <1>2, <2>3 DEF OfProp
    <2>5. Shown'
      BY <1>0, <2>3 DEF Shown
    <2>6. validating.op \in Op => validating.op.kind = "buy"
      BY <1>6, <2>1 DEF Purchasing
    <2>7. /\ \A h \in Txs' : tx'[h].at \in Going => tx'[h].op.kind = "buy"
          /\ \A h \in Txs' : Bought(h)' => h = hash' /\ market'[prop'].gone
          /\ hash' = 0
      BY <1>1, <2>1, <2>3, <2>6 DEF Purchasing, Bought, Quiet
    <2>8. Purchasing'
      BY <1>1, <1>2, <1>3, <2>1, <2>3, <2>7 DEF Purchasing, Kinds
    <2> QED
      BY <2>3, <2>4, <2>5, <2>8 DEF Phase
  <1> QED
    BY <1>5, <1>6

\* A transaction that is on its way goes on: the hook follows it already.
LEMMA FollowedMove ==
  ASSUME BuyIInv, Followed, NEW h \in Txs, NEW place \in OnWay \cup {"success"},
         Move(h, place), tx[h].at \in OnWay, UNCHANGED <<hash, state, checks>>
  PROVE  /\ Followed' /\ hash = h /\ h # 0 /\ state \in Polling
         /\ Txs' = Txs /\ tx'[h].at = place
         /\ \A g \in Txs : tx'[g].op = tx[g].op /\ (g # h => tx'[g].at = tx[g].at)
  <1>1. SentType /\ place \in Place /\ Len(tx) \in Nat
    BY DEF BuyIInv, SentInv, SentType, OnWay, Place, InBlock
  <1>2. /\ Txs' = Txs /\ tx'[h].at = place
        /\ \A g \in Txs : tx'[g].op = tx[g].op /\ (g # h => tx'[g].at = tx[g].at)
    BY <1>1, MoveEntries
  <1>3. hash = h /\ h # 0 /\ state \in Polling
    BY <1>1 DEF Followed, Txs
  <1>4. \A g \in Txs : tx'[g].at \in Going => tx[g].at \in Going /\ g = h
    BY <1>2, <1>3 DEF Followed, Going
  <1>5. \A g \in Txs : tx'[g].at # "prompt"
    BY <1>4, <1>2 DEF OnWay, Going
  <1>6. Followed'
    BY <1>2, <1>3, <1>4, <1>5 DEF Followed, Polling, Going, OnWay
  <1> QED
    BY <1>2, <1>3, <1>6

LEMMA StepsExecute ==
  ASSUME BuyIInv, OfProp, Followed, Shown, Phase, NEW h \in Txs, ~Move(h, "error"), Execute(h)
  PROVE  (OfProp /\ Followed /\ Shown /\ Phase)'
  <1>0. market \in [Listing -> [by: {"nobody", "me", "other"}, until: Nat, gone: BOOLEAN]]
    BY DEF BuyIInv, MarketType
  <1>1. /\ tx[h].at = "pending" /\ Move(h, "success")
        /\ UNCHANGED <<op, state, hash, error, checks, prop, listing, step, validating, jobs, height, noted>>
    BY DEF Execute, hook, window, dialog
  <1>2. /\ Followed' /\ hash = h /\ h # 0 /\ state \in Polling
        /\ Txs' = Txs /\ tx'[h].at = "success"
        /\ \A g \in Txs : tx'[g].op = tx[g].op /\ (g # h => tx'[g].at = tx[g].at)
    BY <1>1, FollowedMove DEF OnWay
  <1>3. OfProp'
    BY <1>1, <1>2 DEF OfProp
  <1>4. ~Quiet
    BY <1>2 DEF Quiet
  <1>5. Reserving \/ Purchasing
    BY <1>4 DEF Phase, Unopened, Fetching, HeldAlready, Over, Untouched, Quiet, Txs
  <1>6. CASE Reserving
    <2>1. jobs = {}
      BY <1>2, <1>6 DEF Reserving, Kinds, Untouched, Polling
    <2>2. \A g \in Txs : g # h => tx[g].at # "success"
      BY <1>2, <1>6 DEF Reserving
    <2>3. Reserving'
      BY <1>1, <1>2, <1>6, <2>1, <2>2 DEF Reserving, Kinds
    <2>4. Shown'
      BY <1>1, <1>4, <1>6 DEF Shown, Reserving
    <2> QED
      BY <1>2, <1>3, <2>3, <2>4 DEF Phase
  <1>7. CASE Purchasing
    <2>1. tx[h].op.kind = "buy" /\ tx[h].op.listing = prop /\ prop \in Listing
      <3>1. prop \in Listing
        BY <1>7, PropListing DEF BuyIInv, Purchasing
      <3> QED
        BY <1>1, <1>7, <3>1 DEF Purchasing, OfProp, Going, OnWay
    <2>2. market' = [market EXCEPT ![prop].gone = TRUE]
      <3>1. tx[h].op.kind = "buy" /\ tx[h].op.listing = prop
        BY <2>1
      <3>2. Accepted(tx[h].op)
        BY DEF Execute
      <3> QED
        BY <3>1, <3>2 DEF Execute
    <2>3. market'[prop'].gone
      BY <1>0, <1>1, <2>1, <2>2
    <2>4. Lost'
      BY <2>3 DEF Lost, BuyOK
    <2>5. Purchasing'
      BY <1>1, <1>2, <1>7, <2>1, <2>3, <2>4 DEF Purchasing, Kinds, Bought, Going, OnWay
    <2>6. Shown'
      BY <1>1, <1>7, <2>4 DEF Shown, Purchasing
    <2> QED
      BY <1>2, <1>3, <2>5, <2>6 DEF Phase
  <1> QED
    BY <1>5, <1>6, <1>7

\* What a step of the hook, the wallet, the chain or the indexer leaves.
HookLeaves ==
    /\ Txs' = Txs
    /\ \A h \in Txs : /\ tx'[h].op = tx[h].op
                      /\ tx'[h].at \in Going => tx[h].at \in Going
                      /\ tx'[h].at = "success" <=> tx[h].at = "success"
    /\ tx = <<>> => tx' = tx /\ hash' = hash /\ state' = state
    /\ hash' = hash \/ (hash = 0 /\ hash' \in Txs /\ tx[hash'].at \in Going)
    /\ Quiet => Quiet'
    /\ error' \in {error, "none"} \/ Quiet'
    /\ state = "Success" => state' = "Success"

LEMMA PollLeaves ==
  ASSUME BuyIInv, Followed, OnePoll, NEW c \in Check, Tick(c) \/ Answer(c) \/ Deliver(c)
  PROVE  Followed' /\ HookLeaves
  <1>0. /\ checks \in [Check -> CheckType \cup {NoCheck}]
        /\ hash \in 0 .. Len(tx) /\ Len(tx) \in Nat /\ SentType
    BY DEF BuyIInv, SentInv, SentType
  <1>1. /\ UNCHANGED <<op, hash, tx>> /\ Txs' = Txs /\ (Quiet' <=> Quiet)
        /\ \A d \in Check : d = c
    BY DEF Tick, Answer, Deliver, hook, Txs, Quiet, OnePoll
  <1>2. hash # 0 /\ state \in Polling
    BY DEF Tick, Polls, Answer, Deliver, Followed
  <1>3. tx # <<>>
    BY <1>0, <1>2
  <1>4. HookLeaves
    <2>1. error' \in {error, "none"}
      BY DEF Tick, Answer, Deliver, Followed, hook
    <2>2. state # "Success"
      BY <1>2 DEF Polling
    <2> QED
      BY <1>1, <1>3, <2>1, <2>2 DEF HookLeaves
  <1>5. CASE Tick(c)
    <2>1. checks'[c].hash = hash /\ checks'[c].result = "asked" /\ state' = state
      BY <1>0, <1>5 DEF Tick, hook
    <2> QED
      BY <1>1, <1>2, <1>4, <2>1 DEF Followed
  <1>6. CASE Answer(c)
    <2>1. /\ checks[c] \in CheckType /\ checks[c].hash = hash /\ state' = state
          /\ tx[hash].at \in OnWay \cup {"success"}
      BY <1>0, <1>2, <1>6 DEF Answer, Followed, hook
    <2> DEFINE found == Found(checks[c].hash, checks[c].chain)
    <2>2. found # "Failed" /\ (found = "Success" => tx[hash].at = "success")
      BY <2>1 DEF Found, OnWay, InBlock, CheckType
    <2>3. checks'[c] = [checks[c] EXCEPT !.result = found]
      BY <1>0, <1>6 DEF Answer
    <2> HIDE DEF found
    <2>4. checks'[c].hash = hash /\ checks'[c].result = found
      BY <2>1, <2>3 DEF CheckType
    <2> QED
      BY <1>1, <1>2, <1>4, <2>1, <2>2, <2>4 DEF Followed
  <1>7. CASE Deliver(c)
    <2>1. /\ checks[c] \in CheckType /\ checks[c].result \notin {"asked", "Failed"}
          /\ checks[c].result = "Success" => tx[hash].at = "success"
      BY <1>0, <1>7 DEF Deliver, Followed
    <2>2. \A d \in Check : checks'[d] = NoCheck
      BY <1>0, <1>1, <1>7 DEF Deliver
    <2>3. checks[c].result \in Result
      BY <2>1 DEF CheckType
    <2>4. state' \in Polling \cup {"Success"} /\ (state' = "Success" => tx[hash].at = "success")
      BY <1>2, <1>7, <2>1, <2>3 DEF Deliver, Result, Polling
    <2>5. \A h \in Txs : tx[h].at # "prompt"
      BY <1>2 DEF Followed
    <2>6. ASSUME NEW h \in Txs, tx[h].at \in OnWay PROVE state' \in Polling
      BY <2>4, <2>6, <1>2 DEF Followed, OnWay, Polling
    <2> QED
      BY <1>1, <1>2, <1>4, <2>2, <2>4, <2>5, <2>6 DEF Followed
  <1> QED
    BY <1>5, <1>6, <1>7

LEMMA WalletLeaves ==
  ASSUME BuyIInv, Followed, NEW h \in Txs, Reject(h) \/ Broadcast(h)
  PROVE  Followed' /\ HookLeaves
  <1>0. SentType /\ Len(tx) \in Nat
    BY DEF BuyIInv, SentInv, SentType
  <1>1. /\ tx[h].at = "prompt" /\ hash = 0 /\ state = "Sign" /\ h \in Nat /\ h # 0 /\ tx # <<>>
        /\ \A c \in Check : checks[c] = NoCheck
        /\ \A g \in Txs : tx[g].at \in Going => g = h
    BY <1>0, FollowedFacts DEF Reject, Broadcast, Followed, Txs, Going
  <1>2. checks' = checks
    BY DEF Reject, Broadcast, SendFails
  <1>3. ASSUME Move(h, "gone"), SendFails PROVE Followed' /\ HookLeaves
    <2>1. /\ Txs' = Txs /\ tx'[h].at = "gone"
          /\ \A g \in Txs : tx'[g].op = tx[g].op /\ (g # h => tx'[g].at = tx[g].at)
      BY <1>0, <1>3, MoveEntries DEF Place
    <2>2. hash' = 0 /\ state' = "Failed"
      BY <1>1, <1>3 DEF SendFails
    <2>3. \A g \in Txs' : tx'[g].at \notin Going
      BY <1>1, <2>1 DEF Going, OnWay
    <2>4. Quiet'
      BY <2>2, <2>3 DEF Quiet
    <2>5. HookLeaves
      BY <1>1, <2>1, <2>2, <2>3, <2>4 DEF HookLeaves
    <2> QED
      BY <1>1, <1>2, <2>2, <2>3, <2>5 DEF Followed, Polling, Going
  <1>4. ASSUME Move(h, "mempool"), state' = "Submit", hash' = h, UNCHANGED error
        PROVE  Followed' /\ HookLeaves
    <2>1. /\ Txs' = Txs /\ tx'[h].at = "mempool"
          /\ \A g \in Txs : tx'[g].op = tx[g].op /\ (g # h => tx'[g].at = tx[g].at)
      BY <1>0, <1>4, MoveEntries DEF Place
    <2>2. \A g \in Txs' : tx'[g].at \in Going => g = h
      BY <1>1, <2>1
    <2>3. ~Quiet
      BY <1>1 DEF Quiet, Going
    <2>4. HookLeaves
      BY <1>1, <1>4, <2>1, <2>3 DEF HookLeaves, Going
    <2> QED
      BY <1>1, <1>2, <1>4, <2>1, <2>2, <2>4 DEF Followed, Polling, Going, OnWay
  <1> QED
    BY <1>3, <1>4 DEF Reject, Broadcast

LEMMA ChainLeaves ==
  ASSUME BuyIInv, Followed, NEW h \in Txs, Include(h) \/ (tx[h].at = "included" /\ Index(h))
  PROVE  Followed' /\ HookLeaves
  <1>1. /\ UNCHANGED <<hash, state, error, checks>> /\ tx[h].at \in OnWay /\ tx[h].at # "success"
        /\ Move(h, "included") \/ Move(h, "pending")
    BY DEF Include, Index, hook, OnWay
  <1>2. PICK place \in {"included", "pending"} : Move(h, place)
    BY <1>1
  <1>3. /\ Followed' /\ hash = h /\ h # 0
        /\ Txs' = Txs /\ tx'[h].at = place
        /\ \A g \in Txs : tx'[g].op = tx[g].op /\ (g # h => tx'[g].at = tx[g].at)
    BY <1>1, <1>2, FollowedMove DEF OnWay
  <1>4. ~Quiet /\ tx # <<>>
    BY <1>3 DEF Quiet, Txs
  <1> QED
    BY <1>1, <1>3, <1>4 DEF HookLeaves, Going, OnWay

LEMMA StepsHook ==
  ASSUME BuyIInv, OnePoll, OfProp, Followed, Shown, Phase,
         ~Count("errors"), ~Count("lost"), \A h \in Txs : ~Move(h, "failed"), Hook
  PROVE  (OfProp /\ Followed /\ Shown /\ Phase)'
  <1>1. /\ UNCHANGED <<prop, listing, step, validating, market, height, noted>> /\ Reserved
    BY DEF Hook, window, dialog, outside
  <1>2. op' = op
    BY DEF Hook, Estimated, EstimateFails, Poll, Tick, Answer, Deliver, Wallet, Reject,
           Broadcast, BroadcastLost, SendFails, Include, Fail, Drop, Index, hook
  <1>3. Followed' /\ HookLeaves
    <2>1. ASSUME NEW o \in Op, Estimated(o) PROVE Followed' /\ HookLeaves
      <3>1. UNCHANGED <<state, hash, checks, tx>> /\ error' = "none" /\ Txs' = Txs
        BY <2>1 DEF Estimated, Txs
      <3>2. Followed' /\ (Quiet => Quiet')
        BY <3>1, FollowedSame
      <3> QED
        BY <3>1, <3>2 DEF HookLeaves
    <2>2. ASSUME NEW o \in Op, EstimateFails(o) PROVE FALSE
      BY <2>2 DEF EstimateFails
    <2>3. ASSUME Poll PROVE Followed' /\ HookLeaves
      BY <2>3, PollLeaves DEF Poll
    <2>4. ASSUME Wallet PROVE Followed' /\ HookLeaves
      <3>1. PICK h \in Txs : Reject(h) \/ Broadcast(h) \/ BroadcastLost(h)
        BY <2>4 DEF Wallet
      <3>2. ~BroadcastLost(h)
        BY DEF BroadcastLost
      <3> QED
        BY <3>1, <3>2, WalletLeaves
    <2>5. ASSUME NEW h \in Txs,
                 Include(h) \/ Fail(h) \/ Drop(h) \/ (tx[h].at = "included" /\ Index(h))
          PROVE  Followed' /\ HookLeaves
      <3>1. ~Fail(h) /\ ~Drop(h)
        BY DEF Fail, Drop
      <3> QED
        BY <2>5, <3>1, ChainLeaves
    <2> QED
      BY <2>1, <2>2, <2>3, <2>4, <2>5 DEF Hook
  <1>4. /\ Txs' = Txs
        /\ \A h \in Txs : /\ tx'[h].op = tx[h].op
                          /\ tx'[h].at \in Going => tx[h].at \in Going
                          /\ tx'[h].at = "success" <=> tx[h].at = "success"
        /\ tx = <<>> => tx' = tx /\ hash' = hash /\ state' = state
        /\ hash' = hash \/ (hash = 0 /\ hash' \in Txs /\ tx[hash'].at \in Going)
        /\ Quiet => Quiet'
        /\ error' \in {error, "none"} \/ Quiet'
        /\ state = "Success" => state' = "Success"
    BY <1>3 DEF HookLeaves
  <1>5. \/ jobs' = jobs
        \/ /\ state' = "Success" /\ state # "Success" /\ step = "Reserve" /\ listing # NoListing
           /\ jobs' = jobs \cup {Promise("next", listing)}
    BY <1>1 DEF Reserved, Jobs
  <1>6. OfProp'
    <2>1. listing # NoListing => Promise("next", listing).listing = prop
      BY PropListing, PromiseFields DEF BuyIInv
    <2>2. \A j \in jobs' : j.listing = prop
      BY <1>5, <2>1 DEF OfProp
    <2> QED
      BY <1>1, <1>2, <1>4, <2>2 DEF OfProp
  <1>7. (Lost' <=> Lost) /\ (Running(prop)' <=> Running(prop))
    BY <1>1 DEF Lost, BuyOK, IsMine, Running
  <1>8. Shown'
    BY <1>1, <1>4, <1>7 DEF Shown
  <1>9. Untouched => Untouched' /\ state' = state
    BY <1>1, <1>2, <1>4 DEF Untouched
  <1>10. Unopened => Unopened'
    BY <1>1, <1>5, <1>9 DEF Unopened, BuyIInv, WindowType, PropInv
  <1>11. Fetching => Fetching'
    BY <1>1, <1>5, <1>9, FetchPromise DEF Fetching
  <1>12. HeldAlready => HeldAlready'
    BY <1>1, <1>5, <1>9 DEF HeldAlready, Kinds
  <1>13. Over => Over'
    BY <1>1, <1>2, <1>4 DEF Over, Bought
  <1>14. Purchasing => Purchasing'
    <2> SUFFICES ASSUME Purchasing PROVE Purchasing'
      OBVIOUS
    <2>1. jobs' = jobs
      BY <1>5 DEF Purchasing
    <2>2. hash' # 0 => tx'[hash'].op.kind = "buy"
      <3>1. hash # 0 => hash \in Txs
        BY DEF BuyIInv, SentInv, SentType, Txs
      <3> QED
        BY <1>4, <3>1 DEF Purchasing
    <2>3. \A h \in Txs : Bought(h)' => h = hash' /\ market[prop].gone
      <3>1. \A h \in Txs : tx'[h].at = "success" /\ tx'[h].op.kind = "buy" => Bought(h)
        BY <1>4 DEF Bought
      <3>2. \A h \in Txs : h # 0
        BY DEF BuyIInv, SentInv, SentType, Txs
      <3> QED
        BY <1>4, <3>1, <3>2 DEF Purchasing, Bought
    <2> QED
      BY <1>1, <1>2, <1>4, <1>7, <2>1, <2>2, <2>3 DEF Purchasing, Kinds
  <1>15. Reserving => Reserving'
    <2> SUFFICES ASSUME Reserving PROVE Reserving'
      OBVIOUS
    <2>1. ASSUME NEW j \in jobs'
          PROVE  /\ j.kind \in {"deposit", "next"}
                 /\ j.kind = "deposit" => jobs' = {j} /\ Untouched' /\ state' = "Initial"
                 /\ j.kind # "deposit" => state' = "Success"
      <3>1. CASE jobs' = jobs
        BY <1>4, <1>9, <2>1, <3>1 DEF Reserving, Kinds
      <3>2. CASE /\ state' = "Success" /\ state # "Success"
                 /\ jobs' = jobs \cup {Promise("next", listing)}
        <4>1. ~(tx = <<>> /\ state = "Initial")
          BY <1>4, <3>2
        <4>2. \A i \in jobs : i.kind = "next"
          BY <4>1 DEF Reserving, Kinds, Untouched
        <4> QED
          BY <2>1, <3>2, <4>2, PromiseFields
      <3> QED
        BY <1>5, <3>1, <3>2
    <2>2. \A h \in Txs' : tx'[h].op.kind = "deposit" /\ (tx'[h].at = "success" => h = hash')
      <3>1. \A h \in Txs : h # 0
        BY DEF BuyIInv, SentInv, SentType, Txs
      <3> QED
        BY <1>4, <3>1 DEF Reserving
    <2>3. (\A h \in Txs' : tx'[h].at # "success") /\ market'[prop'].by = "me" => ~Running(prop)'
      BY <1>1, <1>4, <1>7 DEF Reserving
    <2> QED
      BY <1>1, <1>2, <2>1, <2>2, <2>3 DEF Reserving, Kinds
  <1> QED
    BY <1>3, <1>6, <1>8, <1>10, <1>11, <1>12, <1>13, <1>14, <1>15 DEF Phase

LEMMA StepsStep ==
  ASSUME Patient, OnePoll, BuyIInv, RoyaltyInv, StepsInv, [BuyNext]_buyVars
  PROVE  StepsInv'
  <1> SUFFICES ASSUME Smooth' PROVE (OfProp /\ Followed /\ Shown /\ Phase)'
    BY DEF StepsInv
  <1>1. BuyIInv' /\ SentType /\ SentType'
    BY BuyStep DEF BuyIInv, SentInv
  <1>2. (SentType => (Smooth <=> Unfailed))'
    BY SmoothIs, PTL
  <1>3. Unfailed'
    BY <1>1, <1>2
  <1>4. /\ Unfailed /\ ~Count("errors") /\ ~Count("lost")
        /\ \A h \in Txs : ~Move(h, "failed") /\ ~Move(h, "error")
    BY <1>3, UnfailedBefore
  <1>5. OfProp /\ Followed /\ Shown /\ Phase
    BY <1>1, <1>4, SmoothIs DEF StepsInv
  <1>6. Stays'
    BY DEF Smooth
  <1> DEFINE Goal == (OfProp /\ Followed /\ Shown /\ Phase)'
  <1> SUFFICES Goal
    OBVIOUS
  <1> HIDE DEF Goal
  <1>11. ASSUME NEW l \in Listing, OpenListing(l) PROVE Goal
    BY <1>5, <1>6, <1>11, StepsOpen DEF Goal
  <1>12. ASSUME NEW l \in Listing, OtherBuyers(l) PROVE Goal
    BY <1>5, <1>12, StepsMarket DEF Goal
  <1>13. CASE BackToMarket
    BY <1>5, <1>13, StepsBack DEF Goal
  <1>14. CASE Render
    BY <1>5, <1>14, StepsRender DEF Goal
  <1>15. ASSUME NEW j \in Job, Fetched(j) PROVE Goal
    BY <1>5, <1>15, StepsFetched DEF Goal
  <1>16. ASSUME NEW j \in Job, FetchedLate(j) PROVE Goal
    BY <1>5, <1>16 DEF FetchedLate, Jobs, OfProp
  <1>17. ASSUME NEW j \in Job, DepositPrepared(j) PROVE Goal
    BY <1>5, <1>17, StepsDeposit DEF Goal
  <1>18. ASSUME NEW j \in Job, FirstPrepared(j) PROVE Goal
    BY <1>5, <1>18, StepsFirst DEF Goal
  <1>19. ASSUME NEW j \in Job, NextPrepared(j) PROVE Goal
    BY <1>4, <1>5, <1>19, StepsNext DEF Goal
  <1>20. ASSUME NEW j \in Job, PrepareFails(j) PROVE Goal
    BY <1>4, <1>20 DEF PrepareFails
  <1>21. ASSUME NEW again \in BOOLEAN, Press(again) PROVE Goal
    BY <1>5, <1>21, StepsPress DEF Goal
  <1>22. CASE Validated
    BY <1>5, <1>22, StepsValidated DEF Goal
  <1>23. CASE Hook
    BY <1>4, <1>5, <1>23, StepsHook DEF Goal
  <1>24. CASE Block
    BY <1>5, <1>24, StepsMarket DEF Goal
  <1>25. ASSUME NEW h \in Txs, Execute(h) PROVE Goal
    BY <1>4, <1>5, <1>25, StepsExecute DEF Goal
  <1>26. CASE UNCHANGED buyVars
    <2>1. UNCHANGED <<op, state, hash, error, checks, tx, prop, listing, step, royalty, jobs,
                      validating, market, height, noted>>
      BY <1>26 DEF buyVars, submitVars, hook, window, dialog, outside
    <2>2. OfProp' /\ Followed' /\ (Quiet' <=> Quiet)
      BY <1>5, <2>1, FollowedSame DEF OfProp, Txs
    <2>3. (Lost' <=> Lost) /\ (Running(prop)' <=> Running(prop)) /\ Txs' = Txs
      BY <2>1 DEF Lost, BuyOK, IsMine, Running, Txs
    <2>4. Shown'
      BY <1>5, <2>1, <2>2, <2>3 DEF Shown
    <2>5. /\ Unopened => Unopened'
          /\ Fetching => Fetching'
          /\ HeldAlready => HeldAlready'
      BY <2>1, FetchPromise DEF Unopened, Fetching, HeldAlready, Untouched, Kinds
    <2>6. Reserving => Reserving'
      BY <2>1, <2>3 DEF Reserving, Untouched, Kinds
    <2>7. Purchasing => Purchasing'
      BY <2>1, <2>3 DEF Purchasing, Kinds, Bought
    <2>8. Over => Over'
      BY <2>1, <2>2, <2>3 DEF Over, Bought
    <2> QED
      BY <1>5, <2>2, <2>4, <2>5, <2>6, <2>7, <2>8 DEF Goal, Phase
  <1> QED
    BY <1>11, <1>12, <1>13, <1>14, <1>15, <1>16, <1>17, <1>18, <1>19, <1>20, <1>21,
       <1>22, <1>23, <1>24, <1>25, <1>26 DEF BuyNext, Callbacks

\* What the invariant says of a listing's deposits and purchases.
LEMMA StepsCount ==
  ASSUME BuyIInv, OfProp, Followed, Shown, Phase, Unfailed, NEW l \in Listing
  PROVE  /\ Cardinality(Mine(l, "deposit", {"mempool", "included", "pending"}))
              + (IF market[l].by = "me" /\ Running(l) THEN 1 ELSE 0) <= 1
         /\ Cardinality(Mine(l, "buy", InBlock \cup {"mempool"})) <= 1
  <1> DEFINE D == Mine(l, "deposit", {"mempool", "included", "pending"})
             B == Mine(l, "buy", InBlock \cup {"mempool"})
             Runs == market[l].by = "me" /\ Running(l)
  <1>0. SentType /\ Len(tx) \in Nat
    BY DEF BuyIInv, SentInv, SentType
  <1>1. \A h \in D : /\ h \in Txs /\ tx[h].op.kind = "deposit" /\ tx[h].op.listing = l
                     /\ tx[h].at \in OnWay
    BY DEF Mine, OnWay
  <1>2. \A h \in B : /\ h \in Txs /\ tx[h].op.kind = "buy" /\ tx[h].op.listing = l
                     /\ tx[h].at \in OnWay \/ Bought(h)
    BY DEF Mine, OnWay, InBlock, Unfailed, Bought
  <1> HIDE DEF D, B
  <1>3. \A h, k \in D : h = k
    BY <1>1 DEF Followed, Going
  <1>4. D # {} => ~Runs
    <2> SUFFICES ASSUME NEW h \in D, Runs PROVE FALSE
      OBVIOUS
    <2>1. h \in Txs /\ hash = h /\ l = prop /\ tx[h].op.kind = "deposit" /\ tx[h].at \in OnWay
      BY <1>1 DEF Followed, OfProp
    <2>2. Reserving
      BY <2>1 DEF Phase, Unopened, Fetching, HeldAlready, Purchasing, Over, Untouched, Quiet,
                  Txs, Going
    <2>3. \A k \in Txs : tx[k].at # "success"
      BY <2>1, <2>2 DEF Reserving, OnWay
    <2> QED
      BY <2>1, <2>2, <2>3 DEF Reserving
  <1>5. \A h, k \in B : h = k
    <2> SUFFICES ASSUME NEW h \in B, NEW k \in B PROVE h = k
      OBVIOUS
    <2>1. /\ h \in Txs /\ k \in Txs /\ tx[h].op.kind = "buy"
          /\ tx[h].at \in OnWay \/ Bought(h)
          /\ tx[k].at \in OnWay \/ Bought(k)
      BY <1>2
    <2>2. Purchasing \/ Over
      BY <2>1 DEF Phase, Unopened, Fetching, HeldAlready, Reserving, Untouched, Txs
    <2>3. CASE Purchasing
      <3>1. h = hash /\ k = hash
        BY <2>1, <2>3 DEF Purchasing, Followed
      <3> QED
        BY <3>1
    <2>4. CASE Over
      <3>1. Bought(h) /\ Bought(k)
        BY <2>1, <2>4 DEF Over, Quiet, Going
      <3> QED
        BY <2>1, <2>4, <3>1 DEF Over
    <2> QED
      BY <2>2, <2>3, <2>4
  <1>6. ASSUME NEW S, \A h, k \in S : h = k
        PROVE  Cardinality(S) = (IF S = {} THEN 0 ELSE 1)
    <2>1. Cardinality({}) = 0
      BY FS_EmptySet
    <2>2. ASSUME NEW h \in S PROVE Cardinality(S) = 1
      <3>1. S = {h}
        BY <1>6, <2>2
      <3> QED
        BY <3>1, FS_Singleton
    <2> QED
      BY <2>1, <2>2
  <1>7. Cardinality(D) = (IF D = {} THEN 0 ELSE 1)
    BY <1>3, <1>6
  <1>8. Cardinality(B) \in {0, 1}
    BY <1>5, <1>6
  <1>9. Cardinality(D) + (IF Runs THEN 1 ELSE 0) <= 1
    BY <1>4, <1>7
  <1> QED
    BY <1>8, <1>9 DEF D, B

\* BuyDialog.tsx, useSubmitTx.ts: for a user who presses no button that is
\* loading and polls that do not overlap, however blocks, polls, promises, the
\* wallet and the other buyers are interleaved: as long as the user stays with
\* the listing and nothing fails, no deposit is paid while another runs or is on
\* its way, and one purchase.
THEOREM TwoStepsHold ==
  ASSUME Patient, OnePoll
  PROVE  BuySpec => []TwoSteps
  <1>1. BuyInit => BuyIInv /\ RoyaltyInv /\ StepsInv
    BY BuyInitial, RoyaltyInitial, StepsInitial
  <1>2. BuyIInv /\ RoyaltyInv /\ StepsInv /\ [BuyNext]_buyVars => (BuyIInv /\ RoyaltyInv /\ StepsInv)'
    BY BuyStep, RoyaltyStep, StepsStep
  <1>3. BuyIInv /\ StepsInv => TwoSteps
    BY StepsCount, SmoothIs DEF StepsInv, TwoSteps, BuyIInv, SentInv
  <1> QED
    BY <1>1, <1>2, <1>3, PTL DEF BuySpec

\* BuyDialog.tsx: for the same user and polls, what is signed in the second step
\* is the purchase, as long as the user stays with the listing and nothing fails:
\* no second deposit is signed there.
THEOREM SecondStepBuys ==
  ASSUME Patient, OnePoll
  PROVE  BuySpec => PurchaseBuys
  <1>1. BuyInit => BuyIInv /\ RoyaltyInv /\ StepsInv
    BY BuyInitial, RoyaltyInitial, StepsInitial
  <1>2. BuyIInv /\ RoyaltyInv /\ StepsInv /\ [BuyNext]_buyVars => (BuyIInv /\ RoyaltyInv /\ StepsInv)'
    BY BuyStep, RoyaltyStep, StepsStep
  <1>3. BuyIInv /\ StepsInv /\ [BuyNext]_buyVars =>
          [Signs /\ Smooth /\ step = "Purchase" => Signed.kind = "buy"]_buyVars
    <2> SUFFICES ASSUME BuyIInv, StepsInv, [BuyNext]_buyVars, Signs, Smooth, step = "Purchase"
                 PROVE  Signed.kind = "buy"
      OBVIOUS
    <2>1. Signed = validating.op /\ Signed \in Op
      BY PurchaseSigned, BuyStep, SignedType DEF BuyIInv, SentInv, SentType
    <2>2. OfProp /\ Phase
      BY DEF StepsInv
    <2>3. BuyOK(validating.listing) /\ validating # NoClick
      BY PurchaseSigned
    <2>4. ~Lost
      BY <2>2, <2>3 DEF OfProp, Lost
    <2>5. Purchasing
      BY <2>1, <2>2, <2>3, <2>4
         DEF Phase, Unopened, Fetching, Reserving, HeldAlready, Over, Untouched, Lost, BuyOK
    <2> QED
      BY <2>1, <2>4, <2>5 DEF Purchasing
  <1> QED
    BY <1>1, <1>2, <1>3, PTL DEF BuySpec, PurchaseBuys
=============================================================================
