------------------------------- MODULE Uploads -------------------------------
(***************************************************************************)
(* The uploader service (uploader/src/main.ts) and the pages of the app    *)
(* that call it: a creator puts the pictures of one launch and the         *)
(* descriptions of its tokens into an object store before the mint bot     *)
(* draws them.  The service keeps sessions, the launch's row and a row per *)
(* inscription in a database; the browser writes the objects itself, to    *)
(* URLs the service signs.                                                 *)
(*                                                                         *)
(* Every await of a handler or of a page is a step at which the handlers   *)
(* and pages of other tabs may run.  A name stands for a file name; the    *)
(* one the service gives to inscription i is i.                            *)
(***************************************************************************)
EXTENDS Naturals, Sequences, FiniteSets

CONSTANTS
    Tab,            \* pages open in the creator's browser
    User,           \* addresses of the creator's wallet
    Picture,        \* contents of files
    NoUser, NoPicture, NoPad, NoRow, NoDoc,
    MaxId,          \* bound: inscription numbers
    MaxName,        \* bound: file names
    Batches,        \* what a page may upload in bulk: sequences of items
    MaxSupply,      \* of the launch
    MaxRefused      \* bound: requests to the object store, or to confirm, that fail

ASSUME UploadsAssumption ==
    /\ IsFiniteSet(Tab) /\ NoUser \notin User /\ NoPicture \notin Picture
    /\ NoPad \notin [creator: User, folder: Tab]
    /\ NoRow \notin [name: 0 .. MaxName, uploaded: BOOLEAN]
    /\ NoDoc \notin [name: 0 .. MaxName, of: Picture]
    /\ MaxId \in Nat /\ MaxName \in Nat /\ MaxId <= MaxName
    /\ MaxSupply \in Nat \ {0} /\ MaxSupply <= MaxId /\ MaxRefused \in Nat
    /\ Batches \subseteq Seq([id: 1 .. MaxSupply, name: 0 .. MaxName, pic: Picture]) \ {<<>>}

VARIABLES
    session,   \* session: none, verified or not, by address
    stored,    \* the address whose session the browser's local storage holds
    pad,       \* launchpad: the row of the launch
    row,       \* launchpad_inscription, by number
    file,      \* the pictures in the object store
    doc,       \* the descriptions in the object store
    page,      \* what each tab is doing
    refused    \* requests that failed

tables == <<session, pad, row>>
store == <<file, doc>>
vars == <<tables, stored, store, page, refused>>
-----------------------------------------------------------------------------
Id == 1 .. MaxId
Name == 0 .. MaxName
Item == [id: Id \cup {0}, name: Name, pic: Picture \cup {NoPicture}]

ServiceSteps == {"start", "folder", "number", "rows", "edit"}
StoreSteps == {"picture", "description"}
Steps == ServiceSteps \cup StoreSteps \cup
         {"idle", "confirm", "done", "hung", "select", "insert", "sign", "form"}

\* What a tab does, for which items, the one it is at, and the session and the
\* folder it uses.
Page == [kind: {"one", "bulk", "edit", "session"}, step: Steps, items: Seq(Item),
         at: Nat, user: User \cup {NoUser}, folder: Tab]

\* pad.folder is a cuid; a tab makes at most one that is saved, so that the
\* folders are named for the tabs.
TypeOK ==
    /\ session \in [User -> {"none", "new", "verified"}]
    /\ stored \in User \cup {NoUser}
    /\ pad \in [creator: User, folder: Tab] \cup {NoPad}
    /\ row \in [Id -> [name: Name, uploaded: BOOLEAN] \cup {NoRow}]
    /\ file \in [Tab \X Name -> Picture \cup {NoPicture}]
    /\ doc \in [Tab \X Id -> [name: Name, of: Picture] \cup {NoDoc}]
    /\ page \in [Tab -> Page]
    /\ \A t \in Tab : page[t].items # <<>> => page[t].at \in 1 .. Len(page[t].items)
    /\ refused \in 0 .. MaxRefused

Idle(t) ==
    [kind |-> "one", step |-> "idle", items |-> <<>>, at |-> 1, user |-> NoUser, folder |-> t]

Init ==
    /\ session = [u \in User |-> "none"] /\ stored = NoUser
    /\ pad = NoPad /\ row = [i \in Id |-> NoRow]
    /\ file = [x \in Tab \X Name |-> NoPicture]
    /\ doc = [x \in Tab \X Id |-> NoDoc]
    /\ page = [t \in Tab |-> Idle(t)]
    /\ refused = 0
-----------------------------------------------------------------------------
At(t, step) == page[t].step = step
item(t) == page[t].items[page[t].at]
Last(t) == page[t].at = Len(page[t].items)

Goto(t, step) == page' = [page EXCEPT ![t].step = step]
Leave(t) == page' = [page EXCEPT ![t] = Idle(t)]

\* Mutant: the next loop goes on where the last one stopped.
LoopOn(t, again, next) ==
    page' = [page EXCEPT ![t].at = @ + 1,
                         ![t].step = IF Last(t) THEN next ELSE again]

\* The next item, or the first again and the next step.
Loop(t, again, next) ==
    page' = [page EXCEPT ![t].at = IF Last(t) THEN 1 ELSE @ + 1,
                         ![t].step = IF Last(t) THEN next ELSE again]

Valid(u) == u # NoUser /\ session[u] = "verified"
Owned(t) == pad # NoPad /\ pad.creator = page[t].user
Rows == {i \in Id : row[i] # NoRow}
Uploaded == {i \in Rows : row[i].uploaded}
Highest == IF Rows = {} THEN 0 ELSE CHOOSE i \in Rows : \A j \in Rows : j <= i
-----------------------------------------------------------------------------
(* Sessions *)

Ask(t, u) ==
    /\ At(t, "idle") /\ stored = NoUser
    /\ page' = [page EXCEPT ![t] =
                  [Idle(t) EXCEPT !.kind = "session", !.step = "select", !.user = u]]
    /\ UNCHANGED <<tables, stored, store, refused>>

SelectSession(t) ==
    /\ At(t, "select")
    /\ Goto(t, IF session[page[t].user] = "none" THEN "insert" ELSE "sign")
    /\ UNCHANGED <<tables, stored, store, refused>>

\* Mutant: the page stores the session before it is signed.
InsertSessionStored(t) ==
    /\ At(t, "insert")
    /\ session' = [session EXCEPT ![page[t].user] = "new"]
    /\ stored' = page[t].user
    /\ Goto(t, "sign")
    /\ UNCHANGED <<pad, row, store, refused>>

\* The address is the table's key.
InsertSession(t) ==
    /\ At(t, "insert")
    /\ IF session[page[t].user] = "none"
       THEN /\ session' = [session EXCEPT ![page[t].user] = "new"]
            /\ Goto(t, "sign")
       ELSE Leave(t) /\ UNCHANGED session
    /\ UNCHANGED <<pad, row, stored, store, refused>>

\* The wallet signs the hash, the service verifies it, the page stores it.
Sign(t) ==
    /\ At(t, "sign")
    /\ session' = [session EXCEPT ![page[t].user] = "verified"]
    /\ stored' = page[t].user
    /\ Leave(t)
    /\ UNCHANGED <<pad, row, store, refused>>
-----------------------------------------------------------------------------
(* Uploading one by one, or in bulk *)

\* Bound: inscription numbers suffice for the pages that ask for one.
Room == (IF Highest < MaxSupply THEN MaxSupply ELSE Highest)
          + Cardinality({t \in Tab : page[t].step # "idle"}) < MaxId

\* A page that finds its file empty returns, its button still uploading.
SubmitOne(t) ==
    /\ At(t, "idle") /\ stored # NoUser /\ Room
    /\ \E p \in Picture \cup {NoPicture} :
          page' = [page EXCEPT ![t] =
                    [Idle(t) EXCEPT !.step = IF p = NoPicture THEN "hung" ELSE "start",
                                    !.user = stored,
                                    !.items = <<[id |-> 0, name |-> 0, pic |-> p]>>]]
    /\ UNCHANGED <<tables, stored, store, refused>>

SubmitBulk(t) ==
    /\ At(t, "idle") /\ stored # NoUser
    /\ \E b \in Batches :
          page' = [page EXCEPT ![t] =
                    [Idle(t) EXCEPT !.kind = "bulk", !.step = "start",
                                    !.user = stored, !.items = b]]
    /\ UNCHANGED <<tables, stored, store, refused>>

AfterFolder(t) == IF page[t].kind = "one" THEN "number" ELSE "rows"

\* The session, then the launch's row.
Start(t) ==
    /\ At(t, "start")
    /\ IF ~Valid(page[t].user) THEN Leave(t)
       ELSE IF ~Owned(t) THEN Goto(t, "folder")
       ELSE page' = [page EXCEPT ![t].folder = pad.folder, ![t].step = AfterFolder(t)]
    /\ UNCHANGED <<tables, stored, store, refused>>

\* Mutant: a conflict is ignored, as it is for the inscriptions.
FolderIgnored(t) ==
    /\ At(t, "folder")
    /\ pad' = IF pad = NoPad THEN [creator |-> page[t].user, folder |-> t] ELSE pad
    /\ page' = [page EXCEPT ![t].folder = t, ![t].step = AfterFolder(t)]
    /\ UNCHANGED <<session, row, stored, store, refused>>

\* The insertion fails when the launch has its row by then.
Folder(t) ==
    /\ At(t, "folder")
    /\ IF pad = NoPad
       THEN /\ pad' = [creator |-> page[t].user, folder |-> t]
            /\ page' = [page EXCEPT ![t].folder = t, ![t].step = AfterFolder(t)]
       ELSE Leave(t) /\ UNCHANGED pad
    /\ UNCHANGED <<session, row, stored, store, refused>>

\* MAX(inscription_number) + 1, not yet inserted.
Number(t) ==
    /\ At(t, "number")
    /\ page' = [page EXCEPT ![t].items[1] = [@ EXCEPT !.id = Highest + 1, !.name = Highest + 1],
                            ![t].step = "rows"]
    /\ UNCHANGED <<tables, stored, store, refused>>

\* Mutant: the row is inserted as uploaded.
InsertRowUploaded(t) ==
    /\ At(t, "rows")
    /\ row' = IF row[item(t).id] = NoRow
              THEN [row EXCEPT ![item(t).id] = [name |-> item(t).name, uploaded |-> TRUE]]
              ELSE row
    /\ Loop(t, "rows", "picture")
    /\ UNCHANGED <<session, pad, stored, store, refused>>

\* A row that is there stays as it is, whoever inserted it.
InsertRow(t) ==
    /\ At(t, "rows")
    /\ row' = IF row[item(t).id] = NoRow
              THEN [row EXCEPT ![item(t).id] = [name |-> item(t).name, uploaded |-> FALSE]]
              ELSE row
    /\ Loop(t, "rows", "picture")
    /\ UNCHANGED <<session, pad, stored, store, refused>>

\* Mutant: the picture is sent without waiting for it.
PutPictureAsync(t) ==
    /\ At(t, "picture")
    /\ \E sent \in BOOLEAN :
          file' = IF sent THEN [file EXCEPT ![<<page[t].folder, item(t).name>>] = item(t).pic]
                  ELSE file
    /\ Goto(t, "description")
    /\ UNCHANGED <<tables, stored, doc, refused>>

PutPicture(t) ==
    /\ At(t, "picture")
    /\ file' = [file EXCEPT ![<<page[t].folder, item(t).name>>] = item(t).pic]
    /\ Goto(t, "description")
    /\ UNCHANGED <<tables, stored, doc, refused>>

AfterDoc(t) == IF page[t].kind = "edit" THEN "done" ELSE "confirm"

NextItem(t) == Loop(t, "picture", AfterDoc(t))

PutDescription(t) ==
    /\ At(t, "description")
    /\ doc' = [doc EXCEPT ![<<page[t].folder, item(t).id>>] =
                 [name |-> item(t).name, of |-> item(t).pic]]
    /\ NextItem(t)
    /\ UNCHANGED <<tables, stored, file, refused>>

\* The object store answers with an error, which upload() does not look at.
Refuse(t) ==
    /\ page[t].step \in StoreSteps /\ refused < MaxRefused
    /\ IF At(t, "picture") THEN Goto(t, "description") ELSE NextItem(t)
    /\ refused' = refused + 1
    /\ UNCHANGED <<tables, stored, store>>

Ids(t) == {page[t].items[k].id : k \in 1 .. Len(page[t].items)}

\* confirm() and bulkConfirm() do not look at the answer either.
Confirm(t) ==
    /\ At(t, "confirm")
    /\ row' = IF Valid(page[t].user) /\ Owned(t)
              THEN [i \in Id |-> IF i \in Ids(t) /\ row[i] # NoRow
                                 THEN [row[i] EXCEPT !.uploaded = TRUE] ELSE row[i]]
              ELSE row
    /\ Goto(t, "done")
    /\ UNCHANGED <<session, pad, stored, store, refused>>

RefuseConfirm(t) ==
    /\ At(t, "confirm") /\ refused < MaxRefused
    /\ Goto(t, "done")
    /\ refused' = refused + 1
    /\ UNCHANGED <<tables, stored, store>>

\* "Uploaded" for ten seconds.
Timeout(t) ==
    /\ At(t, "done")
    /\ Leave(t)
    /\ UNCHANGED <<tables, stored, store, refused>>
-----------------------------------------------------------------------------
(* Editing a description *)

\* The dialog of an uploaded inscription reads the description.
Open(t) ==
    /\ At(t, "idle") /\ stored # NoUser /\ pad # NoPad /\ pad.creator = stored
    /\ \E i \in Uploaded :
         /\ doc[<<pad.folder, i>>] # NoDoc
         /\ page' = [page EXCEPT ![t] =
               [Idle(t) EXCEPT !.kind = "edit", !.step = "form",
                   !.items = <<[id |-> i, name |-> doc[<<pad.folder, i>>].name,
                                pic |-> doc[<<pad.folder, i>>].of]>>]]
    /\ UNCHANGED <<tables, stored, store, refused>>

SubmitEdit(t) ==
    /\ At(t, "form") /\ stored # NoUser
    /\ page' = [page EXCEPT ![t].user = stored, ![t].step = "edit"]
    /\ UNCHANGED <<tables, stored, store, refused>>

Edit(t) ==
    /\ At(t, "edit")
    /\ IF Valid(page[t].user) /\ Owned(t) /\ row[item(t).id] # NoRow
       THEN page' = [page EXCEPT ![t].folder = pad.folder, ![t].step = "description"]
       ELSE Leave(t)
    /\ UNCHANGED <<tables, stored, store, refused>>
-----------------------------------------------------------------------------
\* The tab is closed or reloaded, the request is lost, or the service stops.
Close(t) ==
    /\ page[t].step # "idle"
    /\ Leave(t)
    /\ UNCHANGED <<tables, stored, store, refused>>

Sessions(t) == SelectSession(t) \/ InsertSession(t) \/ Sign(t)

Requests(t) ==
    \/ Start(t) \/ Folder(t) \/ Number(t) \/ InsertRow(t) \/ PutPicture(t)
    \/ PutDescription(t) \/ Confirm(t) \/ Edit(t) \/ Timeout(t)

Begin(t) ==
    \/ \E u \in User : Ask(t, u)
    \/ SubmitOne(t) \/ SubmitBulk(t) \/ Open(t) \/ SubmitEdit(t)

Next ==
    \E t \in Tab : \/ Begin(t) \/ Sessions(t) \/ Requests(t)
                   \/ Refuse(t) \/ RefuseConfirm(t) \/ Close(t)

Spec == Init /\ [][Next]_vars
-----------------------------------------------------------------------------
(* Properties *)

\* useUploaderSession.ts: what the browser keeps as its session is one the
\* service accepts, whichever tabs asked for it and wherever they stopped.
StoredSessionIsVerified == stored # NoUser => session[stored] = "verified"

\* main.ts: whoever uploads first, everything is put in the folder that the
\* launch's row names, which is where the mint bot and the pages look.
ObjectsAreFound ==
    /\ \A x \in Tab \X Name : file[x] # NoPicture => pad # NoPad /\ x[1] = pad.folder
    /\ \A x \in Tab \X Id : doc[x] # NoDoc => pad # NoPad /\ x[1] = pad.folder

Complete(f, i) == doc[<<f, i>>] # NoDoc /\ file[<<f, doc[<<f, i>>].name>>] # NoPicture

\* While no request is refused, a description in the store names a picture in
\* the store, wherever an upload stopped: the bot that finds the one finds
\* the other.
DescribedPictureExists ==
    refused = 0 => \A f \in Tab, i \in Id : doc[<<f, i>>] # NoDoc => Complete(f, i)

\* While no request is refused, an inscription that counts as uploaded has its
\* description and the picture this names, also when tabs overlap.
CountedIsStored ==
    refused = 0 => \A i \in Uploaded : pad # NoPad /\ Complete(pad.folder, i)

\* main.ts and the two dialogs: whatever tab is at whatever await, the rows are
\* well-formed, and what is described or counted is in the store.
UploadsInv == TypeOK /\ DescribedPictureExists /\ CountedIsStored
=============================================================================
